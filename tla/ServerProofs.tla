---------------------------- MODULE ServerProofs ----------------------------
(***************************************************************************)
(* Proofs about the server's handling of requests, part by part:           *)
(* ServerDispatch, for every set of requests and names and any number of   *)
(* registrations; RateLimiter, for every rate, burst and time to live that *)
(* go together; MiddlewareChain, for every order of the middlewares; the   *)
(* tokens of Authentication; Versioning, for every finite set of versions; *)
(* ParamsParsing, for every finite source of values; JSONCodec, for every  *)
(* int and text; and FullFeaturedServer, composed of parts proved          *)
(* elsewhere.                                                              *)
(*                                                                         *)
(* That a request sees the past rests on the registries giving the last    *)
(* registration of each name (Current), and on there being a last one      *)
(* among those that were complete when the request came in (Seen). What    *)
(* the others rest on is said where their sections begin.                  *)
(***************************************************************************)
EXTENDS ServerDispatch, SequenceTheorems, FiniteSetTheorems, WellFoundedInduction, TLAPS

Calls == {CallOf(k) : k \in Kinds}
Lists == {ListOf(k) : k \in Kinds}

\* The registrations of a name among the first m.
MadeAs(k, e, i) == adds[i] = <<k, e>>
IsLast(k, e, m, w) ==
    w \in 1..m /\ MadeAs(k, e, w) /\ \A i \in 1..m : MadeAs(k, e, i) => i <= w

DispatchShape ==
    /\ DOMAIN registry = Kinds
    /\ \A k \in Kinds : DOMAIN registry[k] \subseteq Entries
    /\ adds \in Seq(Kinds \X Entries)
    /\ MaxAdds \in Nat /\ Len(adds) <= MaxAdds
    /\ roots \in Nat /\ initialized \in BOOLEAN
    /\ requests \in [Requests -> [pc : {"new", "received", "handler", "done"},
                                  method : Methods, entry : Entries, reg : 0..MaxAdds]]
    /\ DOMAIN reply = Requests
    /\ \A r \in Requests : reply[r].type \in Codes \cup {"none", "result", "toolError"}
    /\ before \in [Requests -> [adds : Nat, initialized : BOOLEAN]]

\* The registries give the last registration of every name that has one.
Current ==
    \A k \in Kinds, e \in Entries :
        /\ e \in DOMAIN registry[k] => IsLast(k, e, Len(adds), registry[k][e])
        /\ e \notin DOMAIN registry[k] => \A i \in 1..Len(adds) : ~MadeAs(k, e, i)

\* What a request must find of a name that was registered when it came in.
SeenBy(r, k, e) ==
    \/ \A i \in 1..before[r].adds : ~MadeAs(k, e, i)
    \/ \E w \in 1..before[r].adds :
          /\ IsLast(k, e, before[r].adds, w)
          /\ requests[r].method = CallOf(k) /\ requests[r].entry = e =>
                /\ reply[r].type # "MethodNotFound"
                /\ requests[r].pc = "handler" => requests[r].reg >= w
          /\ requests[r].method = ListOf(k) /\ requests[r].pc = "done" =>
                \E n \in w..Len(adds) : <<e, n>> \in reply[r].of

Seen ==
    \A r \in Requests :
        /\ before[r].adds <= Len(adds)
        /\ requests[r].pc # "done" => reply[r] = NoReply
        /\ before[r].initialized => initialized /\ reply[r].type # "InvalidRequest"
        /\ \A k \in Kinds, e \in Entries : SeenBy(r, k, e)

DispatchInv == DispatchShape /\ Current /\ Seen

LEMMA MethodNames ==
    /\ \A j, k \in Kinds : /\ CallOf(j) # ListOf(k)
                           /\ CallOf(j) = CallOf(k) => j = k
                           /\ ListOf(j) = ListOf(k) => j = k
    /\ \A k \in Kinds : /\ CallOf(k) \notin Extended \cup {"initialize", "other"}
                        /\ ListOf(k) \notin Extended \cup {"initialize", "other"}
                        /\ CallOf(k) \in Methods /\ ListOf(k) \in Methods
  BY DEF Kinds, CallOf, ListOf, Extended, Methods

\* A step that leaves registries and requests alone.
LEMMA SameRegistrations ==
    ASSUME Current, Seen, registry' = registry, adds' = adds, initialized' = initialized,
           requests' = requests, reply' = reply, before' = before
    PROVE  Current' /\ Seen'
<1>1. \A k, e, m, w : IsLast(k, e, m, w)' <=> IsLast(k, e, m, w)
  BY DEF IsLast, MadeAs
<1>2. Current'
  BY <1>1 DEF Current, MadeAs, IsLast
<1>3. \A r \in Requests, k \in Kinds, e \in Entries : SeenBy(r, k, e)' <=> SeenBy(r, k, e)
  BY DEF SeenBy, IsLast, MadeAs
<1> QED
  BY <1>2, <1>3 DEF Seen

LEMMA AddKeeps ==
    ASSUME DispatchInv, NEW k \in Kinds, NEW e \in Entries, Add(k, e)
    PROVE  DispatchInv'
<1>0. DispatchShape /\ Current /\ Seen
  BY DEF DispatchInv
<1>n. PICK n \in Nat : n = Len(adds) + 1
  BY <1>0 DEF DispatchShape
<1>1. /\ Len(adds) < MaxAdds /\ adds' = Append(adds, <<k, e>>)
      /\ registry' = [registry EXCEPT ![k] = [x \in DOMAIN registry[k] \cup {e} |->
                                                 IF x = e THEN n ELSE registry[k][x]]]
      /\ roots' = roots /\ initialized' = initialized /\ requests' = requests
      /\ reply' = reply /\ before' = before
  BY <1>n DEF Add
<1>2. MaxAdds \in Nat /\ Len(adds) \in Nat
  BY <1>0 DEF DispatchShape
<1>3. /\ adds \in Seq(Kinds \X Entries) /\ Len(adds) \in Nat
      /\ adds' \in Seq(Kinds \X Entries) /\ Len(adds') = n /\ n \in Nat /\ adds'[n] = <<k, e>>
      /\ \A i \in 1..Len(adds) : adds'[i] = adds[i]
  BY <1>0, <1>1, <1>n DEF DispatchShape
<1>4. /\ DOMAIN registry' = Kinds
      /\ registry'[k] = [x \in DOMAIN registry[k] \cup {e} |->
                            IF x = e THEN n ELSE registry[k][x]]
      /\ \A j \in Kinds : j # k => registry'[j] = registry[j]
  BY <1>0, <1>1 DEF DispatchShape
<1>5. n <= MaxAdds
  BY <1>1, <1>2, <1>n
<1>6. /\ 1..n = 1..Len(adds) \cup {n} /\ n \notin 1..Len(adds)
      /\ n <= n /\ \A i \in 1..Len(adds) : i <= n
  BY <1>2, <1>n
<1>7. \A j \in Kinds : /\ DOMAIN registry'[j] = DOMAIN registry[j] \cup (IF j = k THEN {e} ELSE {})
                       /\ \A x \in DOMAIN registry[j] :
                             <<j, x>> # <<k, e>> => registry'[j][x] = registry[j][x]
  BY <1>4
<1>8. DispatchShape'
  <2>1. \A j \in Kinds : DOMAIN registry'[j] \subseteq Entries
    BY <1>0, <1>7 DEF DispatchShape
  <2> QED
    BY <1>0, <1>1, <1>2, <1>3, <1>4, <1>5, <2>1 DEF DispatchShape
<1>9. \A j \in Kinds, x \in Entries, i \in 1..Len(adds) : MadeAs(j, x, i)' <=> MadeAs(j, x, i)
  BY <1>3 DEF MadeAs
<1>10. \A j \in Kinds, x \in Entries : MadeAs(j, x, n)' <=> j = k /\ x = e
  BY <1>3 DEF MadeAs
<1>11. Current'
  <2>1. ASSUME NEW j \in Kinds, NEW x \in Entries
        PROVE  /\ x \in DOMAIN registry'[j] =>
                     /\ registry'[j][x] \in 1..n /\ adds'[registry'[j][x]] = <<j, x>>
                     /\ \A i \in 1..n : MadeAs(j, x, i)' => i <= registry'[j][x]
               /\ x \notin DOMAIN registry'[j] => \A i \in 1..n : ~MadeAs(j, x, i)'
    <3>1. CASE j = k /\ x = e
      <4>1. x \in DOMAIN registry'[j] /\ registry'[j][x] = n
        BY <3>1, <1>4
      <4>3. adds'[registry'[j][x]] = <<j, x>>
        BY <4>1, <3>1, <1>3
      <4>4. n \in 1..n /\ \A i \in 1..n : i <= n
        BY <1>6
      <4> QED
        BY <4>1, <4>3, <4>4
    <3>2. CASE ~(j = k /\ x = e)
      <4>1. /\ x \in DOMAIN registry'[j] <=> x \in DOMAIN registry[j]
            /\ x \in DOMAIN registry[j] => registry'[j][x] = registry[j][x]
        BY <3>2, <1>7
      <4>2. \A i \in 1..n : MadeAs(j, x, i)' => i \in 1..Len(adds) /\ MadeAs(j, x, i)
        BY <3>2, <1>6, <1>9, <1>10
      <4>3. CASE x \in DOMAIN registry[j]
        <5>1. /\ registry[j][x] \in 1..Len(adds) /\ MadeAs(j, x, registry[j][x])
              /\ \A i \in 1..Len(adds) : MadeAs(j, x, i) => i <= registry[j][x]
          BY <1>0, <4>3 DEF Current, IsLast
        <5>2. adds[registry[j][x]] = <<j, x>>
          BY <5>1 DEF MadeAs
        <5>3. adds'[registry'[j][x]] = <<j, x>>
          BY <4>1, <4>3, <5>1, <5>2, <1>3
        <5>4. registry[j][x] \in 1..n
          BY <5>1, <1>6
        <5>5. \A i \in 1..n : MadeAs(j, x, i)' => i <= registry[j][x]
          BY <5>1, <4>2
        <5> QED
          BY <4>1, <4>3, <5>3, <5>4, <5>5
      <4>4. CASE x \notin DOMAIN registry[j]
        <5>1. \A i \in 1..Len(adds) : ~MadeAs(j, x, i)
          BY <1>0, <4>4 DEF Current
        <5> QED
          BY <4>1, <4>2, <4>4, <5>1
      <4> QED
        BY <4>3, <4>4
    <3> QED
      BY <3>1, <3>2
  <2>2. Len(adds)' = n
    BY <1>3
  <2>3. \A j \in Kinds, x \in Entries :
           /\ x \in DOMAIN registry'[j] => IsLast(j, x, Len(adds), registry[j][x])'
           /\ x \notin DOMAIN registry'[j] => \A i \in 1..Len(adds') : ~MadeAs(j, x, i)'
    BY <2>1, <2>2 DEF IsLast, MadeAs
  <2> QED
    BY <2>3 DEF Current
<1>12. Seen'
  <2>1. ASSUME NEW r \in Requests
        PROVE  /\ before[r].adds <= n
               /\ before[r].adds \in Nat /\ before[r].adds <= Len(adds)
               /\ 1..before[r].adds \subseteq 1..Len(adds)
    BY <1>0, <1>2, <1>n DEF Seen, DispatchShape
  <2>2. ASSUME NEW r \in Requests, NEW j \in Kinds, NEW x \in Entries
        PROVE  SeenBy(r, j, x)'
    <3>1. \A i \in 1..before[r].adds : MadeAs(j, x, i)' <=> MadeAs(j, x, i)
      BY <1>9, <2>1
    <3>2. \A w \in 1..before[r].adds :
              IsLast(j, x, before[r].adds, w)' <=> IsLast(j, x, before[r].adds, w)
      BY <1>1, <3>1 DEF IsLast
    <3>3. \A w \in 1..before[r].adds : w..Len(adds) \subseteq w..n
      BY <1>2, <1>n, <2>1
    <3>4. SeenBy(r, j, x)
      BY <1>0 DEF Seen
    <3> QED
      BY <1>1, <1>3, <3>1, <3>2, <3>3, <3>4 DEF SeenBy
  <2> QED
    BY <1>0, <1>1, <1>3, <2>1, <2>2 DEF Seen
<1> QED
  BY <1>8, <1>11, <1>12 DEF DispatchInv

LEMMA RootsKeep ==
    ASSUME DispatchInv, AddRoot \/ RemoveRoot
    PROVE  DispatchInv'
<1>1. /\ roots' \in {roots + 1, roots - 1} /\ (roots' = roots - 1 => roots > 0 \/ roots' = roots + 1)
      /\ registry' = registry /\ adds' = adds /\ initialized' = initialized
      /\ requests' = requests /\ reply' = reply /\ before' = before
  BY DEF AddRoot, RemoveRoot
<1>2. roots \in Nat
  BY DEF DispatchInv, DispatchShape
<1>3. roots' \in Nat
  BY <1>1, <1>2
<1>4. DispatchShape'
  BY <1>1, <1>3 DEF DispatchInv, DispatchShape
<1>5. Current' /\ Seen'
  BY <1>1, SameRegistrations DEF DispatchInv
<1> QED
  BY <1>4, <1>5 DEF DispatchInv

LEMMA ReceiveKeeps ==
    ASSUME DispatchInv, NEW r \in Requests, NEW m \in Methods, NEW e \in Entries, Receive(r, m, e)
    PROVE  DispatchInv'
<1>1. /\ requests[r].pc = "new"
      /\ requests' = [requests EXCEPT ![r] = [pc |-> "received", method |-> m,
                                              entry |-> e, reg |-> 0]]
      /\ before' = [before EXCEPT ![r] = [adds |-> Len(adds), initialized |-> initialized]]
      /\ registry' = registry /\ adds' = adds /\ initialized' = initialized
      /\ roots' = roots /\ reply' = reply
  BY DEF Receive, serverVars
<1>2. DispatchShape /\ Current /\ Seen
  BY DEF DispatchInv
<1>3. Len(adds) \in Nat /\ 0 \in 0..MaxAdds /\ Len(adds) <= Len(adds)
  BY <1>2 DEF DispatchShape
<1>4. DispatchShape'
  BY <1>1, <1>2, <1>3 DEF DispatchShape
<1>5. Current'
  BY <1>1, <1>2 DEF Current, IsLast, MadeAs
<1>6. /\ requests'[r].pc = "received" /\ before'[r].adds = Len(adds)
      /\ before'[r].initialized = initialized
      /\ reply'[r] = NoReply
      /\ \A s \in Requests : s # r => requests'[s] = requests[s] /\ before'[s] = before[s]
  BY <1>1, <1>2 DEF DispatchShape, Seen
<1>7. Seen'
  <2>1. ASSUME NEW s \in Requests, NEW k \in Kinds, NEW x \in Entries
        PROVE  SeenBy(s, k, x)'
    <3>1. CASE s # r
      <4>1. SeenBy(s, k, x)
        BY <1>2 DEF Seen
      <4> QED
        BY <1>1, <1>6, <3>1, <4>1 DEF SeenBy, IsLast, MadeAs
    <3>2. CASE s = r
      <4>1. \/ \A i \in 1..Len(adds) : ~MadeAs(k, x, i)
            \/ IsLast(k, x, Len(adds), registry[k][x])
        BY <1>2 DEF Current
      <4>2. reply'[r].type # "MethodNotFound"
        BY <1>6 DEF NoReply
      <4> QED
        BY <1>1, <1>6, <3>2, <4>1, <4>2 DEF SeenBy, IsLast, MadeAs
    <3> QED
      BY <3>1, <3>2
  <2>2. ASSUME NEW s \in Requests
        PROVE  /\ before'[s].adds <= Len(adds)
               /\ requests'[s].pc # "done" => reply'[s] = NoReply
               /\ before'[s].initialized => initialized /\ reply'[s].type # "InvalidRequest"
    <3>1. CASE s # r
      BY <1>1, <1>2, <1>6, <3>1 DEF Seen
    <3>2. CASE s = r
      BY <1>3, <1>6, <3>2 DEF NoReply
    <3> QED
      BY <3>1, <3>2
  <2> QED
    BY <1>1, <2>1, <2>2 DEF Seen
<1> QED
  BY <1>4, <1>5, <1>7 DEF DispatchInv

\* Every way in which HandleRequest answers.
LEMMA AnswerKeeps ==
    ASSUME DispatchInv, NEW r \in Requests, NEW answer, Answer(r, answer),
           requests[r].pc # "done",
           registry' = registry, adds' = adds, roots' = roots, before' = before,
           initialized' \in BOOLEAN, initialized => initialized',
           answer.type \in Codes \cup {"none", "result", "toolError"},
           initialized => answer.type # "InvalidRequest",
           \A k \in Kinds : /\ requests[r].method = CallOf(k)
                            /\ requests[r].entry \in DOMAIN registry[k]
                            => answer.type # "MethodNotFound",
           \A k \in Kinds : requests[r].method = ListOf(k) =>
               \A e \in DOMAIN registry[k] : <<e, registry[k][e]>> \in answer.of
    PROVE  DispatchInv'
<1>1. DispatchShape /\ Current /\ Seen
  BY DEF DispatchInv
<1>2. /\ requests' = [requests EXCEPT ![r].pc = "done"]
      /\ reply' = [reply EXCEPT ![r] = answer]
  BY DEF Answer
<1>3. /\ requests'[r].pc = "done" /\ requests'[r].method = requests[r].method
      /\ requests'[r].entry = requests[r].entry /\ reply'[r] = answer
      /\ \A s \in Requests : s # r => requests'[s] = requests[s] /\ reply'[s] = reply[s]
  BY <1>1, <1>2 DEF DispatchShape
<1>4. DispatchShape'
  <2>1. requests' \in [Requests -> [pc : {"new", "received", "handler", "done"},
                                    method : Methods, entry : Entries, reg : 0..MaxAdds]]
    BY <1>1, <1>2 DEF DispatchShape
  <2>2. /\ DOMAIN reply' = Requests
        /\ \A s \in Requests : reply'[s].type \in Codes \cup {"none", "result", "toolError"}
    BY <1>1, <1>2, <1>3 DEF DispatchShape
  <2> QED
    BY <1>1, <2>1, <2>2 DEF DispatchShape
<1>5. Current'
  BY <1>1 DEF Current, IsLast, MadeAs
<1>6. ASSUME NEW s \in Requests, NEW k \in Kinds, NEW e \in Entries
      PROVE  SeenBy(s, k, e)'
  <2>1. SeenBy(s, k, e)
    BY <1>1 DEF Seen
  <2>2. CASE s # r
    BY <1>3, <2>1, <2>2 DEF SeenBy, IsLast, MadeAs
  <2>3. CASE s = r
    <3>1. CASE \A i \in 1..before[r].adds : ~MadeAs(k, e, i)
      BY <2>3, <3>1 DEF SeenBy, MadeAs
    <3>2. CASE \E i \in 1..before[r].adds : MadeAs(k, e, i)
      <4>1. PICK w \in 1..before[r].adds : IsLast(k, e, before[r].adds, w)
        BY <2>1, <2>3, <3>2 DEF SeenBy
      <4>2. before[r].adds <= Len(adds) /\ before[r].adds \in Nat /\ Len(adds) \in Nat
        BY <1>1 DEF Seen, DispatchShape
      <4>3. w \in 1..Len(adds) /\ MadeAs(k, e, w)
        BY <4>1, <4>2 DEF IsLast
      <4>4. e \in DOMAIN registry[k] /\ registry[k][e] \in 1..Len(adds) /\ w <= registry[k][e]
        BY <1>1, <4>3 DEF Current, IsLast
      <4>5. registry[k][e] \in w..Len(adds)
        BY <4>3, <4>4, <4>2
      <4>6. requests[r].method = ListOf(k) => \E n \in w..Len(adds) : <<e, n>> \in answer.of
        BY <4>4, <4>5
      <4>7. requests[r].method = CallOf(k) /\ requests[r].entry = e =>
                answer.type # "MethodNotFound"
        BY <4>4
      <4>8. IsLast(k, e, before[r].adds, w)'
        BY <4>1 DEF IsLast, MadeAs
      <4> QED
        BY <1>3, <2>3, <4>1, <4>6, <4>7, <4>8 DEF SeenBy
    <3> QED
      BY <3>1, <3>2
  <2> QED
    BY <2>2, <2>3
<1>7. ASSUME NEW s \in Requests
      PROVE  /\ before[s].adds <= Len(adds)
             /\ requests'[s].pc # "done" => reply'[s] = NoReply
             /\ before[s].initialized => initialized' /\ reply'[s].type # "InvalidRequest"
  <2>1. CASE s # r
    BY <1>1, <1>3, <2>1 DEF Seen
  <2>2. CASE s = r
    BY <1>1, <1>3, <2>2 DEF Seen
  <2> QED
    BY <2>1, <2>2
<1>8. Seen'
  BY <1>6, <1>7 DEF Seen
<1> QED
  BY <1>4, <1>5, <1>8 DEF DispatchInv

\* The lookup that finds a handler, which is at least as new as what the
\* request came in after.
LEMMA LookupKeeps ==
    ASSUME DispatchInv, NEW r \in Requests, NEW k \in Kinds, HandleCall(r, k),
           requests[r].entry \in DOMAIN registry[k]
    PROVE  DispatchInv'
<1>1. /\ requests[r].pc = "received" /\ requests[r].method = CallOf(k)
      /\ requests' = [requests EXCEPT ![r].pc = "handler",
                                      ![r].reg = registry[k][requests[r].entry]]
      /\ registry' = registry /\ adds' = adds /\ initialized' = initialized
      /\ roots' = roots /\ reply' = reply /\ before' = before
  BY DEF HandleCall, At, serverVars
<1>2. DispatchShape /\ Current /\ Seen
  BY DEF DispatchInv
<1> DEFINE g == registry[k][requests[r].entry]
<1>3. /\ requests'[r].pc = "handler" /\ requests'[r].method = requests[r].method
      /\ requests'[r].entry = requests[r].entry /\ requests'[r].reg = g
      /\ \A s \in Requests : s # r => requests'[s] = requests[s]
  BY <1>1, <1>2 DEF DispatchShape
<1>4. requests[r].entry \in Entries /\ Len(adds) \in Nat /\ Len(adds) <= MaxAdds
  BY <1>2 DEF DispatchShape
<1>5. g \in 1..Len(adds) /\ \A i \in 1..Len(adds) : MadeAs(k, requests[r].entry, i) => i <= g
  BY <1>2, <1>4 DEF Current, IsLast
<1>6. DispatchShape'
  <2>1. g \in 0..MaxAdds
    BY <1>2, <1>4, <1>5 DEF DispatchShape
  <2> HIDE DEF g
  <2>2. requests' \in [Requests -> [pc : {"new", "received", "handler", "done"},
                                    method : Methods, entry : Entries, reg : 0..MaxAdds]]
    <3>1. requests' = [requests EXCEPT ![r] = [requests[r] EXCEPT !.pc = "handler", !.reg = g]]
      BY <1>1 DEF g
    <3>2. [requests[r] EXCEPT !.pc = "handler", !.reg = g]
              \in [pc : {"new", "received", "handler", "done"},
                   method : Methods, entry : Entries, reg : 0..MaxAdds]
      <4>1. requests[r] \in [pc : {"new", "received", "handler", "done"},
                             method : Methods, entry : Entries, reg : 0..MaxAdds]
        BY <1>2 DEF DispatchShape
      <4> QED
        BY <2>1, <4>1
    <3> QED
      BY <1>2, <3>1, <3>2 DEF DispatchShape
  <2> QED
    BY <1>1, <1>2, <2>2 DEF DispatchShape
<1>7. Current'
  BY <1>1, <1>2 DEF Current, IsLast, MadeAs
<1> HIDE DEF g
<1>8. ASSUME NEW s \in Requests, NEW j \in Kinds, NEW e \in Entries
      PROVE  SeenBy(s, j, e)'
  <2>1. SeenBy(s, j, e)
    BY <1>2 DEF Seen
  <2>2. CASE s # r
    BY <1>1, <1>3, <2>1, <2>2 DEF SeenBy, IsLast, MadeAs
  <2>3. CASE s = r
    <3>1. CASE \A i \in 1..before[r].adds : ~MadeAs(j, e, i)
      BY <1>1, <2>3, <3>1 DEF SeenBy, MadeAs
    <3>2. CASE \E i \in 1..before[r].adds : MadeAs(j, e, i)
      <4>1. PICK w \in 1..before[r].adds :
                /\ IsLast(j, e, before[r].adds, w)
                /\ requests[r].method = CallOf(j) /\ requests[r].entry = e =>
                      reply[r].type # "MethodNotFound"
        BY <2>1, <2>3, <3>2 DEF SeenBy
      <4>2. before[r].adds <= Len(adds) /\ before[r].adds \in Nat
        BY <1>2 DEF Seen, DispatchShape
      <4>3. w \in 1..Len(adds) /\ MadeAs(j, e, w)
        BY <1>4, <4>1, <4>2 DEF IsLast
      <4>4. requests[r].method = CallOf(j) /\ requests[r].entry = e => g >= w
        BY <1>1, <1>5, <4>3, MethodNames
      <4>5. IsLast(j, e, before[r].adds, w)'
        BY <1>1, <4>1 DEF IsLast, MadeAs
      <4> QED
        BY <1>1, <1>3, <2>3, <4>1, <4>4, <4>5 DEF SeenBy
    <3> QED
      BY <3>1, <3>2
  <2> QED
    BY <2>2, <2>3
<1>9. ASSUME NEW s \in Requests
      PROVE  requests'[s].pc # "done" => reply[s] = NoReply
  BY <1>1, <1>2, <1>3 DEF Seen
<1>10. Seen'
  BY <1>1, <1>2, <1>8, <1>9 DEF Seen
<1> QED
  BY <1>6, <1>7, <1>10 DEF DispatchInv

LEMMA RequestStepKeeps ==
    ASSUME DispatchInv, NEW r \in Requests, RequestStep(r)
    PROVE  DispatchInv'
<1>1. DispatchShape
  BY DEF DispatchInv
<1>2. /\ \A x : Result(x).type = "result" /\ ToolError(x).type = "toolError"
      /\ \A c : Error(c).type = c
      /\ \A x : Result(x).of = x
  BY DEF Result, ToolError, Error
<1>3. ASSUME NEW type \in ClientTypes, HandleInitialize(r, type)
      PROVE  DispatchInv'
  <2>1. /\ requests[r].pc = "received" /\ requests[r].method = "initialize"
        /\ initialized' = TRUE /\ Answer(r, Result(FilterCapabilities(type)))
        /\ registry' = registry /\ adds' = adds /\ roots' = roots /\ before' = before
    BY <1>3 DEF HandleInitialize, At
  <2> QED
    BY <2>1, <1>2, AnswerKeeps, MethodNames
<1>4. ASSUME NEW k \in Kinds, HandleList(r, k)
      PROVE  DispatchInv'
  <2> DEFINE of == {<<e, registry[k][e]>> : e \in DOMAIN registry[k]}
  <2>1. /\ requests[r].pc = "received" /\ requests[r].method = ListOf(k)
        /\ Answer(r, Result(of)) /\ initialized' = initialized
        /\ registry' = registry /\ adds' = adds /\ roots' = roots /\ before' = before
    BY <1>4 DEF HandleList, At, serverVars
  <2>2. \A j \in Kinds : requests[r].method = ListOf(j) =>
            \A e \in DOMAIN registry[j] : <<e, registry[j][e]>> \in Result(of).of
    <3>1. \A j \in Kinds : requests[r].method = ListOf(j) => j = k
      BY <2>1, MethodNames
    <3>2. \A e \in DOMAIN registry[k] : <<e, registry[k][e]>> \in of
      OBVIOUS
    <3>3. Result(of).of = of
      BY DEF Result
    <3> HIDE DEF of
    <3> QED
      BY <3>1, <3>2, <3>3
  <2>3. \A j \in Kinds : requests[r].method # CallOf(j)
    BY <2>1, MethodNames
  <2>4. Result(of).type = "result" /\ initialized \in BOOLEAN
    BY <1>1, <1>2 DEF DispatchShape
  <2> HIDE DEF of
  <2> QED
    BY <2>1, <2>2, <2>3, <2>4, AnswerKeeps
<1>5. ASSUME NEW k \in Kinds, HandleCall(r, k)
      PROVE  DispatchInv'
  <2>1. CASE requests[r].entry \in DOMAIN registry[k]
    BY <1>5, <2>1, LookupKeeps
  <2>2. CASE requests[r].entry \notin DOMAIN registry[k]
    <3>1. /\ requests[r].pc = "received" /\ requests[r].method = CallOf(k)
          /\ Answer(r, Error("MethodNotFound")) /\ initialized' = initialized
          /\ registry' = registry /\ adds' = adds /\ roots' = roots /\ before' = before
      BY <1>5, <2>2 DEF HandleCall, At, serverVars
    <3>2. \A j \in Kinds : /\ requests[r].method = CallOf(j) => j = k
                           /\ requests[r].method # ListOf(j)
      BY <3>1, MethodNames
    <3>3. Error("MethodNotFound").type = "MethodNotFound" /\ initialized \in BOOLEAN
          /\ "MethodNotFound" \in Codes
      BY <1>1, <1>2 DEF DispatchShape, Codes
    <3> QED
      BY <2>2, <3>1, <3>2, <3>3, AnswerKeeps
  <2> QED
    BY <2>1, <2>2
<1>6. ASSUME NEW k \in Kinds, NEW ok \in BOOLEAN, HandlerReturns(r, k, ok)
      PROVE  DispatchInv'
  <2>1. PICK answer : /\ Answer(r, answer)
                      /\ answer.type \in {"result", "toolError", "InternalError"}
    BY <1>2, <1>6 DEF HandlerReturns
  <2>2. /\ requests[r].pc = "handler" /\ requests[r].method = CallOf(k)
        /\ initialized' = initialized
        /\ registry' = registry /\ adds' = adds /\ roots' = roots /\ before' = before
    BY <1>6 DEF HandlerReturns, At, serverVars
  <2>3. \A j \in Kinds : requests[r].method # ListOf(j)
    BY <2>2, MethodNames
  <2> QED
    BY <1>1, <2>1, <2>2, <2>3, AnswerKeeps DEF DispatchShape, Codes
<1>7. ASSUME BadParams(r)
      PROVE  DispatchInv'
  <2>1. /\ requests[r].pc = "received" /\ Answer(r, Error("InvalidParams"))
        /\ requests[r].method \in {CallOf(k) : k \in Kinds} \cup {"initialize"}
        /\ initialized' = initialized
        /\ registry' = registry /\ adds' = adds /\ roots' = roots /\ before' = before
    BY <1>7 DEF BadParams, serverVars
  <2>2. \A j \in Kinds : requests[r].method # ListOf(j)
    BY <2>1, MethodNames
  <2>3. Error("InvalidParams").type = "InvalidParams" /\ initialized \in BOOLEAN
        /\ "InvalidParams" \in Codes
    BY <1>1, <1>2 DEF DispatchShape, Codes
  <2> QED
    BY <2>1, <2>2, <2>3, AnswerKeeps
<1>8. ASSUME NEW m \in Extended, NEW ok \in BOOLEAN, HandleExtended(r, m, ok)
      PROVE  DispatchInv'
  <2>1. PICK answer : /\ Answer(r, answer)
                      /\ answer.type \in {"result", "InternalError", "InvalidRequest"}
                      /\ initialized => answer.type # "InvalidRequest"
    <3>1. \/ Answer(r, Error("InvalidRequest")) /\ ~initialized
          \/ Answer(r, Result(1..roots)) \/ Answer(r, Result({}))
          \/ Answer(r, Error("InternalError"))
      BY <1>8 DEF HandleExtended
    <3> QED
      BY <3>1, <1>2
  <2>2. /\ requests[r].pc = "received" /\ requests[r].method = m
        /\ initialized' = initialized
        /\ registry' = registry /\ adds' = adds /\ roots' = roots /\ before' = before
    BY <1>8 DEF HandleExtended, At, serverVars
  <2>3. \A j \in Kinds : requests[r].method # ListOf(j) /\ requests[r].method # CallOf(j)
    BY <2>2, MethodNames
  <2> QED
    BY <1>1, <2>1, <2>2, <2>3, AnswerKeeps DEF DispatchShape, Codes
<1>9. ASSUME HandleUnknown(r)
      PROVE  DispatchInv'
  <2>1. /\ requests[r].pc = "received" /\ requests[r].method = "other"
        /\ Answer(r, Error("MethodNotFound")) /\ initialized' = initialized
        /\ registry' = registry /\ adds' = adds /\ roots' = roots /\ before' = before
    BY <1>9 DEF HandleUnknown, At, serverVars
  <2>2. \A j \in Kinds : requests[r].method # ListOf(j) /\ requests[r].method # CallOf(j)
    BY <2>1, MethodNames
  <2>3. Error("MethodNotFound").type = "MethodNotFound" /\ initialized \in BOOLEAN
        /\ "MethodNotFound" \in Codes
    BY <1>1, <1>2 DEF DispatchShape, Codes
  <2> QED
    BY <2>1, <2>2, <2>3, AnswerKeeps
<1> QED
  BY <1>3, <1>4, <1>5, <1>6, <1>7, <1>8, <1>9 DEF RequestStep

LEMMA DispatchInvariance ==
    ASSUME Entries # {}, MaxAdds \in Nat
    PROVE  Spec => []DispatchInv
<1>1. Init => DispatchInv
  <2> SUFFICES ASSUME Init PROVE DispatchInv
    OBVIOUS
  <2>1. NotReceived.entry \in Entries
    BY DEF NotReceived
  <2>2. /\ NotReceived \in [pc : {"new", "received", "handler", "done"},
                            method : Methods, entry : Entries, reg : 0..MaxAdds]
        /\ NotReceived.pc = "new"
    BY <2>1 DEF NotReceived, Methods
  <2>3. DispatchShape
    <3>1. adds = <<>> /\ Len(adds) = 0 /\ adds \in Seq(Kinds \X Entries)
      BY DEF Init
    <3>2. /\ DOMAIN registry = Kinds
          /\ \A k \in Kinds : DOMAIN registry[k] \subseteq Entries
      BY DEF Init
    <3>3. /\ requests \in [Requests -> [pc : {"new", "received", "handler", "done"},
                                        method : Methods, entry : Entries, reg : 0..MaxAdds]]
          /\ before \in [Requests -> [adds : Nat, initialized : BOOLEAN]]
      BY <2>2 DEF Init
    <3>4. DOMAIN reply = Requests /\ \A r \in Requests : reply[r].type = "none"
      BY DEF Init, NoReply
    <3>5. roots = 1 /\ initialized = FALSE
      BY DEF Init
    <3>6. Len(adds) <= MaxAdds
      BY <3>1
    <3> QED
      BY <3>1, <3>2, <3>3, <3>4, <3>5, <3>6 DEF DispatchShape
  <2>4. Current
    <3>1. \A k \in Kinds : DOMAIN registry[k] = {}
      BY DEF Init
    <3>2. 1..Len(adds) = {}
      BY DEF Init
    <3> QED
      BY <3>1, <3>2 DEF Current
  <2>5. Seen
    <3>1. \A r \in Requests : before[r].adds = 0 /\ ~before[r].initialized /\ reply[r] = NoReply
      BY DEF Init
    <3>2. Len(adds) = 0 /\ 1..0 = {}
      BY DEF Init
    <3> QED
      BY <3>1, <3>2 DEF Seen, SeenBy
  <2> QED
    BY <2>3, <2>4, <2>5 DEF DispatchInv
<1>2. DispatchInv /\ [Next]_vars => DispatchInv'
  <2> SUFFICES ASSUME DispatchInv, [Next]_vars PROVE DispatchInv'
    OBVIOUS
  <2>1. CASE UNCHANGED vars
    <3>1. /\ registry' = registry /\ adds' = adds /\ roots' = roots /\ initialized' = initialized
          /\ requests' = requests /\ reply' = reply /\ before' = before
      BY <2>1 DEF vars
    <3>2. DispatchShape'
      BY <3>1 DEF DispatchInv, DispatchShape
    <3> QED
      BY <3>1, <3>2, SameRegistrations DEF DispatchInv
  <2>2. CASE Next
    BY <2>2, AddKeeps, RootsKeep, ReceiveKeeps, RequestStepKeeps DEF Next
  <2> QED
    BY <2>1, <2>2
<1> QED
  BY <1>1, <1>2, PTL DEF Spec

\* A request sees every registration, and the initialization, that were complete
\* when it came in (Server.HandleRequest, ExtendedServer.HandleRequest).
THEOREM RequestsSee ==
    ASSUME Entries # {}, MaxAdds \in Nat
    PROVE  Spec => [](TypeOK /\ RequestsSeeThePast)
<1>1. DispatchInv => TypeOK
  <2> SUFFICES ASSUME DispatchInv PROVE TypeOK
    OBVIOUS
  <2>1. \A k \in Kinds : \A e \in DOMAIN registry[k] : registry[k][e] \in DOMAIN adds
    BY DEF DispatchInv, DispatchShape, Current, IsLast
  <2> QED
    BY <2>1 DEF DispatchInv, DispatchShape, TypeOK
<1>2. DispatchInv => RequestsSeeThePast
  <2> SUFFICES ASSUME DispatchInv, NEW r \in Requests, NEW k \in Kinds
               PROVE  LET was == Was(r, k)
                          req == requests[r]
                      IN  /\ req.method = CallOf(k) /\ req.entry \in DOMAIN was =>
                                /\ reply[r].type # "MethodNotFound"
                                /\ req.pc = "handler" => req.reg >= was[req.entry]
                          /\ req.method = ListOf(k) /\ req.pc = "done" =>
                                \A e \in DOMAIN was :
                                    \E n \in was[e]..Len(adds) : <<e, n>> \in reply[r].of
                          /\ before[r].initialized => reply[r].type # "InvalidRequest"
    BY DEF RequestsSeeThePast
  <2> DEFINE made(e) == {i \in 1..before[r].adds : adds[i] = <<k, e>>}
  <2>1. /\ DOMAIN Was(r, k) = {x \in Entries : made(x) # {}}
        /\ \A e \in DOMAIN Was(r, k) : Was(r, k)[e] = Max(made(e))
    BY DEF Was
  <2>2. ASSUME NEW e \in DOMAIN Was(r, k)
        PROVE  /\ e \in Entries
               /\ requests[r].method = CallOf(k) /\ requests[r].entry = e =>
                     /\ reply[r].type # "MethodNotFound"
                     /\ requests[r].pc = "handler" => requests[r].reg >= Was(r, k)[e]
               /\ requests[r].method = ListOf(k) /\ requests[r].pc = "done" =>
                     \E n \in Was(r, k)[e]..Len(adds) : <<e, n>> \in reply[r].of
    <3>1. e \in Entries /\ \E i \in 1..before[r].adds : MadeAs(k, e, i)
      BY <2>1 DEF MadeAs
    <3>2. SeenBy(r, k, e) /\ before[r].adds \in Nat
      BY <3>1 DEF DispatchInv, DispatchShape, Seen
    <3>3. PICK w \in 1..before[r].adds :
              /\ IsLast(k, e, before[r].adds, w)
              /\ requests[r].method = CallOf(k) /\ requests[r].entry = e =>
                    /\ reply[r].type # "MethodNotFound"
                    /\ requests[r].pc = "handler" => requests[r].reg >= w
              /\ requests[r].method = ListOf(k) /\ requests[r].pc = "done" =>
                    \E n \in w..Len(adds) : <<e, n>> \in reply[r].of
      BY <3>1, <3>2 DEF SeenBy
    <3>4. w \in made(e) /\ \A i \in made(e) : i <= w /\ i \in Int /\ w \in Int
      BY <3>2, <3>3 DEF IsLast, MadeAs
    <3> DEFINE M == made(e)
    <3> HIDE DEF M
    <3>5. w \in M /\ \A i \in M : i <= w /\ i \in Int /\ w \in Int
      BY <3>4 DEF M
    <3>6. \A x \in M : (\A y \in M : x >= y) => x = w
      BY <3>5
    <3>7. Max(M) = w
      BY <3>5, <3>6 DEF Max
    <3>8. Was(r, k)[e] = w
      BY <2>1, <3>7 DEF M
    <3> QED
      BY <3>1, <3>3, <3>8
  <2>3. before[r].initialized => reply[r].type # "InvalidRequest"
    BY DEF DispatchInv, Seen
  <2> QED
    BY <2>2, <2>3
<1> QED
  BY <1>1, <1>2, DispatchInvariance, PTL

-----------------------------------------------------------------------------
(***************************************************************************)
(* The rate limiter.                                                       *)
(*                                                                         *)
(* What bounds the admissions of an interval is what the user's bucket has *)
(* left: admissions and tokens together never exceed what the burst and    *)
(* the rate give (Budget).  A bucket that the cleanup removes was last     *)
(* asked for longer ago than it takes to fill it, and so was every         *)
(* admission through it (Admitted, Touched).                               *)
(***************************************************************************)
CONSTANTS Users, NoUser, Rate, Burst, TTL, MaxClock
VARIABLES hasGlobal, bucketOf, lastAccess, tokens, lastUpdate, pc, mode, user,
          bucket, due, now, log

L == INSTANCE RateLimiter

\* Tokens come at a rate, and an idle bucket is full before its time to live
\* is over.
LimiterOptions ==
    /\ Rate \in Nat \ {0} /\ Burst \in Nat /\ TTL \in Nat /\ MaxClock \in Nat
    /\ Rate * TTL >= Burst
    /\ NoUser \notin Users

Using == {"touch", "process", "wait", "sleep", "retry", "reserve", "reserved"}

Clock == now \in 0..MaxClock /\ hasGlobal \in BOOLEAN

Buckets ==
    /\ tokens \in Seq(Int) /\ lastUpdate \in Seq(Int) /\ Len(lastUpdate) = Len(tokens)
    /\ \A b \in 1..Len(tokens) : tokens[b] <= Burst /\ lastUpdate[b] \in 0..now
    /\ hasGlobal => Len(tokens) >= 1

Mapped ==
    /\ DOMAIN bucketOf \subseteq Users /\ DOMAIN lastAccess = DOMAIN bucketOf
    /\ \A u \in DOMAIN bucketOf : bucketOf[u] \in 1..Len(tokens) /\ lastAccess[u] \in 0..now
    /\ \A u, v \in DOMAIN bucketOf : bucketOf[u] = bucketOf[v] => u = v

\* Whoever has looked up a bucket has one that nobody else is given.
People ==
    /\ pc \in [Requests -> Using \cup {"new", "find", "create", "cancelled",
                                       "passed", "rejected"}]
    /\ mode \in [Requests -> L!Modes]
    /\ user \in [Requests -> Users \cup {NoUser}]
    /\ bucket \in [Requests -> Nat] /\ due \in [Requests -> Nat]
    /\ \A r \in Requests :
          /\ bucket[r] <= Len(tokens)
          /\ pc[r] \in Using \cup {"find", "create"} => user[r] \in Users
          /\ pc[r] \in L!Modes => mode[r] = pc[r]
          /\ pc[r] \in {"sleep", "retry"} => mode[r] = "wait"
          /\ pc[r] \in Using =>
                /\ bucket[r] \in 1..Len(tokens)
                /\ \A u \in DOMAIN bucketOf : bucketOf[u] = bucket[r] => u = user[r]

\* Between a lookup and the use of the bucket no time passes.
Touched ==
    \A r \in Requests :
        pc[r] = "process" /\ L!Current(user[r], bucket[r]) => lastAccess[user[r]] = now

Admitted ==
    /\ IsFiniteSet(log)
    /\ \A e \in log :
          /\ e.at \in 0..now
          /\ e.current /\ e.user \in DOMAIN bucketOf => e.at <= lastAccess[e.user]

\* The tokens a user can count on.
Left(u) == IF u \in DOMAIN bucketOf THEN L!Refilled(bucketOf[u]) ELSE Burst
Count(u, from, to) == Cardinality(L!Within(u, from, to))

LEMMA SameCount == \A S : L!Cardinality(S) = Cardinality(S)
  BY DEF L!Cardinality, Cardinality

Budget ==
    \A u \in Users : ~L!Cancelled(u) =>
        \A from \in 0..now :
            /\ Count(u, from, now) + Left(u) <= Burst + Rate * (now - from)
            /\ \A to \in from..now : Count(u, from, to) <= Burst + Rate * (to - from)

LimiterInv == Clock /\ Buckets /\ Mapped /\ People /\ Touched /\ Admitted /\ Budget

\* Tokens arrive in proportion to the time.
LEMMA Accrual ==
    ASSUME LimiterOptions
    PROVE  /\ \A n \in Int : Rate * n \in Int
           /\ \A n \in Nat : Rate * n \in Nat
           /\ \A m, n \in Int : Rate * (m + n) = Rate * m + Rate * n
           /\ \A n \in Int : Rate * (n + 1) = Rate * n + Rate
           /\ \A m, n \in Int : m <= n => Rate * m <= Rate * n
           /\ Rate * 0 = 0
<1>1. Rate \in Nat
  BY DEF LimiterOptions
<1>2. \A m, n \in Int : m <= n => Rate * m <= Rate * n
  <2> SUFFICES ASSUME NEW m \in Int, NEW n \in Int, m <= n PROVE Rate * m <= Rate * n
    OBVIOUS
  <2>1. PICK d \in Nat : n = m + d
    <3>1. n - m \in Nat /\ n = m + (n - m)
      OBVIOUS
    <3> QED
      BY <3>1
  <2>2. Rate * d \in Nat
    BY <1>1, <2>1
  <2>3. Rate * n = Rate * m + Rate * d
    BY <1>1, <2>1
  <2>4. Rate * m \in Int
    BY <1>1
  <2> QED
    BY <2>2, <2>3, <2>4
<1> QED
  BY <1>1, <1>2

LEMMA Quotient == ASSUME NEW a \in Nat, NEW d \in Nat \ {0} PROVE a \div d \in Nat
  OBVIOUS

LEMMA Refill ==
    ASSUME LimiterOptions, Clock, Buckets, NEW b \in 1..Len(tokens)
    PROVE  L!Refilled(b) \in Int /\ L!Refilled(b) <= Burst
<1>1. tokens[b] \in Int /\ lastUpdate[b] \in Int /\ now \in Int /\ Burst \in Int
  BY DEF Buckets, Clock, LimiterOptions
<1>2. PICK n \in Int : n = now - lastUpdate[b]
  BY <1>1
<1>3. Rate * (now - lastUpdate[b]) \in Int
  BY <1>2, Accrual
<1> QED
  BY <1>1, <1>3 DEF L!Refilled

LEMMA Counting ==
    ASSUME LimiterOptions, Clock, Admitted, NEW u, NEW from, NEW to
    PROVE  /\ IsFiniteSet(L!Within(u, from, to)) /\ Count(u, from, to) \in Nat
<1>1. L!Within(u, from, to) \subseteq log
  BY DEF L!Within
<1> QED
  BY <1>1, FS_Subset, FS_CardinalityType DEF Admitted, Count

LEMMA LeftIs ==
    ASSUME LimiterOptions, Clock, Buckets, Mapped, NEW u \in Users
    PROVE  Left(u) \in Int /\ Left(u) <= Burst
  BY Refill DEF Left, Mapped, LimiterOptions

\* Taking tokens from a bucket gives no user more.
LEMMA DrawKeeps ==
    ASSUME LimiterOptions, Clock, Buckets, Mapped, NEW b \in 1..Len(tokens),
           NEW x \in Int, x <= L!Refilled(b), now' = now, bucketOf' = bucketOf,
           hasGlobal' = hasGlobal,
           tokens' = [tokens EXCEPT ![b] = x], lastUpdate' = [lastUpdate EXCEPT ![b] = now]
    PROVE  /\ Buckets' /\ Len(tokens') = Len(tokens)
           /\ \A u \in Users : /\ Left(u)' <= Left(u) /\ Left(u)' \in Int
                               /\ L!Current(u, b) => Left(u)' = x
<1>1. /\ Len(tokens) \in Nat /\ DOMAIN tokens = 1..Len(tokens)
      /\ DOMAIN lastUpdate = 1..Len(tokens) /\ now \in Nat /\ Burst \in Nat
  BY LenProperties DEF Buckets, Clock, LimiterOptions
<1>2. /\ tokens' \in Seq(Int) /\ Len(tokens') = Len(tokens)
      /\ lastUpdate' \in Seq(Int) /\ Len(lastUpdate') = Len(tokens)
  BY <1>1, ExceptSeq DEF Buckets
<1>3. tokens'[b] = x /\ lastUpdate'[b] = now /\ L!Refilled(b) <= Burst
  BY <1>1, Refill
<1>4. \A c \in 1..Len(tokens) : c # b => tokens'[c] = tokens[c] /\ lastUpdate'[c] = lastUpdate[c]
  BY <1>1
<1>5. Buckets'
  BY <1>1, <1>2, <1>3, <1>4, Refill DEF Buckets
<1>6. ASSUME NEW u \in Users
      PROVE  /\ Left(u)' <= Left(u) /\ Left(u)' \in Int
             /\ L!Current(u, b) => Left(u)' = x
  <2>1. CASE u \notin DOMAIN bucketOf
    BY <1>1, <2>1 DEF Left, L!Current
  <2>2. CASE u \in DOMAIN bucketOf /\ bucketOf[u] # b
    <3>1. PICK c \in 1..Len(tokens) : c = bucketOf[u]
      BY <2>2 DEF Mapped
    <3>2. Left(u) = L!Refilled(c) /\ L!Refilled(c) \in Int
      BY <2>2, <3>1, Refill DEF Left
    <3>3. tokens'[c] = tokens[c] /\ lastUpdate'[c] = lastUpdate[c]
      BY <2>2, <3>1, <1>4
    <3>4. Left(u)' = L!Refilled(c)
      BY <2>2, <3>1, <3>3 DEF Left, L!Refilled
    <3> QED
      BY <2>2, <3>2, <3>4 DEF L!Current
  <2>3. CASE u \in DOMAIN bucketOf /\ bucketOf[u] = b
    <3>1. Left(u) = L!Refilled(b) /\ L!Refilled(b) \in Int
      BY <2>3, Refill DEF Left
    <3>2. now - now = 0 /\ Rate * 0 = 0
      BY <1>1, Accrual
    <3>3. x <= Burst
      BY <1>1, <1>3, <3>1
    <3>4. tokens'[b] + Rate * (now' - lastUpdate'[b]) = x
      BY <1>3, <3>2
    <3>5. Left(u)' = IF x > Burst THEN Burst ELSE x
      BY <2>3, <3>4 DEF Left, L!Refilled
    <3>6. Left(u)' = x
      BY <1>1, <3>3, <3>5
    <3> QED
      BY <3>1, <3>6
  <2> QED
    BY <2>1, <2>2, <2>3
<1> QED
  BY <1>2, <1>5, <1>6

\* A step without admissions that gives no user more keeps the budget.
LEMMA BudgetKept ==
    ASSUME LimiterOptions, LimiterInv, log' = log, now' = now,
           \A u \in Users : ~L!Cancelled(u)' =>
               ~L!Cancelled(u) /\ Left(u)' \in Int /\ Left(u)' <= Left(u)
    PROVE  Budget'
<1> SUFFICES ASSUME NEW u \in Users, ~L!Cancelled(u)', NEW from \in 0..now
             PROVE  /\ Count(u, from, now) + Left(u)' <= Burst + Rate * (now - from)
                    /\ \A to \in from..now :
                          Count(u, from, to) <= Burst + Rate * (to - from)
  BY DEF Budget, Count, L!Within
<1>1. /\ Count(u, from, now) + Left(u) <= Burst + Rate * (now - from)
      /\ \A to \in from..now : Count(u, from, to) <= Burst + Rate * (to - from)
  BY DEF LimiterInv, Budget
<1>2. Left(u) \in Int /\ Left(u)' \in Int /\ Left(u)' <= Left(u)
  BY LeftIs DEF LimiterInv
<1>3. Count(u, from, now) \in Nat /\ Burst \in Nat /\ Rate * (now - from) \in Int
  BY Counting, Accrual DEF LimiterInv, LimiterOptions, Clock
<1> DEFINE c == Count(u, from, now) q == Rate * (now - from) l == Left(u) m == Left(u)'
<1> HIDE DEF c, q, l, m
<1>4. c + m <= Burst + q
  BY <1>1, <1>2, <1>3 DEF c, q, l, m
<1> QED
  BY <1>1, <1>4 DEF c, q, m

LEMMA StaysCancelled ==
    ASSUME NEW r \in Requests, pc[r] # "cancelled",
           \A q \in Requests : q # r => pc'[q] = pc[q] /\ user'[q] = user[q],
           NEW u, ~L!Cancelled(u)'
    PROVE  ~L!Cancelled(u)
  BY DEF L!Cancelled

\* Nothing that the users' tokens depend on has changed.
LEMMA LeftKept ==
    ASSUME UNCHANGED <<bucketOf, tokens, lastUpdate, now>>, NEW u
    PROVE  Left(u)' = Left(u)
  BY DEF Left, L!Refilled

LEMMA BeginKeeps ==
    ASSUME LimiterOptions, LimiterInv, NEW r \in Requests,
           NEW u \in Users \cup {NoUser}, NEW m \in L!Modes, L!Begin(r, u, m)
    PROVE  LimiterInv'
<1>0. Clock /\ Buckets /\ Mapped /\ People /\ Touched /\ Admitted
  BY DEF LimiterInv
<1>1. PICK to \in {"rejected", "passed", "find"} :
         pc' = [pc EXCEPT ![r] = to] /\ (to = "find" => u \in Users)
  BY DEF L!Begin, L!To
<1>2. /\ Buckets' /\ Len(tokens') = Len(tokens)
      /\ \A v \in Users : Left(v)' <= Left(v) /\ Left(v)' \in Int
  <2>1. CASE m = "process" /\ hasGlobal
    <3>1. PICK ok \in BOOLEAN : L!AllowN(1, ok)
      BY <2>1 DEF L!Begin, L!Global
    <3>2. Len(tokens) \in Nat /\ 1 \in 1..Len(tokens)
      BY <1>0, <2>1, LenProperties DEF Buckets
    <3>3. L!Refilled(1) \in Int
      BY <1>0, <3>2, Refill
    <3>4. PICK x \in Int : x = L!Refilled(1) - (IF ok THEN 1 ELSE 0)
      BY <3>3
    <3>5. x <= L!Refilled(1)
      BY <3>3, <3>4
    <3>6. tokens' = [tokens EXCEPT ![1] = x] /\ lastUpdate' = [lastUpdate EXCEPT ![1] = now]
      BY <3>1, <3>4 DEF L!AllowN
    <3> QED
      BY <1>0, <3>2, <3>5, <3>6, DrawKeeps DEF L!Begin, L!mapVars
  <2>2. CASE ~(m = "process" /\ hasGlobal)
    <3>1. UNCHANGED <<hasGlobal, bucketOf, tokens, lastUpdate, now>>
      BY <2>2 DEF L!Begin, L!bucketVars, L!mapVars
    <3>2. \A v \in Users : Left(v)' = Left(v) /\ Left(v) \in Int
      BY <1>0, <3>1, LeftKept, LeftIs
    <3> QED
      BY <1>0, <3>1, <3>2 DEF Buckets
  <2> QED
    BY <2>1, <2>2
<1>3. /\ UNCHANGED <<hasGlobal, bucketOf, lastAccess, bucket, due, now, log>>
      /\ user' = [user EXCEPT ![r] = u] /\ mode' = [mode EXCEPT ![r] = m]
      /\ pc[r] = "new"
  BY DEF L!Begin, L!mapVars
<1>4. Clock' /\ Mapped' /\ Admitted'
  BY <1>0, <1>2, <1>3 DEF Clock, Mapped, Admitted
<1>5. People'
  BY <1>0, <1>1, <1>2, <1>3 DEF People, Using, L!Modes
<1>6. Touched'
  BY <1>0, <1>1, <1>3 DEF Touched, People, L!Current
<1>7. \A q \in Requests : q # r => pc'[q] = pc[q] /\ user'[q] = user[q]
  BY <1>0, <1>1, <1>3 DEF People
<1>8. Budget'
  BY <1>2, <1>3, <1>7, StaysCancelled, BudgetKept
<1> QED
  BY <1>2, <1>4, <1>5, <1>6, <1>8 DEF LimiterInv

\* Steps of a request that change none of the buckets.
LEMMA MoveKeeps ==
    ASSUME LimiterOptions, LimiterInv, NEW r \in Requests,
           L!FindLimiter(r) \/ L!WakeUp(r) \/ L!CancelWait(r)
    PROVE  LimiterInv'
<1>0. Clock /\ Buckets /\ Mapped /\ People /\ Touched /\ Admitted
  BY DEF LimiterInv
<1>1. UNCHANGED <<hasGlobal, bucketOf, lastAccess, tokens, lastUpdate, mode, user, due, now, log>>
  BY DEF L!FindLimiter, L!WakeUp, L!CancelWait, L!mapVars, L!bucketVars
<1>2. Clock' /\ Buckets' /\ Mapped' /\ Admitted'
  BY <1>0, <1>1 DEF Clock, Buckets, Mapped, Admitted
<1>3. /\ pc[r] # "cancelled" /\ pc'[r] # "process"
      /\ \A q \in Requests : q # r => pc'[q] = pc[q] /\ bucket'[q] = bucket[q]
  BY <1>0 DEF People, L!FindLimiter, L!WakeUp, L!CancelWait, L!To
<1>4. People'
  <2>1. CASE L!FindLimiter(r)
    <3>1. CASE user[r] \in DOMAIN bucketOf
      <4>1. Len(tokens) \in Nat
        BY <1>0, LenProperties DEF Buckets
      <4>2. PICK b \in 1..Len(tokens) : b = bucketOf[user[r]]
        BY <1>0, <3>1 DEF Mapped
      <4>3. \A u \in DOMAIN bucketOf : bucketOf[u] = b => u = user[r]
        BY <1>0, <3>1, <4>2 DEF Mapped
      <4>4. /\ pc' = [pc EXCEPT ![r] = "touch"] /\ bucket' = [bucket EXCEPT ![r] = b]
            /\ pc[r] = "find" /\ b \in Nat /\ b <= Len(tokens)
        BY <2>1, <3>1, <4>1, <4>2 DEF L!FindLimiter, L!To
      <4> QED
        BY <1>0, <1>1, <4>2, <4>3, <4>4 DEF People, Using, L!Modes
    <3>2. CASE user[r] \notin DOMAIN bucketOf
      BY <1>0, <1>1, <2>1, <3>2 DEF People, L!FindLimiter, L!To, Using, L!Modes
    <3> QED
      BY <3>1, <3>2
  <2>2. CASE L!WakeUp(r)
    BY <1>0, <1>1, <2>2 DEF People, L!WakeUp, L!To, Using, L!Modes
  <2>3. CASE L!CancelWait(r)
    BY <1>0, <1>1, <2>3 DEF People, L!CancelWait, L!To, Using, L!Modes
  <2> QED
    BY <2>1, <2>2, <2>3
<1>5. Touched'
  BY <1>0, <1>1, <1>3 DEF Touched, L!Current
<1>6. \A u \in Users : ~L!Cancelled(u)' =>
         ~L!Cancelled(u) /\ Left(u)' \in Int /\ Left(u)' <= Left(u)
  BY <1>0, <1>1, <1>3, StaysCancelled, LeftKept, LeftIs
<1>7. Budget'
  BY <1>1, <1>6, BudgetKept
<1> QED
  BY <1>2, <1>4, <1>5, <1>7 DEF LimiterInv

LEMMA TouchKeeps ==
    ASSUME LimiterOptions, LimiterInv, NEW r \in Requests, L!TouchLimiter(r)
    PROVE  LimiterInv'
<1>0. Clock /\ Buckets /\ Mapped /\ People /\ Touched /\ Admitted
  BY DEF LimiterInv
<1>1. /\ UNCHANGED <<hasGlobal, bucketOf, tokens, lastUpdate, mode, user, bucket, due, now, log>>
      /\ pc[r] = "touch" /\ pc' = [pc EXCEPT ![r] = mode[r]] /\ user[r] \in Users
  BY <1>0 DEF L!TouchLimiter, L!bucketVars, L!To, People, Using
<1>2. /\ DOMAIN lastAccess' = DOMAIN bucketOf
      /\ \A u \in DOMAIN bucketOf : /\ lastAccess'[u] \in {now, lastAccess[u]}
                                    /\ u = user[r] => lastAccess'[u] = now
  BY <1>0 DEF L!TouchLimiter, Mapped
<1>3. now \in Nat /\ \A u \in DOMAIN bucketOf : lastAccess[u] <= lastAccess'[u]
  BY <1>0, <1>2 DEF Mapped, Clock
<1>4. Clock' /\ Buckets' /\ Mapped'
  BY <1>0, <1>1, <1>2, <1>3 DEF Clock, Buckets, Mapped
<1>5. Admitted'
  <2>1. ASSUME NEW e \in log, e.current, e.user \in DOMAIN bucketOf
        PROVE  e.at <= lastAccess'[e.user]
    BY <1>0, <1>2, <1>3, <2>1 DEF Admitted, Mapped
  <2> QED
    BY <1>0, <1>1, <2>1 DEF Admitted
<1>6. People'
  BY <1>0, <1>1 DEF People, Using, L!Modes
<1>7. Touched'
  BY <1>0, <1>1, <1>2 DEF Touched, L!Current, People
<1>8. \A q \in Requests : q # r => pc'[q] = pc[q] /\ user'[q] = user[q]
  BY <1>0, <1>1 DEF People
<1>9. \A u \in Users : ~L!Cancelled(u)' =>
         ~L!Cancelled(u) /\ Left(u)' \in Int /\ Left(u)' <= Left(u)
  BY <1>0, <1>1, <1>8, StaysCancelled, LeftKept, LeftIs
<1>10. Budget'
  BY <1>1, <1>9, BudgetKept
<1> QED
  BY <1>4, <1>5, <1>6, <1>7, <1>10 DEF LimiterInv

\* The bucket a request gets from CreateLimiter, an old one or a new one.
Given(r, b) ==
    /\ bucket' = [bucket EXCEPT ![r] = b]
    /\ DOMAIN bucketOf' = DOMAIN bucketOf \cup {user[r]} /\ bucketOf'[user[r]] = b
    /\ \A u \in DOMAIN bucketOf : u # user[r] => bucketOf'[u] = bucketOf[u]
    /\ \A u \in DOMAIN bucketOf : u # user[r] => bucketOf[u] # b

OldBucket(r, b) ==
    user[r] \in DOMAIN bucketOf /\ bucketOf[user[r]] = b /\ b \in 1..Len(tokens)

NewBucket(r, b) ==
    /\ user[r] \notin DOMAIN bucketOf /\ b = Len(tokens) + 1
    /\ tokens'[b] = Burst /\ lastUpdate'[b] = now

OldKept ==
    /\ Len(tokens') \in Nat /\ Len(tokens) <= Len(tokens')
    /\ \A c \in 1..Len(tokens) : tokens'[c] = tokens[c] /\ lastUpdate'[c] = lastUpdate[c]

LEMMA CreateGives ==
    ASSUME LimiterOptions, Clock, Buckets, Mapped,
           NEW r \in Requests, L!CreateLimiter(r)
    PROVE  \E b \in Nat : /\ Given(r, b) /\ (OldBucket(r, b) \/ NewBucket(r, b))
                         /\ OldKept /\ b \in 1..Len(tokens') /\ Buckets'
<1>1. /\ now \in Nat /\ Len(tokens) \in Nat /\ Burst \in Nat
      /\ now' = now /\ hasGlobal' = hasGlobal
  BY LenProperties DEF L!CreateLimiter, Clock, Buckets, LimiterOptions
<1>2. CASE user[r] \in DOMAIN bucketOf
  <2>1. PICK b \in 1..Len(tokens) : b = bucketOf[user[r]]
    BY <1>2 DEF Mapped
  <2>2. UNCHANGED <<bucketOf, tokens, lastUpdate>> /\ bucket' = [bucket EXCEPT ![r] = b]
    BY <1>2, <2>1 DEF L!CreateLimiter, L!bucketVars
  <2>3. \A u \in DOMAIN bucketOf : u # user[r] => bucketOf[u] # b
    BY <1>2, <2>1 DEF Mapped
  <2>4. Given(r, b)
    BY <1>2, <2>1, <2>2, <2>3 DEF Given
  <2>5. OldBucket(r, b)
    BY <1>2, <2>1 DEF OldBucket
  <2>6. OldKept /\ Buckets'
    BY <1>1, <2>2 DEF OldKept, Buckets
  <2>7. b \in Nat /\ b \in 1..Len(tokens')
    BY <1>1, <2>1, <2>2
  <2> QED
    BY <2>4, <2>5, <2>6, <2>7
<1>3. CASE user[r] \notin DOMAIN bucketOf
  <2>1. PICK b \in Nat : b = Len(tokens) + 1
    BY <1>1
  <2>2. tokens' = Append(tokens, Burst) /\ lastUpdate' = Append(lastUpdate, now)
    BY <1>3 DEF L!CreateLimiter
  <2>3. /\ tokens \in Seq(Int) /\ lastUpdate \in Seq(Int) /\ Len(lastUpdate) = Len(tokens)
        /\ Burst \in Int /\ now \in Int
    BY <1>1 DEF Buckets
  <2>4. /\ tokens' \in Seq(Int) /\ Len(tokens') = b /\ tokens'[b] = Burst
        /\ \A c \in 1..Len(tokens) : tokens'[c] = tokens[c]
    BY <2>1, <2>2, <2>3, AppendProperties
  <2>5. /\ lastUpdate' \in Seq(Int) /\ Len(lastUpdate') = b /\ lastUpdate'[b] = now
        /\ \A c \in 1..Len(tokens) : lastUpdate'[c] = lastUpdate[c]
    BY <2>1, <2>2, <2>3, AppendProperties
  <2>6. \A c \in 1..b : c = b \/ c \in 1..Len(tokens)
    BY <1>1, <2>1
  <2>7. now \in 0..now /\ Burst <= Burst /\ b >= 1 /\ b \in 1..b /\ Len(tokens) <= b
    BY <1>1, <2>1
  <2>8. ASSUME NEW c \in 1..b PROVE tokens'[c] <= Burst /\ lastUpdate'[c] \in 0..now
    <3>1. CASE c = b
      BY <2>4, <2>5, <2>7, <3>1
    <3>2. CASE c \in 1..Len(tokens)
      BY <2>4, <2>5, <3>2 DEF Buckets
    <3> QED
      BY <2>6, <3>1, <3>2
  <2>9. Buckets'
    BY <1>1, <2>4, <2>5, <2>7, <2>8 DEF Buckets
  <2>10. /\ bucket' = [bucket EXCEPT ![r] = b]
         /\ bucketOf' = [u \in DOMAIN bucketOf \cup {user[r]} |->
                            IF u = user[r] THEN b ELSE bucketOf[u]]
    BY <1>3, <2>4 DEF L!CreateLimiter
  <2>11. \A u \in DOMAIN bucketOf : bucketOf[u] # b
    BY <1>1, <2>1 DEF Mapped
  <2>12. Given(r, b)
    BY <2>10, <2>11 DEF Given
  <2>13. NewBucket(r, b)
    BY <1>3, <2>1, <2>4, <2>5 DEF NewBucket
  <2>14. OldKept
    BY <2>4, <2>5, <2>7 DEF OldKept
  <2> QED
    BY <2>4, <2>7, <2>9, <2>12, <2>13, <2>14
<1> QED
  BY <1>2, <1>3

LEMMA CreateKeeps ==
    ASSUME LimiterOptions, LimiterInv, NEW r \in Requests, L!CreateLimiter(r)
    PROVE  LimiterInv'
<1>0. Clock /\ Buckets /\ Mapped /\ People /\ Touched /\ Admitted
  BY DEF LimiterInv
<1>1. /\ UNCHANGED <<hasGlobal, mode, user, due, now, log>>
      /\ pc[r] = "create" /\ pc' = [pc EXCEPT ![r] = mode[r]] /\ user[r] \in Users
  BY <1>0 DEF L!CreateLimiter, L!To, People
<1>a. now \in Nat /\ Len(tokens) \in Nat /\ Burst \in Nat
  BY <1>0, LenProperties DEF Clock, Buckets, LimiterOptions
<1>b. bucket \in [Requests -> Nat] /\ DOMAIN pc = Requests
  BY <1>0 DEF People
<1> DEFINE D == DOMAIN bucketOf \cup {user[r]}
<1>2. lastAccess' = [u \in D |-> IF u = user[r] THEN now ELSE lastAccess[u]]
  BY <1>0 DEF L!CreateLimiter, Mapped
<1>3. PICK b \in Nat : /\ Given(r, b) /\ (OldBucket(r, b) \/ NewBucket(r, b))
                      /\ OldKept /\ b \in 1..Len(tokens') /\ Buckets'
  BY <1>0, CreateGives
<1>c. /\ b \in 1..Len(tokens') /\ Len(tokens') \in Nat /\ Len(tokens) <= Len(tokens')
      /\ bucket' = [bucket EXCEPT ![r] = b]
      /\ \A u \in DOMAIN bucketOf : u # user[r] => bucketOf[u] # b
  BY <1>3 DEF OldKept, Given
<1>d. user[r] \in DOMAIN bucketOf => bucketOf[user[r]] = b
  BY <1>3 DEF OldBucket, NewBucket
<1>e. user[r] \notin DOMAIN bucketOf =>
         b = Len(tokens) + 1 /\ tokens'[b] = Burst /\ lastUpdate'[b] = now
  BY <1>3 DEF OldBucket, NewBucket
<1>f. \A c \in 1..Len(tokens) : tokens'[c] = tokens[c] /\ lastUpdate'[c] = lastUpdate[c]
  BY <1>3 DEF OldKept
<1>4. /\ DOMAIN bucketOf' = D /\ D \subseteq Users /\ bucketOf'[user[r]] = b
      /\ \A u \in DOMAIN bucketOf : u # user[r] => bucketOf'[u] = bucketOf[u]
  BY <1>0, <1>1, <1>3 DEF Mapped, Given
<1>5. /\ DOMAIN lastAccess' = D /\ lastAccess'[user[r]] = now
      /\ \A u \in DOMAIN bucketOf : u # user[r] => lastAccess'[u] = lastAccess[u]
      /\ \A u \in DOMAIN bucketOf : lastAccess[u] \in 0..now
  BY <1>0, <1>2 DEF Mapped
<1> HIDE DEF D
<1>6. \A u \in D : u = user[r] \/ u \in DOMAIN bucketOf
  BY DEF D
<1>7. Mapped'
  <2>1. \A u \in D : bucketOf'[u] \in 1..Len(tokens')
    BY <1>0, <1>c, <1>a, <1>4, <1>6 DEF Mapped
  <2>2. \A u \in D : lastAccess'[u] \in 0..now
    BY <1>a, <1>5, <1>6
  <2>3. \A u, v \in D : bucketOf'[u] = bucketOf'[v] => u = v
    BY <1>0, <1>c, <1>4, <1>6 DEF Mapped
  <2> QED
    BY <1>1, <1>4, <1>5, <2>1, <2>2, <2>3 DEF Mapped
<1>8. Clock'
  BY <1>0, <1>1 DEF Clock
<1>9. Admitted'
  <2>1. ASSUME NEW e \in log, e.current, e.user \in D PROVE e.at <= lastAccess'[e.user]
    <3>1. e.at \in 0..now
      BY <1>0 DEF Admitted
    <3>2. CASE e.user = user[r]
      BY <1>a, <1>5, <3>1, <3>2
    <3>3. CASE e.user # user[r]
      BY <1>0, <1>5, <1>6, <2>1, <3>3 DEF Admitted
    <3> QED
      BY <3>2, <3>3
  <2> QED
    BY <1>0, <1>1, <1>4, <2>1 DEF Admitted
<1>10. \A q \in Requests : q # r => /\ pc'[q] = pc[q] /\ bucket'[q] = bucket[q]
                                   /\ user'[q] = user[q] /\ mode'[q] = mode[q]
  BY <1>1, <1>b, <1>c
<1>11. People'
  <2>1. /\ pc' \in [Requests -> Using \cup {"new", "find", "create", "cancelled",
                                            "passed", "rejected"}]
        /\ mode' \in [Requests -> L!Modes] /\ user' \in [Requests -> Users \cup {NoUser}]
        /\ bucket' \in [Requests -> Nat] /\ due' \in [Requests -> Nat]
    BY <1>0, <1>1, <1>c DEF People, Using, L!Modes
  <2>2. ASSUME NEW q \in Requests
        PROVE  /\ bucket'[q] <= Len(tokens')
               /\ pc'[q] \in Using \cup {"find", "create"} => user[q] \in Users
               /\ pc'[q] \in L!Modes => mode[q] = pc'[q]
               /\ pc'[q] \in {"sleep", "retry"} => mode[q] = "wait"
               /\ pc'[q] \in Using =>
                     /\ bucket'[q] \in 1..Len(tokens')
                     /\ \A u \in D : bucketOf'[u] = bucket'[q] => u = user[q]
    <3>1. CASE q = r
      <4>1. bucket'[q] = b /\ pc'[q] = mode[r] /\ mode[r] \in L!Modes
        BY <1>0, <1>1, <1>b, <1>c, <3>1 DEF People
      <4>2. b <= Len(tokens')
        BY <1>c
      <4>3. \A u \in D : bucketOf'[u] = b => u = user[r]
        BY <1>c, <1>4, <1>6
      <4> QED
        BY <1>1, <1>c, <3>1, <4>1, <4>2, <4>3 DEF L!Modes
    <3>2. CASE q # r
      <4>1. /\ bucket[q] \in Nat /\ bucket[q] <= Len(tokens')
            /\ bucket'[q] = bucket[q] /\ pc'[q] = pc[q]
        BY <1>0, <1>a, <1>c, <1>10, <3>2 DEF People
      <4>2. ASSUME pc[q] \in Using
            PROVE  /\ bucket[q] \in 1..Len(tokens')
                   /\ \A u \in D : bucketOf'[u] = bucket[q] => u = user[q]
        <5>1. /\ bucket[q] \in 1..Len(tokens)
              /\ \A u \in DOMAIN bucketOf : bucketOf[u] = bucket[q] => u = user[q]
          BY <1>0, <4>2 DEF People
        <5>2. ASSUME NEW u \in D, bucketOf'[u] = bucket[q] PROVE u = user[q]
          <6>1. CASE u # user[r]
            BY <1>4, <1>6, <5>1, <5>2, <6>1
          <6>2. CASE u = user[r] /\ user[r] \in DOMAIN bucketOf
            BY <1>d, <1>4, <5>1, <5>2, <6>2
          <6>3. CASE u = user[r] /\ user[r] \notin DOMAIN bucketOf
            <7>1. b = Len(tokens) + 1 /\ bucket[q] = b
              BY <1>e, <1>4, <5>2, <6>3
            <7> QED
              BY <1>a, <5>1, <7>1
          <6> QED
            BY <6>1, <6>2, <6>3
        <5> QED
          BY <1>a, <1>c, <5>1, <5>2
      <4> QED
        BY <1>0, <1>1, <4>1, <4>2 DEF People
    <3> QED
      BY <3>1, <3>2
  <2> QED
    BY <1>1, <1>4, <2>1, <2>2 DEF People
<1>12. Touched'
  <2> SUFFICES ASSUME NEW q \in Requests, pc'[q] = "process", user[q] \in D,
                      bucketOf'[user[q]] = bucket'[q]
               PROVE  lastAccess'[user[q]] = now
    BY <1>1, <1>4 DEF Touched, L!Current
  <2>1. CASE user[q] = user[r]
    BY <1>5, <2>1
  <2>2. CASE user[q] # user[r]
    <3>1. q # r /\ pc[q] = "process" /\ user[q] \in DOMAIN bucketOf
          /\ bucketOf[user[q]] = bucket[q]
      BY <1>4, <1>6, <1>10, <2>2
    <3>2. lastAccess[user[q]] = now
      BY <1>0, <3>1 DEF Touched, L!Current
    <3> QED
      BY <1>5, <2>2, <3>1, <3>2
  <2> QED
    BY <2>1, <2>2
<1>13. ASSUME NEW u \in Users PROVE Left(u)' = Left(u)
  <2>1. CASE u \in DOMAIN bucketOf
    <3>1. PICK c \in 1..Len(tokens) : c = bucketOf[u]
      BY <1>0, <2>1 DEF Mapped
    <3>2. bucketOf'[u] = c
      BY <1>d, <1>4, <2>1, <3>1
    <3>3. tokens'[c] = tokens[c] /\ lastUpdate'[c] = lastUpdate[c]
      BY <1>f
    <3>4. u \in D
      BY <2>1 DEF D
    <3> QED
      BY <1>1, <1>4, <2>1, <3>1, <3>2, <3>3, <3>4 DEF Left, L!Refilled
  <2>2. CASE u \notin DOMAIN bucketOf /\ u # user[r]
    BY <1>4, <1>6, <2>2 DEF Left
  <2>3. CASE u \notin DOMAIN bucketOf /\ u = user[r]
    <3>1. tokens'[b] = Burst /\ lastUpdate'[b] = now /\ now - now = 0 /\ Rate * 0 = 0
      BY <1>a, <1>e, <2>3, Accrual
    <3>2. tokens'[b] + Rate * (now' - lastUpdate'[b]) = Burst
      BY <1>1, <1>a, <3>1
    <3>3. user[r] \in D
      BY DEF D
    <3>4. Left(u)' = IF Burst > Burst THEN Burst ELSE Burst
      BY <1>4, <2>3, <3>2, <3>3 DEF Left, L!Refilled
    <3> QED
      BY <2>3, <3>4 DEF Left
  <2> QED
    BY <2>1, <2>2, <2>3
<1>14. \A u \in Users : ~L!Cancelled(u)' =>
          ~L!Cancelled(u) /\ Left(u)' \in Int /\ Left(u)' <= Left(u)
  BY <1>0, <1>1, <1>10, <1>13, StaysCancelled, LeftIs
<1>15. Budget'
  BY <1>1, <1>14, BudgetKept
<1> QED
  BY <1>3, <1>7, <1>8, <1>9, <1>11, <1>12, <1>15 DEF LimiterInv

LEMMA Tries ==
    ASSUME LimiterOptions, Clock, Buckets, NEW b \in 1..Len(tokens), NEW ok \in BOOLEAN,
           L!AllowN(b, ok)
    PROVE  \E x \in Int : /\ x <= L!Refilled(b) /\ (ok => x = L!Refilled(b) - 1 /\ x >= 0)
                         /\ tokens' = [tokens EXCEPT ![b] = x]
                         /\ lastUpdate' = [lastUpdate EXCEPT ![b] = now]
<1>1. PICK t \in Int : t = L!Refilled(b)
  BY Refill
<1>2. PICK x \in Int : x = t - (IF ok THEN 1 ELSE 0)
  BY <1>1
<1>3. tokens' = [tokens EXCEPT ![b] = x] /\ lastUpdate' = [lastUpdate EXCEPT ![b] = now]
  BY <1>1, <1>2 DEF L!AllowN
<1>4. ok => t >= 1
  BY <1>1 DEF L!AllowN
<1>5. x <= t /\ (ok => x = t - 1 /\ x >= 0)
  BY <1>2, <1>4
<1> QED
  BY <1>1, <1>3, <1>5

\* Steps of a request that take from its bucket and admit nobody.
LEMMA DrawsKeep ==
    ASSUME LimiterOptions, LimiterInv, NEW r \in Requests,
           pc[r] \in Using, NEW x \in Int, x <= L!Refilled(bucket[r]),
           tokens' = [tokens EXCEPT ![bucket[r]] = x],
           lastUpdate' = [lastUpdate EXCEPT ![bucket[r]] = now],
           NEW to \in {"passed", "rejected", "sleep", "reserved"},
           to = "sleep" => mode[r] = "wait",
           pc' = [pc EXCEPT ![r] = to],
           due' \in [Requests -> Nat],
           UNCHANGED <<hasGlobal, bucketOf, lastAccess, mode, user, bucket, now, log>>
    PROVE  LimiterInv'
<1>0. Clock /\ Buckets /\ Mapped /\ People /\ Touched /\ Admitted
  BY DEF LimiterInv
<1>1. bucket[r] \in 1..Len(tokens)
  BY <1>0 DEF People
<1>2. /\ Buckets' /\ Len(tokens') = Len(tokens)
      /\ \A u \in Users : Left(u)' <= Left(u) /\ Left(u)' \in Int
  BY <1>0, <1>1, DrawKeeps
<1>3. Clock' /\ Mapped' /\ Admitted'
  BY <1>0, <1>2 DEF Clock, Mapped, Admitted
<1>4. People'
  BY <1>0, <1>2 DEF People, Using, L!Modes
<1>5. /\ pc[r] # "cancelled" /\ pc'[r] # "process"
      /\ \A q \in Requests : q # r => pc'[q] = pc[q] /\ user'[q] = user[q]
  BY <1>0 DEF People, Using
<1>6. Touched'
  BY <1>0, <1>5 DEF Touched, L!Current
<1>7. \A u \in Users : ~L!Cancelled(u)' =>
         ~L!Cancelled(u) /\ Left(u)' \in Int /\ Left(u)' <= Left(u)
  BY <1>2, <1>5, StaysCancelled
<1>8. Budget'
  BY <1>7, BudgetKept
<1> QED
  BY <1>2, <1>3, <1>4, <1>6, <1>8 DEF LimiterInv

LEMMA Sleeps ==
    ASSUME LimiterOptions, Clock, Buckets, NEW b \in 1..Len(tokens), ~(L!Refilled(b) >= 1)
    PROVE  now + L!WaitTime(b) \in Nat
<1>1. PICK t \in Int : t = L!Refilled(b)
  BY Refill
<1>2. Rate \in Nat \ {0} /\ now \in Nat
  BY DEF LimiterOptions, Clock
<1>3. 1 - t + Rate - 1 \in Nat
  BY <1>1, <1>2
<1>4. (1 - t + Rate - 1) \div Rate \in Nat
  BY <1>2, <1>3, Quotient
<1>5. L!WaitTime(b) \in Nat
  BY <1>1, <1>4 DEF L!WaitTime
<1> QED
  BY <1>2, <1>5

LEMMA WaitKeeps ==
    ASSUME LimiterOptions, LimiterInv, NEW r \in Requests, NEW ok \in BOOLEAN, L!Wait(r, ok)
    PROVE  LimiterInv'
<1>0. Clock /\ Buckets /\ Mapped /\ People
  BY DEF LimiterInv
<1>1. /\ pc[r] = "wait" /\ L!AllowN(bucket[r], ok)
      /\ UNCHANGED <<hasGlobal, bucketOf, lastAccess, mode, user, bucket, now, log>>
  BY DEF L!Wait, L!mapVars
<1>2. /\ bucket[r] \in 1..Len(tokens) /\ mode[r] = "wait" /\ pc[r] \in Using
      /\ due \in [Requests -> Nat]
  BY <1>0, <1>1 DEF People, Using, L!Modes
<1>3. PICK x \in Int : /\ x <= L!Refilled(bucket[r])
                      /\ tokens' = [tokens EXCEPT ![bucket[r]] = x]
                      /\ lastUpdate' = [lastUpdate EXCEPT ![bucket[r]] = now]
  BY <1>0, <1>1, <1>2, Tries
<1>4. CASE ok
  <2>1. pc' = [pc EXCEPT ![r] = "passed"] /\ due' \in [Requests -> Nat]
    BY <1>2, <1>4 DEF L!Wait, L!To
  <2> QED
    BY <1>1, <1>2, <1>3, <2>1, DrawsKeep
<1>5. CASE ~ok
  <2>1. ~(L!Refilled(bucket[r]) >= 1)
    BY <1>1, <1>5 DEF L!AllowN
  <2>2. now + L!WaitTime(bucket[r]) \in Nat
    BY <1>0, <1>2, <2>1, Sleeps
  <2>3. due' = [due EXCEPT ![r] = now + L!WaitTime(bucket[r])]
    BY <1>5 DEF L!Wait
  <2>4. pc' = [pc EXCEPT ![r] = "sleep"] /\ due' \in [Requests -> Nat]
    BY <1>2, <1>5, <2>2, <2>3 DEF L!Wait, L!To
  <2> QED
    BY <1>1, <1>2, <1>3, <2>4, DrawsKeep
<1> QED
  BY <1>4, <1>5

LEMMA ReserveKeeps ==
    ASSUME LimiterOptions, LimiterInv, NEW r \in Requests, L!Reserve(r)
    PROVE  LimiterInv'
<1>0. Clock /\ Buckets /\ Mapped /\ People
  BY DEF LimiterInv
<1>1. /\ pc[r] = "reserve" /\ pc' = [pc EXCEPT ![r] = "reserved"]
      /\ UNCHANGED <<hasGlobal, bucketOf, lastAccess, mode, user, bucket, now, log>>
      /\ tokens' = [tokens EXCEPT ![bucket[r]] = L!Refilled(bucket[r]) - 1]
      /\ lastUpdate' = [lastUpdate EXCEPT ![bucket[r]] = now]
  BY DEF L!Reserve, L!mapVars, L!To
<1>2. /\ bucket[r] \in 1..Len(tokens) /\ pc[r] \in Using
      /\ due \in [Requests -> Nat] /\ now \in Nat
  BY <1>0, <1>1 DEF People, Using, Clock, LimiterOptions
<1>3. L!Refilled(bucket[r]) \in Int
  BY <1>0, <1>2, Refill
<1>4. PICK x \in Int : x = L!Refilled(bucket[r]) - 1 /\ x <= L!Refilled(bucket[r])
  BY <1>3
<1>5. PICK d \in Nat : due' = [due EXCEPT ![r] = d]
  <2>1. CASE L!Refilled(bucket[r]) >= 1
    BY <1>2, <2>1 DEF L!Reserve
  <2>2. CASE ~(L!Refilled(bucket[r]) >= 1)
    BY <1>0, <1>2, <2>2, Sleeps DEF L!Reserve
  <2> QED
    BY <2>1, <2>2
<1>6. due' \in [Requests -> Nat]
  BY <1>2, <1>5
<1> QED
  BY <1>1, <1>2, <1>4, <1>6, DrawsKeep

LEMMA CancelKeeps ==
    ASSUME LimiterOptions, LimiterInv, NEW r \in Requests, L!Cancel(r)
    PROVE  LimiterInv'
<1>0. Clock /\ Buckets /\ Mapped /\ People /\ Touched /\ Admitted
  BY DEF LimiterInv
<1>1. /\ pc[r] = "reserved" /\ pc' = [pc EXCEPT ![r] = "cancelled"]
      /\ UNCHANGED <<hasGlobal, bucketOf, lastAccess, lastUpdate, mode, user, bucket,
                     due, now, log>>
  BY DEF L!Cancel, L!mapVars, L!To
<1>2. /\ bucket[r] \in 1..Len(tokens)
      /\ \A u \in DOMAIN bucketOf : bucketOf[u] = bucket[r] => u = user[r]
      /\ DOMAIN pc = Requests
  BY <1>0, <1>1 DEF People, Using
<1>3. /\ Len(tokens) \in Nat /\ DOMAIN tokens = 1..Len(tokens) /\ Burst \in Int
      /\ tokens[bucket[r]] \in Int
  BY <1>0, <1>2, LenProperties DEF Buckets, LimiterOptions
<1>4. PICK x \in Int : x <= Burst /\ tokens' = [tokens EXCEPT ![bucket[r]] = x]
  <2>1. PICK y \in Int : y = tokens[bucket[r]] + 1
    BY <1>3
  <2>2. tokens' = [tokens EXCEPT ![bucket[r]] = IF y > Burst THEN Burst ELSE y]
    BY <2>1 DEF L!Cancel
  <2>3. PICK x \in Int : x = (IF y > Burst THEN Burst ELSE y) /\ x <= Burst
    BY <1>3, <2>1
  <2> QED
    BY <2>2, <2>3
<1>5. tokens' \in Seq(Int) /\ Len(tokens') = Len(tokens)
  BY <1>0, <1>2, <1>4, ExceptSeq DEF Buckets
<1>6. \A c \in 1..Len(tokens) : tokens'[c] = IF c = bucket[r] THEN x ELSE tokens[c]
  BY <1>3, <1>4
<1>7. Clock' /\ Buckets' /\ Mapped' /\ Admitted'
  BY <1>0, <1>1, <1>4, <1>5, <1>6 DEF Clock, Buckets, Mapped, Admitted
<1>8. People'
  BY <1>0, <1>1, <1>5 DEF People, Using, L!Modes
<1>9. /\ pc[r] # "cancelled" /\ pc'[r] # "process"
      /\ \A q \in Requests : q # r => pc'[q] = pc[q] /\ user'[q] = user[q]
  BY <1>1, <1>2
<1>10. Touched'
  BY <1>0, <1>1, <1>9 DEF Touched, L!Current
<1>11. ASSUME NEW u \in Users, ~L!Cancelled(u)'
       PROVE  ~L!Cancelled(u) /\ Left(u)' \in Int /\ Left(u)' <= Left(u)
  <2>1. u # user[r]
    BY <1>1, <1>2, <1>11 DEF L!Cancelled
  <2>2. Left(u)' = Left(u)
    <3>1. CASE u \notin DOMAIN bucketOf
      BY <1>1, <3>1 DEF Left
    <3>2. CASE u \in DOMAIN bucketOf
      <4>1. PICK c \in 1..Len(tokens) : c = bucketOf[u] /\ c # bucket[r]
        BY <1>0, <1>2, <2>1, <3>2 DEF Mapped
      <4>2. tokens'[c] = tokens[c]
        BY <1>6, <4>1
      <4> QED
        BY <1>1, <3>2, <4>1, <4>2 DEF Left, L!Refilled
    <3> QED
      BY <3>1, <3>2
  <2>3. ~L!Cancelled(u)
    BY <1>9, <1>11, StaysCancelled
  <2> QED
    BY <1>0, <2>2, <2>3, LeftIs
<1>12. Budget'
  BY <1>1, <1>11, BudgetKept
<1> QED
  BY <1>7, <1>8, <1>10, <1>12 DEF LimiterInv

LEMMA AllowKeeps ==
    ASSUME LimiterOptions, LimiterInv, NEW r \in Requests, NEW ok \in BOOLEAN, L!Allow(r, ok)
    PROVE  LimiterInv'
<1>0. Clock /\ Buckets /\ Mapped /\ People /\ Touched /\ Admitted
  BY DEF LimiterInv
<1>1. /\ pc[r] \in {"process", "retry"} /\ L!AllowN(bucket[r], ok)
      /\ UNCHANGED <<hasGlobal, bucketOf, lastAccess, mode, user, bucket, due, now>>
  BY DEF L!Allow, L!mapVars
<1>2. /\ bucket[r] \in 1..Len(tokens) /\ pc[r] \in Using
      /\ due \in [Requests -> Nat] /\ user[r] \in Users
  BY <1>0, <1>1 DEF People, Using
<1>b. PICK b \in 1..Len(tokens) : b = bucket[r]
  BY <1>2
<1>3. PICK x \in Int : /\ x <= L!Refilled(b) /\ (ok => x = L!Refilled(b) - 1 /\ x >= 0)
                      /\ tokens' = [tokens EXCEPT ![b] = x]
                      /\ lastUpdate' = [lastUpdate EXCEPT ![b] = now]
  BY <1>0, <1>1, <1>b, Tries
<1>4. CASE log' = log
  <2>1. PICK to \in {"passed", "rejected", "sleep", "reserved"} :
           pc' = [pc EXCEPT ![r] = to] /\ to # "sleep"
    BY DEF L!Allow, L!To
  <2>2. due' \in [Requests -> Nat]
    BY <1>1, <1>2
  <2>3. /\ x <= L!Refilled(bucket[r]) /\ tokens' = [tokens EXCEPT ![bucket[r]] = x]
        /\ lastUpdate' = [lastUpdate EXCEPT ![bucket[r]] = now]
    BY <1>3, <1>b
  <2> QED
    BY <1>1, <1>2, <1>4, <2>1, <2>2, <2>3, DrawsKeep
<1>5. CASE log' # log
  <2> DEFINE e == [at |-> now, user |-> user[r], by |-> r,
                   current |-> L!Current(user[r], bucket[r])]
  <2>1. /\ ok /\ mode[r] = "process" /\ pc' = [pc EXCEPT ![r] = "passed"]
        /\ log' = log \cup {e}
    BY <1>5 DEF L!Allow, L!Admit, L!To
  <2>2. pc[r] = "process" /\ DOMAIN pc = Requests
    BY <1>0, <1>1, <2>1 DEF People
  <2>3. /\ Buckets' /\ Len(tokens') = Len(tokens)
        /\ \A u \in Users : /\ Left(u)' <= Left(u) /\ Left(u)' \in Int
                            /\ L!Current(u, b) => Left(u)' = x
    BY <1>0, <1>1, <1>3, DrawKeeps
  <2>4. Clock' /\ Mapped'
    BY <1>0, <1>1, <2>3 DEF Clock, Mapped
  <2>5. People'
    BY <1>0, <1>1, <2>1, <2>3 DEF People, Using, L!Modes
  <2>6. \A q \in Requests : q # r => pc'[q] = pc[q] /\ user'[q] = user[q]
    BY <1>1, <2>1, <2>2
  <2>7. Touched'
    BY <1>0, <1>1, <2>1, <2>2, <2>6 DEF Touched, L!Current
  <2>8. PICK t \in Nat : t = now /\ t \in 0..t
    BY <1>0 DEF Clock, LimiterOptions
  <2>9. e.at = now /\ e.user = user[r] /\ e.current = L!Current(user[r], bucket[r])
    OBVIOUS
  <2> HIDE DEF e
  <2>10. e.current => e.at <= lastAccess[e.user]
    <3> SUFFICES ASSUME e.current PROVE e.at <= lastAccess[e.user]
      OBVIOUS
    <3>1. L!Current(user[r], bucket[r])
      BY <2>9
    <3>2. lastAccess[user[r]] = now
      BY <1>0, <2>2, <3>1 DEF Touched
    <3> QED
      BY <2>8, <2>9, <3>2
  <2>11. IsFiniteSet(log')
    BY <1>0, <2>1, FS_AddElement DEF Admitted
  <2>12. Admitted'
    BY <1>0, <1>1, <2>1, <2>8, <2>9, <2>10, <2>11 DEF Admitted
  <2>13. ASSUME NEW u \in Users, ~L!Cancelled(u)', NEW from \in 0..t
         PROVE  /\ Count(u, from, t)' + Left(u)' <= Burst + Rate * (t - from)
                /\ \A to \in from..t : Count(u, from, to)' <= Burst + Rate * (to - from)
    <3>1. ~L!Cancelled(u)
      BY <2>2, <2>6, <2>13, StaysCancelled
    <3>2. /\ Count(u, from, t) + Left(u) <= Burst + Rate * (t - from)
          /\ \A to \in from..t : Count(u, from, to) <= Burst + Rate * (to - from)
      BY <2>8, <3>1 DEF LimiterInv, Budget
    <3>3. /\ Left(u) \in Int /\ Left(u)' \in Int /\ Left(u)' <= Left(u)
          /\ Count(u, from, t) \in Nat
      BY <1>0, <2>3, LeftIs, Counting
    <3>4. PICK q \in Int : q = Burst + Rate * (t - from)
      <4>1. t - from \in Int
        BY <2>8
      <4> QED
        BY <4>1, Accrual DEF LimiterOptions
    <3>5. CASE e.current /\ e.user = u
      <4>0. L!Current(u, b)
        BY <1>b, <2>9, <3>5
      <4>1. /\ Left(u) = L!Refilled(b) /\ Left(u)' = x
            /\ Left(u)' = Left(u) - 1 /\ Left(u)' >= 0
        BY <1>3, <2>1, <2>3, <4>0 DEF L!Current, Left
      <4>2. L!Within(u, from, t)' = L!Within(u, from, t) \cup {e}
        <5>1. e.at \in from..t
          BY <2>8, <2>9
        <5> QED
          BY <2>1, <3>5, <5>1 DEF L!Within
      <4>3. IsFiniteSet(L!Within(u, from, t))
        BY <1>0, Counting
      <4>4. Count(u, from, t)' <= Count(u, from, t) + 1 /\ Count(u, from, t)' \in Nat
        <5> DEFINE W == L!Within(u, from, t)
        <5>1. Count(u, from, t)' = Cardinality(W \cup {e}) /\ Count(u, from, t) = Cardinality(W)
          BY <4>2 DEF Count
        <5>2. IsFiniteSet(W)
          BY <4>3
        <5> HIDE DEF W
        <5>3. Cardinality(W \cup {e}) = IF e \in W THEN Cardinality(W) ELSE Cardinality(W) + 1
          BY <5>2, FS_AddElement
        <5>4. Cardinality(W) \in Nat
          BY <3>3, <5>1
        <5> QED
          BY <5>1, <5>3, <5>4
      <4> DEFINE c == Count(u, from, t) d == Count(u, from, t)'
                 k == Left(u) l == Left(u)'
      <4> HIDE DEF c, d, k, l
      <4>5. d + l <= q /\ d <= q
        <5>1. c + k <= q /\ c \in Int /\ d \in Int /\ k \in Int /\ l \in Int
          BY <3>2, <3>3, <3>4, <4>4 DEF c, d, k, l
        <5>2. d <= c + 1 /\ l = k - 1 /\ l >= 0
          BY <4>1, <4>4 DEF c, d, k, l
        <5> QED
          BY <5>1, <5>2
      <4>6. ASSUME NEW to \in from..t, to # t
            PROVE  Count(u, from, to)' = Count(u, from, to)
        <5>1. t \notin from..to
          BY <2>8, <4>6
        <5>2. L!Within(u, from, to)' = L!Within(u, from, to)
          BY <2>1, <2>8, <2>9, <5>1 DEF L!Within
        <5> QED
          BY <5>2 DEF Count
      <4> QED
        BY <3>2, <3>4, <4>5, <4>6 DEF d, l
    <3>6. CASE ~(e.current /\ e.user = u)
      <4>1. \A to \in from..t : L!Within(u, from, to)' = L!Within(u, from, to)
        BY <2>1, <3>6 DEF L!Within
      <4>2. \A to \in from..t : Count(u, from, to)' = Count(u, from, to)
        BY <4>1 DEF Count
      <4>3. Count(u, from, t)' = Count(u, from, t)
        BY <2>8, <4>2
      <4> DEFINE c == Count(u, from, t) k == Left(u) l == Left(u)'
      <4> HIDE DEF c, k, l
      <4>4. c + k <= q /\ c \in Int /\ k \in Int /\ l \in Int /\ l <= k
        BY <3>2, <3>3, <3>4 DEF c, k, l
      <4>5. c + l <= q
        BY <4>4
      <4> QED
        BY <3>2, <3>4, <4>2, <4>3, <4>5 DEF c, l
    <3> QED
      BY <3>5, <3>6
  <2>14. Budget'
    BY <1>1, <2>8, <2>13 DEF Budget, Count, L!Within
  <2> QED
    BY <2>3, <2>4, <2>5, <2>7, <2>12, <2>14 DEF LimiterInv
<1> QED
  BY <1>4, <1>5

LEMMA CleanupKeeps ==
    ASSUME LimiterOptions, LimiterInv, L!Cleanup
    PROVE  LimiterInv'
<1>0. Clock /\ Buckets /\ Mapped /\ People /\ Touched /\ Admitted
  BY DEF LimiterInv
<1> DEFINE expired == {u \in DOMAIN bucketOf : now - lastAccess[u] > TTL}
           kept == DOMAIN bucketOf \ expired
<1>1. /\ bucketOf' = [u \in kept |-> bucketOf[u]]
      /\ lastAccess' = [u \in kept |-> lastAccess[u]]
      /\ UNCHANGED <<hasGlobal, tokens, lastUpdate, pc, mode, user, bucket, due, now, log>>
  BY DEF L!Cleanup, L!Restrict, L!bucketVars
<1>2. kept \subseteq DOMAIN bucketOf
  OBVIOUS
<1>3. \A u \in DOMAIN bucketOf : u \notin kept => now - lastAccess[u] > TTL
  OBVIOUS
<1> HIDE DEF expired, kept
<1>4. Clock' /\ Buckets' /\ Mapped' /\ Admitted'
  BY <1>0, <1>1, <1>2 DEF Clock, Buckets, Mapped, Admitted
<1>5. People' /\ Touched'
  BY <1>0, <1>1, <1>2 DEF People, Touched, L!Current
<1>6. /\ now \in Nat /\ Burst \in Nat /\ TTL \in Nat /\ Rate * TTL >= Burst
      /\ Rate * TTL \in Nat
  BY <1>0, Accrual DEF Clock, LimiterOptions
<1>7. ASSUME NEW u \in Users, ~L!Cancelled(u)', NEW from \in 0..now
      PROVE  /\ Count(u, from, now) + Left(u)' <= Burst + Rate * (now - from)
             /\ \A to \in from..now : Count(u, from, to) <= Burst + Rate * (to - from)
  <2>1. ~L!Cancelled(u)
    BY <1>1, <1>7 DEF L!Cancelled
  <2>2. /\ Count(u, from, now) + Left(u) <= Burst + Rate * (now - from)
        /\ \A to \in from..now : Count(u, from, to) <= Burst + Rate * (to - from)
    BY <2>1 DEF LimiterInv, Budget
  <2>3. CASE u \notin DOMAIN bucketOf
    <3>1. Left(u)' = Left(u)
      BY <1>1, <1>2, <2>3 DEF Left
    <3> QED
      BY <2>2, <3>1
  <2>4. CASE u \in kept
    <3>1. Left(u)' = Left(u)
      BY <1>1, <1>2, <2>4 DEF Left, L!Refilled
    <3> QED
      BY <2>2, <3>1
  <2>5. CASE u \in DOMAIN bucketOf /\ u \notin kept
    <3>1. Left(u)' = Burst
      BY <1>1, <2>5 DEF Left
    <3>2. PICK last \in 0..now : last = lastAccess[u]
      BY <1>0, <2>5 DEF Mapped
    <3>3. now - last > TTL /\ last \in Nat
      BY <1>3, <1>6, <2>5, <3>2
    <3>4. \A f \in log : f.current /\ f.user = u => f.at \in 0..now /\ f.at <= last
      BY <1>0, <2>5, <3>2 DEF Admitted
    <3>5. Count(u, from, now) <= Rate * (now - from)
      <4>1. CASE from > last
        <5>1. \A f \in log : ~(f.current /\ f.user = u /\ f.at \in from..now)
          BY <1>6, <3>3, <3>4, <4>1
        <5>2. L!Within(u, from, now) = {}
          BY <5>1 DEF L!Within
        <5>3. Count(u, from, now) = 0
          BY <5>2, FS_EmptySet DEF Count
        <5>4. now - from \in Nat
          BY <1>6
        <5> QED
          BY <5>3, <5>4, Accrual
      <4>2. CASE from <= last
        <5>1. L!Within(u, from, now) = L!Within(u, from, last)
          BY <1>6, <3>3, <3>4 DEF L!Within
        <5>2. Count(u, from, now) <= Burst + Rate * (last - from)
          BY <1>6, <2>2, <3>3, <4>2, <5>1 DEF Count
        <5>3. PICK d \in Int : d = last - from
          BY <3>3
        <5>4. PICK f \in Int : f = now - last /\ TTL <= f
          BY <1>6, <3>3
        <5>5. now - from = d + f
          BY <1>6, <3>3, <5>3, <5>4
        <5>6. Rate * (d + f) = Rate * d + Rate * f /\ Rate * d \in Int /\ Rate * f \in Int
          BY <5>3, <5>4, Accrual
        <5>7. Rate * TTL <= Rate * f
          BY <1>6, <5>4, Accrual
        <5>8. Count(u, from, now) \in Int
          BY <1>0, Counting
        <5> DEFINE c == Count(u, from, now) g == Rate * d h == Rate * f t == Rate * TTL
        <5> HIDE DEF c, g, h, t
        <5>9. c <= g + h
          <6>1. c \in Int /\ g \in Int /\ h \in Int /\ t \in Int /\ Burst \in Int
            BY <1>6, <5>6, <5>8 DEF c, g, h, t
          <6>2. c <= Burst + g /\ t <= h /\ Burst <= t
            BY <1>6, <5>2, <5>3, <5>7 DEF c, g, h, t
          <6> QED
            BY <6>1, <6>2
        <5> QED
          BY <5>5, <5>6, <5>9 DEF c, g, h
      <4> QED
        BY <1>6, <3>3, <4>1, <4>2
    <3>6. Count(u, from, now) \in Int /\ Rate * (now - from) \in Int
      <4>1. now - from \in Int
        BY <1>6
      <4> QED
        BY <1>0, <4>1, Counting, Accrual
    <3> DEFINE c == Count(u, from, now) q == Rate * (now - from)
    <3> HIDE DEF c, q
    <3>7. c + Burst <= Burst + q
      BY <1>6, <3>5, <3>6 DEF c, q
    <3> QED
      BY <2>2, <3>1, <3>7 DEF c, q
  <2> QED
    BY <2>3, <2>4, <2>5
<1>8. Budget'
  BY <1>1, <1>7 DEF Budget, Count, L!Within
<1> QED
  BY <1>4, <1>5, <1>8 DEF LimiterInv

LEMMA TickKeeps ==
    ASSUME LimiterOptions, LimiterInv, L!Tick
    PROVE  LimiterInv'
<1>0. Clock /\ Buckets /\ Mapped /\ People /\ Touched /\ Admitted
  BY DEF LimiterInv
<1>1. /\ now < MaxClock /\ now' = now + 1
      /\ \A r \in Requests : pc[r] # "process"
      /\ UNCHANGED <<hasGlobal, bucketOf, lastAccess, tokens, lastUpdate, pc, mode, user,
                     bucket, due, log>>
  BY DEF L!Tick, L!mapVars, L!bucketVars
<1>2. PICK t \in Nat : t = now /\ now' = t + 1 /\ t \in 0..t
  BY <1>0, <1>1 DEF Clock, LimiterOptions
<1>3. Clock'
  BY <1>0, <1>1, <1>2 DEF Clock, LimiterOptions
<1>4. \A n \in 0..t : n \in 0..(t + 1) /\ n # t + 1
  BY <1>2
<1>5. Buckets' /\ Mapped' /\ Admitted'
  BY <1>0, <1>1, <1>2, <1>4 DEF Buckets, Mapped, Admitted
<1>6. People' /\ Touched'
  BY <1>0, <1>1 DEF People, Touched
<1>7. Burst \in Nat /\ Rate \in Nat
  BY DEF LimiterOptions
<1>8. ASSUME NEW u \in Users
      PROVE  /\ Left(u)' \in Int /\ Left(u)' <= Left(u) + Rate /\ Left(u)' <= Burst
             /\ Left(u) \in Int
  <2>1. CASE u \notin DOMAIN bucketOf
    BY <1>1, <1>7, <2>1 DEF Left
  <2>2. CASE u \in DOMAIN bucketOf
    <3>1. PICK c \in 1..Len(tokens) : c = bucketOf[u]
      BY <1>0, <2>2 DEF Mapped
    <3>2. PICK k \in Int, l \in Int : k = tokens[c] /\ l = lastUpdate[c]
      BY <1>0, <3>1 DEF Buckets
    <3>3. PICK d \in Int : d = t - l /\ (t + 1) - l = d + 1
      BY <1>2, <3>2
    <3>4. PICK g \in Int : g = Rate * d /\ Rate * (d + 1) = g + Rate
      BY <3>3, Accrual
    <3>5. Left(u) = IF k + g > Burst THEN Burst ELSE k + g
      BY <1>2, <2>2, <3>1, <3>2, <3>3, <3>4 DEF Left, L!Refilled
    <3>6. Left(u)' = IF k + (g + Rate) > Burst THEN Burst ELSE k + (g + Rate)
      BY <1>1, <1>2, <2>2, <3>1, <3>2, <3>3, <3>4 DEF Left, L!Refilled
    <3> QED
      BY <1>7, <3>5, <3>6
  <2> QED
    BY <2>1, <2>2
<1>9. \A f \in log : f.at \in 0..t
  BY <1>0, <1>2 DEF Admitted
<1>10. ASSUME NEW u \in Users, ~L!Cancelled(u)', NEW from \in 0..(t + 1)
       PROVE  /\ Count(u, from, t + 1) + Left(u)' <= Burst + Rate * (t + 1 - from)
              /\ \A to \in from..(t + 1) : Count(u, from, to) <= Burst + Rate * (to - from)
  <2>1. ~L!Cancelled(u)
    BY <1>1, <1>10 DEF L!Cancelled
  <2>2. CASE from = t + 1
    <3>1. \A f \in log : f.at \notin from..(t + 1)
      BY <1>2, <1>9, <2>2
    <3>2. L!Within(u, from, t + 1) = {}
      BY <3>1 DEF L!Within
    <3>3. Count(u, from, t + 1) = 0
      BY <3>2, FS_EmptySet DEF Count
    <3>4. t + 1 - from = 0 /\ Rate * 0 = 0 /\ \A to \in from..(t + 1) : to = t + 1
      BY <1>2, <2>2, Accrual
    <3> QED
      BY <1>7, <1>8, <3>3, <3>4
  <2>3. CASE from \in 0..t
    <3>1. /\ Count(u, from, t) + Left(u) <= Burst + Rate * (t - from)
          /\ \A to \in from..t : Count(u, from, to) <= Burst + Rate * (to - from)
      BY <1>2, <2>1, <2>3 DEF LimiterInv, Budget
    <3>2. \A f \in log : f.at \in from..(t + 1) <=> f.at \in from..t
      BY <1>2, <1>9, <2>3
    <3>3. Count(u, from, t + 1) = Count(u, from, t)
      BY <3>2 DEF Count, L!Within
    <3>4. PICK c \in Nat : c = Count(u, from, t)
      BY <1>0, Counting
    <3>5. PICK d \in Int : d = t - from /\ t + 1 - from = d + 1
      BY <1>2, <2>3
    <3>6. PICK g \in Int : g = Rate * d /\ Rate * (d + 1) = g + Rate
      BY <3>5, Accrual
    <3>7. PICK k \in Int, l \in Int : k = Left(u) /\ l = Left(u)' /\ l <= k + Rate
      BY <1>8
    <3>8. c + k <= Burst + g
      BY <3>1, <3>4, <3>5, <3>6, <3>7
    <3>9. c + l <= Burst + (g + Rate)
      BY <1>7, <3>7, <3>8
    <3>10. c <= Burst + g
      BY <1>2, <2>3, <3>1, <3>4, <3>5, <3>6
    <3>11. Count(u, from, t + 1) <= Burst + Rate * (t + 1 - from)
      <4>1. c <= Burst + (g + Rate)
        BY <1>7, <3>10
      <4> QED
        BY <3>3, <3>4, <3>5, <3>6, <4>1
    <3>12. \A to \in from..(t + 1) : to = t + 1 \/ to \in from..t
      BY <1>2, <2>3
    <3>13. \A to \in from..(t + 1) : Count(u, from, to) <= Burst + Rate * (to - from)
      BY <3>1, <3>11, <3>12
    <3>14. Count(u, from, t + 1) + Left(u)' <= Burst + Rate * (t + 1 - from)
      BY <3>3, <3>4, <3>5, <3>6, <3>7, <3>9
    <3> QED
      BY <3>13, <3>14
  <2>4. from = t + 1 \/ from \in 0..t
    BY <1>2
  <2> QED
    BY <2>2, <2>3, <2>4
<1>11. Budget'
  BY <1>1, <1>2, <1>10 DEF Budget, Count, L!Within
<1> QED
  BY <1>3, <1>5, <1>6, <1>11 DEF LimiterInv

LEMMA LimiterInvariance == ASSUME LimiterOptions PROVE L!Spec => []LimiterInv
<1>1. L!Init => LimiterInv
  <2> SUFFICES ASSUME L!Init PROVE LimiterInv
    OBVIOUS
  <2>1. /\ DOMAIN bucketOf = {} /\ DOMAIN lastAccess = {} /\ now = 0 /\ hasGlobal \in BOOLEAN
        /\ log = {} /\ Burst \in Nat /\ MaxClock \in Nat
    BY DEF L!Init, LimiterOptions
  <2>2. Buckets
    <3>1. CASE hasGlobal
      <4>1. tokens = <<Burst>> /\ lastUpdate = <<0>>
        BY <3>1 DEF L!Init
      <4>2. /\ tokens \in Seq(Int) /\ lastUpdate \in Seq(Int) /\ Len(tokens) = 1
            /\ Len(lastUpdate) = 1 /\ tokens[1] = Burst /\ lastUpdate[1] = 0
        BY <2>1, <4>1
      <4>3. 1..1 = {1} /\ 0 \in 0..0
        OBVIOUS
      <4> QED
        BY <2>1, <4>2, <4>3 DEF Buckets
    <3>2. CASE ~hasGlobal
      <4>1. tokens = <<>> /\ lastUpdate = <<>>
        BY <3>2 DEF L!Init
      <4>2. tokens \in Seq(Int) /\ lastUpdate \in Seq(Int) /\ Len(tokens) = 0
            /\ Len(lastUpdate) = 0 /\ 1..0 = {}
        BY <4>1, EmptySeq
      <4> QED
        BY <3>2, <4>2 DEF Buckets
    <3> QED
      BY <3>1, <3>2
  <2>3. Clock /\ Mapped /\ Touched
    BY <2>1 DEF Clock, Mapped, Touched, L!Init
  <2>4. Len(tokens) \in Nat
    BY <2>2, LenProperties DEF Buckets
  <2>5. People
    BY <2>4 DEF L!Init, People, Using, L!Modes
  <2>6. Admitted
    BY <2>1, FS_EmptySet DEF Admitted
  <2>7. Budget
    <3> SUFFICES ASSUME NEW u \in Users, NEW from \in 0..now
                 PROVE  /\ Count(u, from, now) + Left(u) <= Burst + Rate * (now - from)
                        /\ \A to \in from..now : Count(u, from, to) <= Burst + Rate * (to - from)
      BY DEF Budget
    <3>a. from \in 0..0 /\ \A to \in from..0 : to \in from..now
      BY <2>1
    <3>b. from = 0 /\ 0 - 0 = 0 /\ \A to \in 0..0 : to = 0
      BY <3>a
    <3>0. now - from = 0 /\ \A to \in from..now : to = now
      BY <2>1, <3>b
    <3>1. now - from = 0 /\ Rate * 0 = 0 /\ \A to \in from..now : to = now
      BY <3>0, Accrual
    <3>2. L!Within(u, from, now) = {}
      BY <2>1 DEF L!Within
    <3>3. Count(u, from, now) = 0 /\ Left(u) = Burst
      BY <2>1, <3>2, FS_EmptySet DEF Count, Left
    <3> QED
      BY <2>1, <3>1, <3>3
  <2> QED
    BY <2>2, <2>3, <2>5, <2>6, <2>7 DEF LimiterInv
<1>2. LimiterInv /\ UNCHANGED L!vars => LimiterInv'
  <2> SUFFICES ASSUME LimiterInv, UNCHANGED L!vars PROVE LimiterInv'
    OBVIOUS
  <2>1. UNCHANGED <<hasGlobal, bucketOf, lastAccess, tokens, lastUpdate, pc, mode, user,
                    bucket, due, now, log>>
    BY DEF L!vars, L!mapVars, L!bucketVars
  <2>2. Clock' /\ Buckets' /\ Mapped' /\ Admitted'
    BY <2>1 DEF LimiterInv, Clock, Buckets, Mapped, Admitted
  <2>3. People' /\ Touched'
    BY <2>1 DEF LimiterInv, People, Touched, L!Current
  <2>4. Budget'
    BY <2>1 DEF LimiterInv, Budget, Count, Left, L!Within, L!Refilled, L!Cancelled
  <2> QED
    BY <2>2, <2>3, <2>4 DEF LimiterInv
<1>3. LimiterInv /\ L!Next => LimiterInv'
  BY BeginKeeps, MoveKeeps, TouchKeeps, CreateKeeps, AllowKeeps, WaitKeeps, ReserveKeeps,
     CancelKeeps, CleanupKeeps, TickKeeps DEF L!Next
<1> QED
  BY <1>1, <1>2, <1>3, PTL DEF L!Spec

(* In every interval the middleware admits no more requests of a user than  *)
(* the burst and the rate allow, over all the buckets the user ever had:    *)
(* for every rate, burst and time to live that fills a bucket, any number   *)
(* of users and requests, and any interleaving of lookups, creations,       *)
(* cleanups, waits and reservations (middleware/ratelimit.go).              *)
THEOREM LimitIsKept ==
    ASSUME LimiterOptions
    PROVE  L!Spec => [](L!TypeOK /\ L!LimitHolds)
<1>1. LimiterInv => L!TypeOK /\ L!LimitHolds
  <2> SUFFICES ASSUME LimiterInv PROVE L!TypeOK /\ L!LimitHolds
    OBVIOUS
  <2>0. Clock /\ Buckets /\ Mapped /\ People /\ Admitted
    BY DEF LimiterInv
  <2>1. DOMAIN tokens = 1..Len(tokens) /\ DOMAIN lastUpdate = 1..Len(tokens) /\ Len(tokens) \in Nat
    BY <2>0, LenProperties DEF Buckets
  <2>2. L!TypeOK
    <3>1. L!Range(bucketOf) \subseteq DOMAIN tokens
      BY <2>0, <2>1 DEF L!Range, Mapped
    <3>2. \A r \in Requests : user[r] \in Users \cup {NoUser} /\ bucket[r] \in 0..Len(tokens)
                              /\ due[r] \in Nat
      BY <2>0, <2>1 DEF People
    <3> QED
      BY <2>0, <2>1, <3>1, <3>2 DEF L!TypeOK, Clock, Buckets, Mapped
  <2>3. ASSUME NEW u \in Users, NEW from \in 0..MaxClock, NEW to \in 0..MaxClock,
               from <= to, ~L!Cancelled(u)
        PROVE  Count(u, from, to) <= Burst + Rate * (to - from)
    <3>1. now \in Nat /\ Burst \in Nat /\ MaxClock \in Nat
      BY <2>0 DEF Clock, LimiterOptions
    <3>2. \A f \in log : f.at \in 0..now
      BY <2>0 DEF Admitted
    <3>3. CASE to <= now
      BY <2>3, <3>1, <3>3 DEF LimiterInv, Budget
    <3>4. CASE to > now /\ from <= now
      <4>1. Count(u, from, now) <= Burst + Rate * (now - from)
        BY <2>3, <3>1, <3>4 DEF LimiterInv, Budget
      <4>2. \A f \in log : f.at \in from..to <=> f.at \in from..now
        BY <3>1, <3>2, <3>4
      <4>3. Count(u, from, to) = Count(u, from, now)
        BY <4>2 DEF Count, L!Within
      <4>4. PICK d \in Int, g \in Int : d = now - from /\ g = to - from /\ d <= g
        BY <3>1, <3>4
      <4>5. Rate * d <= Rate * g /\ Rate * d \in Int /\ Rate * g \in Int
        BY <4>4, Accrual
      <4>6. PICK x \in Int, y \in Int : x = Rate * d /\ y = Rate * g /\ x <= y
        BY <4>5
      <4>7. Count(u, from, now) \in Nat
        BY <2>0, Counting
      <4>8. Count(u, from, now) <= Burst + x
        BY <4>1, <4>4, <4>6
      <4>9. Count(u, from, now) <= Burst + y
        BY <3>1, <4>6, <4>7, <4>8
      <4> QED
        BY <4>3, <4>4, <4>6, <4>9
    <3>5. CASE from > now
      <4>1. \A f \in log : f.at \notin from..to
        BY <3>1, <3>2, <3>5
      <4>2. L!Within(u, from, to) = {}
        BY <4>1 DEF L!Within
      <4>3. Count(u, from, to) = 0
        BY <4>2, FS_EmptySet DEF Count
      <4>4. PICK d \in Nat : d = to - from
        BY <2>3
      <4>5. Rate * d \in Nat
        BY <4>4, Accrual
      <4> QED
        BY <3>1, <4>3, <4>4, <4>5
    <3> QED
      BY <3>1, <3>3, <3>4, <3>5
  <2>4. L!LimitHolds
    BY <2>3, SameCount DEF L!LimitHolds, Count
  <2> QED
    BY <2>2, <2>4
<1>2. L!Spec => []LimiterInv
  BY LimiterInvariance
<1> QED
  BY <1>1, <1>2, PTL

-----------------------------------------------------------------------------
(***************************************************************************)
(* The chain of middlewares.                                               *)
(*                                                                         *)
(* Only one of a request's two goroutines is on its way to the handler at  *)
(* a time, and as long as one is the handler has not been called           *)
(* (OnTheWay).  Every outcome, in a goroutine or in the channel between    *)
(* them, tells of the handler's end (Means), and one that is a panic has   *)
(* met neither the recovery nor the error wrapper on its way up (Bare).    *)
(***************************************************************************)
CONSTANT Chains
VARIABLES chain, at, out, sent, ran, ended, counted, crashed

C == INSTANCE MiddlewareChain

ChainModes == {"idle", "down", "wait", "up", "done"}

ChainShape ==
    /\ chain \in [Requests -> Chains]
    /\ at \in [Requests -> [C!Goroutines -> Nat]]
    /\ mode \in [Requests -> [C!Goroutines -> ChainModes]]
    /\ out \in [Requests -> [C!Goroutines -> C!Outcomes]]
    /\ sent \in [Requests -> C!Outcomes] /\ ended \in [Requests -> C!Outcomes]
    /\ ran \in [Requests -> {0, 1}]
    /\ counted \subseteq Requests /\ crashed \in BOOLEAN

OnTheWay(r) ==
    /\ mode[r]["caller"] = "down" => mode[r]["worker"] = "idle"
    /\ mode[r]["caller"] = "down" \/ mode[r]["worker"] = "down" => ran[r] = 0
    /\ mode[r]["worker"] # "idle" => C!TimeoutAt(r) # 0
    /\ ran[r] = 0 => ended[r] = "none"

\* Where a goroutine stands: going up it is at the middleware it comes to next.
Place(r, g) ==
    /\ IF mode[r][g] = "idle" THEN at[r][g] = 0
       ELSE at[r][g] \in C!Base(r, g)..C!Deepest(r)
    /\ mode[r][g] \in {"down", "wait"} => at[r][g] > C!Base(r, g)
    /\ mode[r][g] \in {"wait", "up", "done"} => at[r][g] <= Len(chain[r])
    /\ mode[r][g] = "done" => at[r][g] = C!Base(r, g)

Means(r, o) ==
    /\ o = "unauthorized" =>
          ran[r] = 0 /\ mode[r]["caller"] # "down" /\ mode[r]["worker"] # "down"
    /\ o \in {"ok", "error", "panic"} => ended[r] = o
    /\ o \in {"internal error", "nil"} => ended[r] = "panic"
    /\ o = "nil" => \E i \in 1..Len(chain[r]) : chain[r][i] = "jsonrpc"

Bare(r, g) ==
    mode[r][g] \in {"up", "done"} /\ out[r][g] = "panic" =>
        \A i \in (at[r][g] + 1)..Len(chain[r]) : chain[r][i] \notin {"recovery", "jsonrpc"}

Request(r) ==
    /\ OnTheWay(r)
    /\ \A g \in C!Goroutines : Place(r, g) /\ Bare(r, g) /\ Means(r, out[r][g])
    /\ Means(r, sent[r]) /\ sent[r] # "panic"

Escaped ==
    crashed => \E r \in Requests : /\ ended[r] = "panic" /\ C!TimeoutAt(r) # 0
                                   /\ ~C!Inside(r, "recovery") /\ ~C!Inside(r, "jsonrpc")

ChainInv == ChainShape /\ (\A r \in Requests : Request(r)) /\ Escaped

\* The least of a set of numbers: that below which the fewest are.
LEMMA Least ==
    ASSUME NEW T \in SUBSET Nat, T # {}
    PROVE  C!Min(T) \in T
<1> DEFINE F == {U \in FiniteSubsetsOf(T) : \E k \in T : U = {i \in T : i <= k}}
<1> HIDE DEF F
<1>0. \A j \in T : j \in Nat
  OBVIOUS
<1>1. ASSUME NEW k \in T PROVE {i \in T : i <= k} \in F
  <2>1. {i \in T : i <= k} \subseteq 0..k
    <3> SUFFICES ASSUME NEW i \in T, i <= k PROVE i \in 0..k
      OBVIOUS
    <3> QED
      BY <1>0
  <2>2. IsFiniteSet(0..k)
    BY FS_Interval
  <2>3. IsFiniteSet({i \in T : i <= k})
    BY <2>1, <2>2, FS_Subset
  <2> QED
    BY <2>3 DEF FiniteSubsetsOf, F
<1>2. F # {} /\ F \subseteq FiniteSubsetsOf(T)
  <2>1. PICK k \in T : TRUE
    OBVIOUS
  <2>2. F \subseteq FiniteSubsetsOf(T)
    BY DEF F
  <2> QED
    BY <1>1, <2>1, <2>2
<1>3. PICK U \in F : \A V \in F : <<V, U>> \notin StrictSubsetOrdering(T)
  <2> QED
    BY <1>2, FS_StrictSubsetOrderingWellFounded, WFMin
<1>4. PICK k \in T : U = {i \in T : i <= k}
  BY DEF F
<1>5. ASSUME NEW j \in T PROVE k <= j
  <2> SUFFICES ASSUME j < k PROVE FALSE
    OBVIOUS
  <2>0. j \in Int /\ k \in Int /\ \A i \in T : i \in Int
    BY <1>0
  <2>1. /\ \A i \in T : i <= j => i <= k
        /\ k <= k /\ ~(k <= j)
    BY <2>0
  <2>2. {i \in T : i <= j} \in F
    BY <1>1
  <2>3. <<{i \in T : i <= j}, U>> \in StrictSubsetOrdering(T)
    BY <1>4, <2>1 DEF StrictSubsetOrdering
  <2> QED
    BY <1>3, <2>2, <2>3
<1> QED
  BY <1>5 DEF C!Min

\* Where in a chain a middleware stands, or 0.
LEMMA Finding ==
    ASSUME NEW c \in Seq(C!Middlewares), NEW m, NEW p,
           p = IF {i \in 1..Len(c) : c[i] = m} # {}
               THEN C!Min({i \in 1..Len(c) : c[i] = m}) ELSE 0
    PROVE  /\ p \in 0..Len(c)
           /\ p = 0 <=> \A i \in 1..Len(c) : c[i] # m
<1> DEFINE T == {i \in 1..Len(c) : c[i] = m}
<1>1. p = IF T # {} THEN C!Min(T) ELSE 0
  OBVIOUS
<1>2. T \subseteq 1..Len(c) /\ T \subseteq Nat /\ Len(c) \in Nat
  OBVIOUS
<1>3. T = {} <=> \A i \in 1..Len(c) : c[i] # m
  OBVIOUS
<1> HIDE DEF T
<1>4. T # {} => C!Min(T) \in T
  BY <1>2, Least
<1>5. \A n \in T : n \in 1..Len(c)
  BY <1>2
<1>6. CASE T = {}
  BY <1>1, <1>2, <1>3, <1>6
<1>7. CASE T # {}
  <2>1. PICK n \in 1..Len(c) : n = C!Min(T)
    BY <1>4, <1>5, <1>7
  <2> QED
    BY <1>1, <1>2, <1>3, <1>7, <2>1
<1> QED
  BY <1>6, <1>7

LEMMA Standing ==
    ASSUME NEW r \in Requests, chain[r] \in Seq(C!Middlewares)
    PROVE  /\ Len(chain[r]) \in Nat
           /\ C!TimeoutAt(r) \in 0..Len(chain[r])
           /\ C!TimeoutAt(r) = 0 <=> \A i \in 1..Len(chain[r]) : chain[r][i] # "timeout"
           /\ C!Position(r, "recovery") = 0
                 <=> \A i \in 1..Len(chain[r]) : chain[r][i] # "recovery"
           /\ C!Position(r, "jsonrpc") = 0
                 <=> \A i \in 1..Len(chain[r]) : chain[r][i] # "jsonrpc"
<1>1. PICK c \in Seq(C!Middlewares) : c = chain[r]
  OBVIOUS
<1>2. Len(c) \in Nat
  OBVIOUS
<1>3. C!TimeoutAt(r) = IF {i \in 1..Len(c) : c[i] = "timeout"} # {}
           THEN C!Min({i \in 1..Len(c) : c[i] = "timeout"}) ELSE 0
  BY <1>1 DEF C!TimeoutAt, C!SelectInSeq
<1>4. C!Position(r, "recovery") = IF {i \in 1..Len(c) : c[i] = "recovery"} # {}
           THEN C!Min({i \in 1..Len(c) : c[i] = "recovery"}) ELSE 0
  BY <1>1 DEF C!Position, C!SelectInSeq
<1>5. C!Position(r, "jsonrpc") = IF {i \in 1..Len(c) : c[i] = "jsonrpc"} # {}
           THEN C!Min({i \in 1..Len(c) : c[i] = "jsonrpc"}) ELSE 0
  BY <1>1 DEF C!Position, C!SelectInSeq
<1>6. /\ C!TimeoutAt(r) \in 0..Len(c)
      /\ C!TimeoutAt(r) = 0 <=> \A i \in 1..Len(c) : c[i] # "timeout"
  BY <1>3, Finding
<1>7. C!Position(r, "recovery") = 0 <=> \A i \in 1..Len(c) : c[i] # "recovery"
  BY <1>4, Finding
<1>8. C!Position(r, "jsonrpc") = 0 <=> \A i \in 1..Len(c) : c[i] # "jsonrpc"
  BY <1>5, Finding
<1> QED
  BY <1>1, <1>2, <1>6, <1>7, <1>8

\* A step of one request is none of another's.
LEMMA Untouched ==
    ASSUME NEW q \in Requests, Request(q), chain' = chain, at'[q] = at[q],
           mode'[q] = mode[q], out'[q] = out[q], sent'[q] = sent[q],
           ran'[q] = ran[q], ended'[q] = ended[q]
    PROVE  Request(q)'
<1>1. C!TimeoutAt(q)' = C!TimeoutAt(q)
  BY DEF C!TimeoutAt, C!SelectInSeq
<1>2. \A g \in C!Goroutines : C!Base(q, g)' = C!Base(q, g) /\ C!Deepest(q)' = C!Deepest(q)
  BY <1>1 DEF C!Base, C!Deepest
<1>3. OnTheWay(q)'
  BY <1>1 DEF OnTheWay, Request
<1>4. \A g \in C!Goroutines : Place(q, g)'
  BY <1>2 DEF Place, Request
<1>5. \A g \in C!Goroutines : Bare(q, g)'
  BY DEF Bare, Request
<1>6. \A o : Means(q, o) => Means(q, o)'
  BY DEF Means
<1> QED
  BY <1>3, <1>4, <1>5, <1>6 DEF Request

ChainOptions == Chains \subseteq Seq(C!Middlewares)

\* What the proofs know of a chain before and after a step.
LEMMA Ground ==
    ASSUME ChainOptions, ChainInv, NEW r \in Requests
    PROVE  /\ Len(chain[r]) \in Nat /\ C!TimeoutAt(r) \in 0..Len(chain[r])
           /\ C!TimeoutAt(r) = 0 <=> \A i \in 1..Len(chain[r]) : chain[r][i] # "timeout"
           /\ C!Position(r, "recovery") = 0
                 <=> \A i \in 1..Len(chain[r]) : chain[r][i] # "recovery"
           /\ C!Position(r, "jsonrpc") = 0
                 <=> \A i \in 1..Len(chain[r]) : chain[r][i] # "jsonrpc"
           /\ C!Deepest(r) = Len(chain[r]) + 1
           /\ C!Base(r, "caller") = 0 /\ C!Base(r, "worker") = C!TimeoutAt(r)
           /\ \A g \in C!Goroutines : /\ at[r][g] \in Nat /\ mode[r][g] \in ChainModes
                                      /\ out[r][g] \in C!Outcomes
                                      /\ C!Base(r, g) \in 0..Len(chain[r])
           /\ ran[r] \in {0, 1} /\ sent[r] \in C!Outcomes /\ ended[r] \in C!Outcomes
           /\ Request(r)
<1>1. chain[r] \in Seq(C!Middlewares)
  BY DEF ChainInv, ChainShape, ChainOptions
<1>2. /\ C!Deepest(r) = Len(chain[r]) + 1
      /\ C!Base(r, "caller") = 0 /\ C!Base(r, "worker") = C!TimeoutAt(r)
  BY DEF C!Deepest, C!Base
<1>3. \A g \in C!Goroutines : C!Base(r, g) \in 0..Len(chain[r])
  BY <1>1, <1>2, Standing DEF C!Goroutines
<1> QED
  BY <1>1, <1>2, <1>3, Standing DEF ChainInv, ChainShape

LEMMA Fixed ==
    ASSUME chain' = chain, NEW r \in Requests
    PROVE  /\ C!TimeoutAt(r)' = C!TimeoutAt(r) /\ C!Deepest(r)' = C!Deepest(r)
           /\ \A g \in C!Goroutines : C!Base(r, g)' = C!Base(r, g)
<1>1. C!TimeoutAt(r)' = C!TimeoutAt(r)
  BY DEF C!TimeoutAt, C!SelectInSeq
<1> QED
  BY <1>1 DEF C!Base, C!Deepest

LEMMA OneMoves ==
    ASSUME ChainInv, NEW r \in Requests, chain' = chain, ChainShape', Request(r)', Escaped',
           \A q \in Requests \ {r} :
              /\ at'[q] = at[q] /\ mode'[q] = mode[q] /\ out'[q] = out[q]
              /\ sent'[q] = sent[q] /\ ran'[q] = ran[q] /\ ended'[q] = ended[q]
    PROVE  ChainInv'
<1>1. ASSUME NEW q \in Requests PROVE Request(q)'
  <2>1. Request(q)
    BY DEF ChainInv
  <2> QED
    BY <2>1, Untouched
<1> QED
  BY <1>1 DEF ChainInv

LEMMA PassDownKeeps ==
    ASSUME ChainOptions, ChainInv, NEW r \in Requests, NEW g \in C!Goroutines,
           C!Going(r, g, "down"), C!Below(r, g) # "handler", C!Down(r, g),
           UNCHANGED <<chain, sent, ran, ended, counted, crashed>>
    PROVE  ChainInv'
<1>0. ChainShape /\ mode[r][g] = "down" /\ ~crashed
      /\ at' = [at EXCEPT ![r][g] = at[r][g] + 1] /\ UNCHANGED <<mode, out>>
  BY DEF ChainInv, C!Going, C!Down
<1>1. /\ at'[r][g] = at[r][g] + 1
      /\ \A h \in C!Goroutines : h # g => at'[r][h] = at[r][h]
      /\ \A q \in Requests : q # r => at'[q] = at[q]
      /\ at' \in [Requests -> [C!Goroutines -> Nat]]
  BY <1>0 DEF ChainShape
<1>2. ChainShape'
  BY <1>0, <1>1 DEF ChainShape
<1>3. at[r][g] < C!Deepest(r)
  <2>1. Place(r, g) /\ C!Deepest(r) = Len(chain[r]) + 1 /\ Len(chain[r]) \in Nat
        /\ at[r][g] \in Nat /\ C!Base(r, g) \in 0..Len(chain[r])
    BY Ground DEF Request
  <2>2. at[r][g] # C!Deepest(r)
    BY DEF C!Below
  <2> QED
    BY <1>0, <2>1, <2>2 DEF Place
<1>4. Request(r)'
  <2>1. OnTheWay(r)'
    BY <1>0, Ground, Fixed DEF Request, OnTheWay
  <2>2. ASSUME NEW h \in C!Goroutines PROVE Place(r, h)' /\ Bare(r, h)'
    <3>1. CASE h = g
      BY <1>0, <1>1, <1>3, <3>1, Ground, Fixed DEF Request, Place, Bare
    <3>2. CASE h # g
      BY <1>0, <1>1, <3>2, Ground, Fixed DEF Request, Place, Bare
    <3> QED
      BY <3>1, <3>2
  <2>3. \A o : Means(r, o) => Means(r, o)'
    BY <1>0 DEF Means
  <2> QED
    BY <1>0, <2>1, <2>2, <2>3, Ground DEF Request
<1>5. Escaped'
  BY <1>0 DEF Escaped
<1> QED
  BY <1>0, <1>1, <1>2, <1>4, <1>5, OneMoves

\* A goroutine turns: its outcome is one that says nothing yet, or one from the
\* channel.
LEMMA TurnKeeps ==
    ASSUME ChainOptions, ChainInv, NEW r \in Requests, NEW g \in C!Goroutines,
           NEW o \in C!Outcomes, C!TurnUp(r, g, o), mode[r][g] \in {"down", "wait"}, ~crashed,
           Means(r, o) \/ (o = "unauthorized" /\ mode[r][g] = "down"),
           o # "panic", at[r][g] <= Len(chain[r]),
           UNCHANGED <<chain, sent, ran, ended, counted, crashed>>
    PROVE  ChainInv'
<1>0. ChainShape /\ mode' = [mode EXCEPT ![r][g] = "up"] /\ out' = [out EXCEPT ![r][g] = o]
      /\ at' = [at EXCEPT ![r][g] = at[r][g] - 1]
  BY DEF ChainInv, C!TurnUp
<1>1. at[r][g] > C!Base(r, g) /\ at[r][g] - 1 \in Nat
  BY Ground DEF Request, Place
<1>2. /\ at'[r][g] = at[r][g] - 1 /\ mode'[r][g] = "up" /\ out'[r][g] = o
      /\ \A h \in C!Goroutines : h # g =>
            at'[r][h] = at[r][h] /\ mode'[r][h] = mode[r][h] /\ out'[r][h] = out[r][h]
      /\ \A q \in Requests : q # r =>
            at'[q] = at[q] /\ mode'[q] = mode[q] /\ out'[q] = out[q]
  BY <1>0 DEF ChainShape
<1>3. /\ at' \in [Requests -> [C!Goroutines -> Nat]]
      /\ mode' \in [Requests -> [C!Goroutines -> ChainModes]]
      /\ out' \in [Requests -> [C!Goroutines -> C!Outcomes]]
  <2>1. at' \in [Requests -> [C!Goroutines -> Nat]]
    BY <1>0, <1>1 DEF ChainShape
  <2>2. mode' \in [Requests -> [C!Goroutines -> ChainModes]]
    BY <1>0 DEF ChainShape, ChainModes
  <2>3. out' \in [Requests -> [C!Goroutines -> C!Outcomes]]
    BY <1>0 DEF ChainShape
  <2> QED
    BY <2>1, <2>2, <2>3
<1>4. ChainShape'
  BY <1>0, <1>3 DEF ChainShape
<1>5. g = "caller" \/ g = "worker"
  BY DEF C!Goroutines
<1>6. Request(r)'
  <2>1. OnTheWay(r)'
    BY <1>2, <1>5, Ground, Fixed DEF Request, OnTheWay, C!Goroutines
  <2>2. ASSUME NEW h \in C!Goroutines PROVE Place(r, h)' /\ Bare(r, h)'
    <3>1. CASE h = g
      BY <1>1, <1>2, <3>1, Ground, Fixed DEF Request, Place, Bare
    <3>2. CASE h # g
      <4>1. Place(r, h) /\ Bare(r, h)
        BY Ground DEF Request
      <4>2. /\ at'[r][h] = at[r][h] /\ mode'[r][h] = mode[r][h] /\ out'[r][h] = out[r][h]
            /\ C!Deepest(r)' = C!Deepest(r) /\ C!Base(r, h)' = C!Base(r, h)
        BY <1>2, <3>2, Fixed
      <4> QED
        BY <4>1, <4>2 DEF Place, Bare
    <3> QED
      BY <3>1, <3>2
  <2>3. \A p : Means(r, p) => Means(r, p)'
    BY <1>2, <1>5 DEF Means, C!Goroutines
  <2>4. Means(r, o)'
    <3>1. CASE Means(r, o)
      BY <2>3, <3>1
    <3>2. CASE o = "unauthorized" /\ mode[r][g] = "down"
      <4>1. OnTheWay(r)
        BY Ground DEF Request
      <4>2. ran[r] = 0 /\ \A h \in C!Goroutines : h # g => mode[r][h] # "down"
        BY <1>5, <3>2, <4>1 DEF OnTheWay, C!Goroutines
      <4>3. mode'[r]["caller"] # "down" /\ mode'[r]["worker"] # "down"
        BY <1>2, <1>5, <4>2 DEF C!Goroutines
      <4> QED
        BY <3>2, <4>2, <4>3 DEF Means
    <3> QED
      BY <3>1, <3>2
  <2>5. \A h \in C!Goroutines : Means(r, out[r][h])' 
    BY <1>2, <2>3, <2>4, Ground DEF Request
  <2> QED
    BY <2>1, <2>2, <2>3, <2>5, Ground DEF Request
<1>7. Escaped'
  BY DEF Escaped
<1> QED
  BY <1>0, <1>2, <1>4, <1>6, <1>7, OneMoves

LEMMA PassDownStepKeeps ==
    ASSUME ChainOptions, ChainInv, NEW r \in Requests, NEW g \in C!Goroutines, C!PassDown(r, g)
    PROVE  ChainInv'
BY PassDownKeeps DEF C!PassDown

\* Going down or turning at a middleware, a goroutine is not at the handler.
LEMMA Before ==
    ASSUME ChainOptions, ChainInv, NEW r \in Requests, NEW g \in C!Goroutines,
           mode[r][g] = "down"
    PROVE  /\ C!Below(r, g) # "handler" => at[r][g] \in 1..Len(chain[r])
           /\ at[r][g] \in 1..Len(chain[r]) => C!Below(r, g) = chain[r][at[r][g]]
           /\ at[r][g] \notin 1..Len(chain[r]) => at[r][g] = Len(chain[r]) + 1
           /\ ran[r] = 0 /\ ended[r] = "none"
           /\ g = "caller" => mode[r]["worker"] = "idle"
           /\ g = "worker" => mode[r]["caller"] # "down"
<1>1. /\ Place(r, g) /\ OnTheWay(r) /\ C!Deepest(r) = Len(chain[r]) + 1 /\ Len(chain[r]) \in Nat
      /\ at[r][g] \in Nat /\ C!Base(r, g) \in 0..Len(chain[r])
  BY Ground DEF Request
<1>2. at[r][g] \in 1..Len(chain[r]) \/ at[r][g] = Len(chain[r]) + 1
  BY <1>1 DEF Place
<1>3. ran[r] = 0
  BY <1>1 DEF OnTheWay, C!Goroutines
<1> QED
  BY <1>1, <1>2, <1>3 DEF C!Below, OnTheWay

LEMMA AuthorizeKeeps ==
    ASSUME ChainOptions, ChainInv, NEW r \in Requests, NEW g \in C!Goroutines,
           NEW ok \in BOOLEAN, C!Authorize(r, g, ok)
    PROVE  ChainInv'
<1>1. /\ C!Going(r, g, "down") /\ C!Below(r, g) # "handler" /\ mode[r][g] = "down" /\ ~crashed
      /\ UNCHANGED <<chain, sent, ran, ended, counted, crashed>>
  BY DEF C!Authorize, C!Going
<1>2. at[r][g] \in 1..Len(chain[r]) /\ Len(chain[r]) \in Nat
  BY <1>1, Before, Ground
<1>3. CASE ok
  BY <1>1, <1>3, PassDownKeeps DEF C!Authorize
<1>4. CASE ~ok
  <2>1. C!TurnUp(r, g, "unauthorized")
    BY <1>4 DEF C!Authorize
  <2>2. "unauthorized" \in C!Outcomes
    BY DEF C!Outcomes, C!Failures
  <2> QED
    BY <1>1, <1>2, <2>1, <2>2, TurnKeeps
<1> QED
  BY <1>3, <1>4

LEMMA ReceiveResultKeeps ==
    ASSUME ChainOptions, ChainInv, NEW r \in Requests, C!ReceiveResult(r)
    PROVE  ChainInv'
<1>1. /\ mode[r]["caller"] = "wait" /\ ~crashed /\ C!TurnUp(r, "caller", sent[r])
      /\ UNCHANGED <<chain, sent, ran, ended, counted, crashed>>
  BY DEF C!ReceiveResult, C!Going
<1>2. sent[r] \in C!Outcomes /\ Means(r, sent[r]) /\ sent[r] # "panic"
  BY Ground DEF Request
<1>3. "caller" \in C!Goroutines
  BY DEF C!Goroutines
<1>4. at[r]["caller"] <= Len(chain[r])
  BY <1>1, <1>3, Ground DEF Request, Place
<1> QED
  BY <1>1, <1>2, <1>3, <1>4, TurnKeeps

LEMMA TimeoutKeeps ==
    ASSUME ChainOptions, ChainInv, NEW r \in Requests, C!Timeout(r)
    PROVE  ChainInv'
<1>1. /\ mode[r]["caller"] = "wait" /\ ~crashed /\ C!TurnUp(r, "caller", "timeout")
      /\ UNCHANGED <<chain, sent, ran, ended, counted, crashed>>
  BY DEF C!Timeout, C!Going
<1>2. "timeout" \in C!Outcomes /\ Means(r, "timeout")
  BY DEF C!Outcomes, C!Failures, Means
<1>3. "caller" \in C!Goroutines
  BY DEF C!Goroutines
<1>4. at[r]["caller"] <= Len(chain[r])
  BY <1>1, <1>3, Ground DEF Request, Place
<1> QED
  BY <1>1, <1>2, <1>3, <1>4, TurnKeeps

LEMMA SpawnKeeps ==
    ASSUME ChainOptions, ChainInv, NEW r \in Requests, C!SpawnWorker(r)
    PROVE  ChainInv'
<1>0. /\ ChainShape /\ mode[r]["caller"] = "down" /\ C!Below(r, "caller") = "timeout" /\ ~crashed
      /\ mode' = [mode EXCEPT ![r] = [caller |-> "wait", worker |-> "down"]]
      /\ at' = [at EXCEPT ![r]["worker"] = C!TimeoutAt(r) + 1]
      /\ UNCHANGED <<chain, out, sent, ran, ended, counted, crashed>>
  BY DEF ChainInv, C!SpawnWorker, C!Going
<1>1. C!Goroutines = {"caller", "worker"}
  BY DEF C!Goroutines
<1>2. /\ at[r]["caller"] \in 1..Len(chain[r]) /\ chain[r][at[r]["caller"]] = "timeout"
      /\ mode[r]["worker"] = "idle" /\ ran[r] = 0 /\ ended[r] = "none"
  BY <1>0, <1>1, Before
<1>3. C!TimeoutAt(r) # 0 /\ C!TimeoutAt(r) \in 0..Len(chain[r]) /\ Len(chain[r]) \in Nat
  BY <1>2, Ground
<1>4. /\ mode'[r]["caller"] = "wait" /\ mode'[r]["worker"] = "down"
      /\ \A q \in Requests : q # r => mode'[q] = mode[q]
      /\ mode' \in [Requests -> [C!Goroutines -> ChainModes]]
  <2>1. [caller |-> "wait", worker |-> "down"] \in [C!Goroutines -> ChainModes]
    BY <1>1 DEF ChainModes
  <2> QED
    BY <1>0, <2>1 DEF ChainShape
<1>5. /\ at'[r]["worker"] = C!TimeoutAt(r) + 1 /\ at'[r]["caller"] = at[r]["caller"]
      /\ \A q \in Requests : q # r => at'[q] = at[q]
      /\ at' \in [Requests -> [C!Goroutines -> Nat]]
  BY <1>0, <1>1, <1>3 DEF ChainShape
<1>6. ChainShape'
  BY <1>0, <1>4, <1>5 DEF ChainShape
<1>7. Request(r)'
  <2>1. OnTheWay(r)'
    BY <1>0, <1>2, <1>3, <1>4, Fixed DEF OnTheWay
  <2>2. Place(r, "caller")' /\ Place(r, "worker")'
    BY <1>1, <1>2, <1>3, <1>4, <1>5, Ground, Fixed, <1>0 DEF Place
  <2>3. Bare(r, "caller")' /\ Bare(r, "worker")'
    BY <1>4 DEF Bare
  <2>4. \A o \in C!Outcomes : Means(r, o) => Means(r, o)'
    BY <1>0, <1>2, <1>4, <1>1 DEF Means
  <2> QED
    BY <1>0, <1>1, <2>1, <2>2, <2>3, <2>4, Ground DEF Request
<1>8. Escaped'
  BY <1>0 DEF Escaped
<1> QED
  BY <1>0, <1>4, <1>5, <1>6, <1>7, <1>8, OneMoves

LEMMA HandlerKeeps ==
    ASSUME ChainOptions, ChainInv, NEW r \in Requests, NEW g \in C!Goroutines,
           NEW o \in C!Outcomes, C!CallHandler(r, g, o)
    PROVE  ChainInv'
<1>0. /\ ChainShape /\ mode[r][g] = "down" /\ C!Below(r, g) = "handler" /\ ~crashed
      /\ o \in {"ok", "error", "panic"}
      /\ ran' = [ran EXCEPT ![r] = ran[r] + 1] /\ ended' = [ended EXCEPT ![r] = o]
      /\ mode' = [mode EXCEPT ![r][g] = "up"] /\ out' = [out EXCEPT ![r][g] = o]
      /\ at' = [at EXCEPT ![r][g] = at[r][g] - 1]
      /\ UNCHANGED <<chain, sent, counted, crashed>>
  BY DEF ChainInv, C!CallHandler, C!Going, C!TurnUp
<1>1. /\ ran[r] = 0 /\ ended[r] = "none"
      /\ g = "caller" => mode[r]["worker"] = "idle"
      /\ g = "worker" => mode[r]["caller"] # "down"
  BY <1>0, Before
<1>2. at[r][g] = Len(chain[r]) + 1 /\ Len(chain[r]) \in Nat
  <2>1. /\ Len(chain[r]) \in Nat
        /\ at[r][g] \in 1..Len(chain[r]) \/ at[r][g] = Len(chain[r]) + 1
        /\ at[r][g] \in 1..Len(chain[r]) => C!Below(r, g) = chain[r][at[r][g]]
    BY <1>0, Before, Ground
  <2>2. chain[r] \in Seq(C!Middlewares)
    BY <1>0 DEF ChainShape, ChainOptions
  <2>3. "handler" \notin C!Middlewares
    BY DEF C!Middlewares
  <2>4. at[r][g] \in 1..Len(chain[r]) => chain[r][at[r][g]] \in C!Middlewares
    BY <2>2
  <2>5. Len(chain[r]) \in Nat
    BY Ground
  <2> QED
    BY <1>0, <2>1, <2>3, <2>4, <2>5
<1>3. /\ at'[r][g] = Len(chain[r]) /\ mode'[r][g] = "up" /\ out'[r][g] = o
      /\ \A h \in C!Goroutines : h # g =>
            at'[r][h] = at[r][h] /\ mode'[r][h] = mode[r][h] /\ out'[r][h] = out[r][h]
      /\ \A q \in Requests : q # r =>
            at'[q] = at[q] /\ mode'[q] = mode[q] /\ out'[q] = out[q]
  BY <1>0, <1>2 DEF ChainShape
<1>4. /\ ran'[r] = 1 /\ ended'[r] = o
      /\ \A q \in Requests : q # r => ran'[q] = ran[q] /\ ended'[q] = ended[q]
  BY <1>0, <1>1 DEF ChainShape
<1>5. ChainShape'
  <2>1. at' \in [Requests -> [C!Goroutines -> Nat]]
    <3>1. at[r][g] - 1 \in Nat
      BY <1>2
    <3> QED
      BY <1>0, <3>1 DEF ChainShape
  <2>2. mode' \in [Requests -> [C!Goroutines -> ChainModes]]
    BY <1>0 DEF ChainShape, ChainModes
  <2>3. out' \in [Requests -> [C!Goroutines -> C!Outcomes]]
    BY <1>0 DEF ChainShape
  <2>4. ended' \in [Requests -> C!Outcomes] /\ ran' \in [Requests -> {0, 1}]
    BY <1>0, <1>1 DEF ChainShape
  <2> QED
    BY <1>0, <2>1, <2>2, <2>3, <2>4 DEF ChainShape
<1>6. g = "caller" \/ g = "worker"
  BY DEF C!Goroutines
<1>7. /\ OnTheWay(r) /\ sent[r] # "panic" /\ Means(r, sent[r])
      /\ \A h \in C!Goroutines : Place(r, h) /\ Bare(r, h) /\ Means(r, out[r][h])
  BY Ground DEF Request
\* Nothing has been said so far of how the handler ends.
<1>8. ASSUME NEW p \in C!Outcomes, Means(r, p) PROVE Means(r, p)'
  <2>1. p \notin {"ok", "error", "panic", "internal error", "nil"}
    BY <1>1, <1>8 DEF Means
  <2>2. p # "unauthorized"
    BY <1>0, <1>6, <1>8 DEF Means
  <2> QED
    BY <2>1, <2>2 DEF Means
<1>9. Means(r, o)'
  BY <1>0, <1>4 DEF Means
<1>10. Request(r)'
  <2>1. OnTheWay(r)'
    <3>1. mode'[r]["caller"] # "down" /\ mode'[r]["worker"] # "down"
      BY <1>1, <1>3, <1>6 DEF C!Goroutines
    <3>2. mode'[r]["worker"] # "idle" => mode[r]["worker"] # "idle"
      BY <1>0, <1>3, <1>6 DEF C!Goroutines
    <3>3. C!TimeoutAt(r)' = C!TimeoutAt(r)
      BY <1>0, Fixed
    <3> QED
      BY <1>4, <1>7, <3>1, <3>2, <3>3 DEF OnTheWay
  <2>2. ASSUME NEW h \in C!Goroutines PROVE Place(r, h)' /\ Bare(r, h)'
    <3>0. /\ C!Deepest(r)' = C!Deepest(r) /\ C!Base(r, h)' = C!Base(r, h)
          /\ C!Deepest(r) = Len(chain[r]) + 1 /\ C!Base(r, h) \in 0..Len(chain[r])
      BY <1>0, Fixed, Ground
    <3>1. CASE h = g
      BY <1>0, <1>2, <1>3, <1>7, <3>0, <3>1 DEF Place, Bare
    <3>2. CASE h # g
      BY <1>0, <1>3, <1>7, <3>0, <3>2 DEF Place, Bare
    <3> QED
      BY <3>1, <3>2
  <2>3. \A h \in C!Goroutines : Means(r, out[r][h])'
    BY <1>0, <1>3, <1>7, <1>8, <1>9, Ground
  <2>4. Means(r, sent[r])' /\ sent'[r] # "panic"
    BY <1>0, <1>7, <1>8, Ground
  <2> QED
    BY <2>1, <2>2, <2>3, <2>4 DEF Request
<1>11. Escaped'
  BY <1>0 DEF Escaped
<1> QED
  BY <1>0, <1>3, <1>4, <1>5, <1>10, <1>11, OneMoves

LEMMA PassUpKeeps ==
    ASSUME ChainOptions, ChainInv, NEW r \in Requests, NEW g \in C!Goroutines, C!PassUp(r, g)
    PROVE  ChainInv'
<1> DEFINE o == C!Above(C!Below(r, g), out[r][g])
<1>0. /\ ChainShape /\ mode[r][g] = "up" /\ at[r][g] > C!Base(r, g) /\ ~crashed
      /\ out' = [out EXCEPT ![r][g] = o]
      /\ at' = [at EXCEPT ![r][g] = at[r][g] - 1]
      /\ counted' \subseteq Requests
      /\ UNCHANGED <<chain, mode, sent, ran, ended, crashed>>
  BY DEF ChainInv, ChainShape, C!PassUp, C!Going, C!Up
<1>1. /\ OnTheWay(r) /\ sent[r] # "panic" /\ Means(r, sent[r])
      /\ \A h \in C!Goroutines : Place(r, h) /\ Bare(r, h) /\ Means(r, out[r][h])
      /\ Len(chain[r]) \in Nat /\ C!Deepest(r) = Len(chain[r]) + 1
      /\ at[r][g] \in Nat /\ C!Base(r, g) \in 0..Len(chain[r]) /\ out[r][g] \in C!Outcomes
  BY Ground DEF Request
<1>2. at[r][g] \in 1..Len(chain[r]) /\ C!Below(r, g) = chain[r][at[r][g]] /\ at[r][g] - 1 \in Nat
  BY <1>0, <1>1 DEF Place, C!Below
<1>3. /\ o \in C!Outcomes
      /\ o = "panic" => out[r][g] = "panic"
                        /\ chain[r][at[r][g]] \notin {"recovery", "jsonrpc"}
      /\ Means(r, o)
  <2>1. CASE C!Below(r, g) = "recovery" /\ out[r][g] = "panic"
    <3>1. o = "internal error"
      BY <2>1 DEF C!Above
    <3> QED
      BY <1>1, <2>1, <3>1 DEF Means, C!Outcomes, C!Failures
  <2>2. CASE C!Below(r, g) = "jsonrpc" /\ out[r][g] = "panic"
    <3>1. o = "nil"
      BY <2>2 DEF C!Above
    <3> QED
      BY <1>1, <1>2, <2>2, <3>1 DEF Means, C!Outcomes, C!Failures
  <2>3. CASE ~(C!Below(r, g) \in {"recovery", "jsonrpc"} /\ out[r][g] = "panic")
    <3>1. o = out[r][g]
      BY <2>3 DEF C!Above
    <3> QED
      BY <1>1, <1>2, <2>3, <3>1
  <2> QED
    BY <2>1, <2>2, <2>3
<1> HIDE DEF o
<1>4. /\ at'[r][g] = at[r][g] - 1 /\ out'[r][g] = o
      /\ \A h \in C!Goroutines : h # g => at'[r][h] = at[r][h] /\ out'[r][h] = out[r][h]
      /\ \A q \in Requests : q # r => at'[q] = at[q] /\ out'[q] = out[q]
  BY <1>0 DEF ChainShape
<1>5. ChainShape'
  <2>1. at' \in [Requests -> [C!Goroutines -> Nat]]
    BY <1>0, <1>2 DEF ChainShape
  <2>2. out' \in [Requests -> [C!Goroutines -> C!Outcomes]]
    BY <1>0, <1>3 DEF ChainShape
  <2> QED
    BY <1>0, <2>1, <2>2 DEF ChainShape
<1>6. Request(r)'
  <2>1. OnTheWay(r)'
    BY <1>0, <1>1, Fixed DEF OnTheWay
  <2>2. ASSUME NEW h \in C!Goroutines PROVE Place(r, h)' /\ Bare(r, h)'
    <3>0. C!Deepest(r)' = C!Deepest(r) /\ C!Base(r, h)' = C!Base(r, h)
      BY <1>0, Fixed
    <3>1. CASE h = g
      <4>1. Place(r, h)'
        BY <1>0, <1>1, <1>2, <1>4, <3>0, <3>1 DEF Place
      <4>2. Bare(r, h)'
        <5> SUFFICES ASSUME o = "panic", NEW i \in at[r][g]..Len(chain[r])
                     PROVE  chain[r][i] \notin {"recovery", "jsonrpc"}
          BY <1>0, <1>1, <1>4, <3>1 DEF Bare
        <5>1. CASE i = at[r][g]
          BY <1>3, <5>1
        <5>2. CASE i # at[r][g]
          BY <1>0, <1>1, <1>3, <5>2 DEF Bare
        <5> QED
          BY <5>1, <5>2
      <4> QED
        BY <4>1, <4>2
    <3>2. CASE h # g
      BY <1>0, <1>1, <1>4, <3>0, <3>2 DEF Place, Bare
    <3> QED
      BY <3>1, <3>2
  <2>3. \A p : Means(r, p) => Means(r, p)'
    BY <1>0 DEF Means
  <2>4. \A h \in C!Goroutines : Means(r, out[r][h])'
    BY <1>1, <1>3, <1>4, <2>3
  <2> QED
    BY <1>0, <1>1, <2>1, <2>2, <2>3, <2>4 DEF Request
<1>7. Escaped'
  BY <1>0 DEF Escaped
<1> QED
  BY <1>0, <1>4, <1>5, <1>6, <1>7, OneMoves

\* A goroutine that has come up is done.
LEMMA DoneKeeps ==
    ASSUME ChainOptions, ChainInv, NEW r \in Requests, NEW g \in C!Goroutines,
           mode[r][g] = "up", at[r][g] = C!Base(r, g), mode' = [mode EXCEPT ![r][g] = "done"],
           \/ UNCHANGED sent
           \/ sent' = [sent EXCEPT ![r] = out[r][g]] /\ out[r][g] # "panic",
           crashed' \in BOOLEAN, Escaped', UNCHANGED <<chain, at, out, ran, ended, counted>>
    PROVE  ChainInv'
<1>0. ChainShape
  BY DEF ChainInv
<1>1. /\ OnTheWay(r) /\ sent[r] # "panic" /\ Means(r, sent[r])
      /\ \A h \in C!Goroutines : Place(r, h) /\ Bare(r, h) /\ Means(r, out[r][h])
      /\ Len(chain[r]) \in Nat /\ C!Base(r, g) \in 0..Len(chain[r]) /\ out[r][g] \in C!Outcomes
  BY Ground DEF Request
<1>2. /\ mode'[r][g] = "done"
      /\ \A h \in C!Goroutines : h # g => mode'[r][h] = mode[r][h]
      /\ \A q \in Requests : q # r => mode'[q] = mode[q]
      /\ mode' \in [Requests -> [C!Goroutines -> ChainModes]]
  BY <1>0 DEF ChainShape, ChainModes
<1>3. /\ sent' \in [Requests -> C!Outcomes] /\ \A q \in Requests : q # r => sent'[q] = sent[q]
      /\ sent'[r] = sent[r] \/ (sent'[r] = out[r][g] /\ out[r][g] # "panic")
  BY <1>0, <1>1 DEF ChainShape
<1>4. ChainShape'
  BY <1>0, <1>2, <1>3 DEF ChainShape
<1>5. g = "caller" \/ g = "worker"
  BY DEF C!Goroutines
<1>6. Request(r)'
  <2>1. OnTheWay(r)'
    BY <1>1, <1>2, <1>5, Fixed DEF OnTheWay, C!Goroutines
  <2>2. ASSUME NEW h \in C!Goroutines PROVE Place(r, h)' /\ Bare(r, h)'
    <3>0. C!Deepest(r)' = C!Deepest(r) /\ C!Base(r, h)' = C!Base(r, h)
      BY Fixed
    <3>1. CASE h = g
      BY <1>1, <1>2, <3>0, <3>1 DEF Place, Bare
    <3>2. CASE h # g
      BY <1>1, <1>2, <3>0, <3>2 DEF Place, Bare
    <3> QED
      BY <3>1, <3>2
  <2>3. \A p : Means(r, p) => Means(r, p)'
    BY <1>2, <1>5 DEF Means, C!Goroutines
  <2>4. \A h \in C!Goroutines : Means(r, out[r][h])'
    BY <1>1, <2>3
  <2>5. Means(r, sent[r])' /\ sent'[r] # "panic"
    BY <1>1, <1>3, <2>3
  <2> QED
    BY <2>1, <2>2, <2>4, <2>5 DEF Request
<1> QED
  BY <1>2, <1>3, <1>4, <1>6, OneMoves

LEMMA WorkerEndsKeeps ==
    ASSUME ChainOptions, ChainInv, NEW r \in Requests, C!WorkerEnds(r)
    PROVE  ChainInv'
<1>0. /\ ChainShape /\ Escaped /\ mode[r]["worker"] = "up" /\ ~crashed
      /\ at[r]["worker"] = C!Base(r, "worker")
      /\ mode' = [mode EXCEPT ![r]["worker"] = "done"]
      /\ IF out[r]["worker"] = "panic" THEN crashed' = TRUE /\ UNCHANGED sent
         ELSE sent' = [sent EXCEPT ![r] = out[r]["worker"]] /\ UNCHANGED crashed
      /\ UNCHANGED <<chain, at, out, ran, ended, counted>>
  BY DEF ChainInv, C!WorkerEnds, C!Going
<1>1. "worker" \in C!Goroutines
  BY DEF C!Goroutines
<1>2. Escaped'
  <2>1. CASE out[r]["worker"] = "panic"
    <3>1. /\ OnTheWay(r) /\ Bare(r, "worker") /\ Means(r, out[r]["worker"])
          /\ C!Base(r, "worker") = C!TimeoutAt(r)
      BY <1>1, Ground DEF Request
    <3>2. ended'[r] = "panic" /\ C!TimeoutAt(r) # 0
      BY <1>0, <2>1, <3>1 DEF Means, OnTheWay
    <3>3. \A i \in (C!TimeoutAt(r) + 1)..Len(chain[r]) :
             chain[r][i] \notin {"recovery", "jsonrpc"}
      BY <1>0, <2>1, <3>1 DEF Bare
    <3>4. C!TimeoutAt(r)' = C!TimeoutAt(r)
      BY <1>0, Fixed
    <3>5. ~C!Inside(r, "recovery")' /\ ~C!Inside(r, "jsonrpc")'
      BY <1>0, <3>3, <3>4 DEF C!Inside
    <3> QED
      BY <3>2, <3>4, <3>5 DEF Escaped
  <2>2. CASE out[r]["worker"] # "panic"
    BY <1>0, <2>2 DEF Escaped
  <2> QED
    BY <2>1, <2>2
<1>3. CASE out[r]["worker"] = "panic"
  BY <1>0, <1>1, <1>2, <1>3, DoneKeeps
<1>4. CASE out[r]["worker"] # "panic"
  <2>1. /\ crashed' \in BOOLEAN
        /\ sent' = [sent EXCEPT ![r] = out[r]["worker"]]
    BY <1>0, <1>4 DEF ChainShape
  <2> QED
    BY <1>0, <1>1, <1>2, <1>4, <2>1, DoneKeeps
<1> QED
  BY <1>3, <1>4

LEMMA AnswerKept ==
    ASSUME ChainOptions, ChainInv, NEW r \in Requests, C!Answer(r)
    PROVE  ChainInv'
<1>0. /\ mode[r]["caller"] = "up" /\ at[r]["caller"] = 0 /\ ~crashed
      /\ mode' = [mode EXCEPT ![r]["caller"] = "done"]
      /\ UNCHANGED <<chain, at, out, sent, ran, ended, counted, crashed>>
  BY DEF C!Answer, C!Going
<1>1. "caller" \in C!Goroutines /\ at[r]["caller"] = C!Base(r, "caller")
  BY <1>0, Ground DEF C!Goroutines
<1>2. Escaped' /\ crashed' \in BOOLEAN /\ UNCHANGED sent
  BY <1>0 DEF Escaped, ChainInv, ChainShape
<1> QED
  BY <1>0, <1>1, <1>2, DoneKeeps

(* A handler runs once and only behind the authentication, answers are the  *)
(* handler's own, and a panic ends the process only where a timeout stands  *)
(* outside all that recover, for every set of requests and every chains     *)
(* (server/middleware.go, middleware/error.go).                             *)
THEOREM ChainsKeepPromises ==
    ASSUME ChainOptions
    PROVE  C!Spec => [](C!TypeOK /\ C!ChainKeepsItsPromises)
<1>1. C!Init => ChainInv
  <2> SUFFICES ASSUME C!Init PROVE ChainInv
    OBVIOUS
  <2>1. C!Goroutines = {"caller", "worker"}
    BY DEF C!Goroutines
  <2>2. /\ chain \in [Requests -> Chains]
        /\ \A r \in Requests :
              /\ at[r]["caller"] = 1 /\ at[r]["worker"] = 0
              /\ mode[r]["caller"] = "down" /\ mode[r]["worker"] = "idle"
              /\ out[r]["caller"] = "none" /\ out[r]["worker"] = "none"
              /\ sent[r] = "none" /\ ran[r] = 0 /\ ended[r] = "none"
        /\ ~crashed
    BY <2>1 DEF C!Init, C!PerGoroutine
  <2>3. ChainShape
    <3>1. at \in [Requests -> [C!Goroutines -> Nat]]
      BY DEF C!Init, C!PerGoroutine
    <3>2. mode \in [Requests -> [C!Goroutines -> ChainModes]]
      BY DEF C!Init, C!PerGoroutine, ChainModes
    <3>3. out \in [Requests -> [C!Goroutines -> C!Outcomes]]
      BY DEF C!Init, C!PerGoroutine, C!Outcomes
    <3>4. /\ sent \in [Requests -> C!Outcomes] /\ ended \in [Requests -> C!Outcomes]
          /\ ran \in [Requests -> {0, 1}]
      BY DEF C!Init, C!Outcomes
    <3> QED
      BY <2>2, <3>1, <3>2, <3>3, <3>4 DEF C!Init, ChainShape
  <2>4. ASSUME NEW r \in Requests PROVE Request(r)
    <3>1. Len(chain[r]) \in Nat
      <4>1. chain[r] \in Seq(C!Middlewares)
        BY <2>2 DEF ChainOptions
      <4> QED
        BY <4>1
    <3>2. OnTheWay(r)
      BY <2>2 DEF OnTheWay
    <3>3. Place(r, "caller") /\ Place(r, "worker")
      BY <2>2, <3>1 DEF Place, C!Base, C!Deepest
    <3>4. Bare(r, "caller") /\ Bare(r, "worker")
      BY <2>2 DEF Bare
    <3>5. Means(r, "none")
      BY DEF Means
    <3> QED
      BY <2>1, <2>2, <3>2, <3>3, <3>4, <3>5 DEF Request
  <2> QED
    BY <2>2, <2>3, <2>4 DEF ChainInv, Escaped
<1>2. ChainInv /\ UNCHANGED C!vars => ChainInv'
  <2> SUFFICES ASSUME ChainInv, UNCHANGED C!vars PROVE ChainInv'
    OBVIOUS
  <2>1. UNCHANGED <<chain, at, mode, out, sent, ran, ended, counted, crashed>>
    BY DEF C!vars
  <2>2. ASSUME NEW r \in Requests PROVE Request(r)'
    BY <2>1, Untouched DEF ChainInv
  <2>3. ChainShape' /\ Escaped'
    <3>1. \A r \in Requests : C!TimeoutAt(r)' = C!TimeoutAt(r)
      BY <2>1, Fixed
    <3>2. \A r \in Requests : \A m : C!Inside(r, m)' <=> C!Inside(r, m)
      BY <2>1, <3>1 DEF C!Inside
    <3> QED
      BY <2>1, <3>1, <3>2 DEF ChainInv, ChainShape, Escaped
  <2> QED
    BY <2>2, <2>3 DEF ChainInv
<1>3. ChainInv /\ C!Next => ChainInv'
  <2> SUFFICES ASSUME ChainInv, C!Next PROVE ChainInv'
    OBVIOUS
  <2>1. ASSUME NEW r \in Requests, NEW g \in C!Goroutines, C!PassDown(r, g) PROVE ChainInv'
    BY <2>1, PassDownStepKeeps
  <2> QED
    BY <2>1, PassUpKeeps, AuthorizeKeeps, HandlerKeeps, SpawnKeeps, WorkerEndsKeeps,
       ReceiveResultKeeps, TimeoutKeeps, AnswerKept DEF C!Next, C!Step
<1>4. ChainInv => C!TypeOK /\ C!ChainKeepsItsPromises
  <2> SUFFICES ASSUME ChainInv PROVE C!TypeOK /\ C!ChainKeepsItsPromises
    OBVIOUS
  <2>1. ChainShape /\ Escaped
    BY DEF ChainInv
  <2>2. ASSUME NEW r \in Requests, NEW g \in C!Goroutines
        PROVE  /\ at[r][g] \in 0..C!Deepest(r)
               /\ mode[r][g] \in {"idle", "down", "wait", "up", "done"}
               /\ out[r][g] \in C!Outcomes
    <3>1. /\ Place(r, g) /\ mode[r][g] \in ChainModes /\ out[r][g] \in C!Outcomes
          /\ C!Base(r, g) \in 0..Len(chain[r]) /\ C!Deepest(r) = Len(chain[r]) + 1
          /\ Len(chain[r]) \in Nat
      BY Ground DEF Request
    <3>2. at[r][g] \in 0..C!Deepest(r)
      BY <3>1 DEF Place
    <3> QED
      BY <3>1, <3>2 DEF ChainModes
  <2>3. C!TypeOK
    BY <2>1, <2>2 DEF C!TypeOK, ChainShape
  <2>4. ASSUME NEW r \in Requests, mode[r]["caller"] = "done"
        PROVE  /\ out[r]["caller"] = "unauthorized" => ran[r] = 0
               /\ out[r]["caller"] \in {"ok", "error"} => ended[r] = out[r]["caller"]
               /\ out[r]["caller"] \in {"internal error", "nil"} => ended[r] = "panic"
               /\ out[r]["caller"] = "panic" => C!Position(r, "recovery") = 0
               /\ out[r]["caller"] = "nil" => C!Position(r, "jsonrpc") # 0
    <3>1. "caller" \in C!Goroutines
      BY DEF C!Goroutines
    <3>2. /\ Means(r, out[r]["caller"]) /\ Bare(r, "caller") /\ Place(r, "caller")
          /\ C!Base(r, "caller") = 0 /\ Len(chain[r]) \in Nat
      BY <3>1, Ground DEF Request
    <3>3. at[r]["caller"] = 0
      BY <2>4, <3>2 DEF Place
    <3>4. out[r]["caller"] = "panic" => C!Position(r, "recovery") = 0
      <4> SUFFICES ASSUME out[r]["caller"] = "panic" PROVE C!Position(r, "recovery") = 0
        OBVIOUS
      <4>1. \A i \in 1..Len(chain[r]) : chain[r][i] # "recovery"
        BY <2>4, <3>2, <3>3 DEF Bare
      <4> QED
        BY <4>1, Ground
    <3>5. out[r]["caller"] = "nil" => C!Position(r, "jsonrpc") # 0
      BY <3>2, Ground DEF Means
    <3> QED
      BY <3>2, <3>4, <3>5 DEF Means
  <2>5. \A r \in Requests : ran[r] <= 1
    BY <2>1 DEF ChainShape
  <2> QED
    BY <2>1, <2>3, <2>4, <2>5 DEF Escaped, C!ChainKeepsItsPromises
<1> QED
  BY <1>1, <1>2, <1>3, <1>4, PTL DEF C!Spec

-----------------------------------------------------------------------------
(***************************************************************************)
(* Tokens: what GenerateJWT writes is what AuthenticateJWT reads back.     *)
(***************************************************************************)
Auth == INSTANCE Authentication

\* Users whose metadata do not carry the name of a standard claim: a claim of
\* such a name is taken for the standard one (convertToUser).
Accounts == [id : STRING, roles : SUBSET STRING, metadata : SUBSET (STRING \ Auth!Standard)]
KeyRings == UNION {[D -> Accounts] : D \in SUBSET STRING}
AuthOptions ==
    [secret : STRING, issuer : STRING, audience : SUBSET STRING,
     methods : SUBSET Auth!AuthMethods, require : BOOLEAN, keys : KeyRings]

(* A token issued under a configuration authenticates its user under every  *)
(* configuration with the same secret and issuer that shares an audience    *)
(* with it and under no other, for all users and configurations             *)
(* (middleware/auth.go).                                                    *)
THEOREM TokensWork ==
    ASSUME NEW holder \in Accounts, NEW issuer \in AuthOptions, NEW checker \in AuthOptions,
           NEW keyHeader \in STRING
    PROVE  Auth!IssuedTokensWork(holder, issuer, checker, keyHeader)
<1> DEFINE token == Auth!GenerateJWT(holder, issuer)
           request == [scheme |-> "Bearer", value |-> token, keyHeader |-> keyHeader]
           key == Auth!ExtractAPIKey(request)
           byToken == IF "jwt" \in checker.methods THEN Auth!AuthenticateJWT(checker, token)
                      ELSE Auth!NotFound
           byKey == IF "api_key" \in checker.methods /\ key # ""
                    THEN Auth!AuthenticateAPIKey(checker, key) ELSE Auth!NotFound
           got == Auth!Authenticate(checker, request)
           same == /\ issuer.secret = checker.secret
                   /\ checker.issuer \in {"", issuer.issuer}
                   /\ checker.audience = {} \/ issuer.audience \cap checker.audience # {}
<1>1. /\ token.secret = issuer.secret /\ token.expired = FALSE
      /\ token.claims.iss = issuer.issuer /\ token.claims.aud = issuer.audience
      /\ token.claims.sub = holder.id /\ token.claims.roles = holder.roles
      /\ token.claims.extra = holder.metadata
  BY DEF Auth!GenerateJWT
<1>2. Auth!UserOf(token.claims) = holder
  <2>1. token.claims.extra \ Auth!Standard = holder.metadata
    BY <1>1 DEF Accounts
  <2> QED
    BY <1>1, <2>1 DEF Auth!UserOf, Accounts
<1>3. /\ Auth!NotFound.method = "none"
      /\ \A u, m : Auth!Found(u, m).method = m
  BY DEF Auth!NotFound, Auth!Found
<1> HIDE DEF token
<1>4. Auth!AuthenticateJWT(checker, token) = IF same THEN Auth!Found(holder, "jwt")
                                             ELSE Auth!NotFound
  BY <1>1, <1>2 DEF Auth!AuthenticateJWT, Auth!ValidateClaims
<1>5. byKey.method # "jwt"
  BY <1>3 DEF Auth!AuthenticateAPIKey
<1>6. request.scheme = "Bearer" /\ request.value = token
  OBVIOUS
<1>7. got.found = IF byToken # Auth!NotFound THEN byToken ELSE byKey
  BY <1>6 DEF Auth!Authenticate
<1>8. got.outcome # "missing header"
  BY <1>6 DEF Auth!Authenticate
<1> HIDE DEF request, key, byKey, same, got
<1>9. "jwt" \in checker.methods /\ same => got.found = Auth!Found(holder, "jwt")
  BY <1>3, <1>4, <1>7
<1>10. got.found.method = "jwt" => same
  BY <1>3, <1>4, <1>5, <1>7
<1> QED
  BY <1>8, <1>9, <1>10 DEF Auth!IssuedTokensWork, request, same, got, token

-----------------------------------------------------------------------------
(***************************************************************************)
(* Versions: Compare orders them (Ordered), so that a set of supported     *)
(* ones has a highest (Highest), of which the router's choice and the      *)
(* property's are both an instance.                                        *)
(***************************************************************************)
Versions == INSTANCE Versioning

\* Compare is a total order's comparison.

LEMMA Ordered ==
    /\ \A v, w \in Versions!Version : /\ Versions!Compare(v, w) \in Int
                                      /\ Versions!Compare(v, v) = 0
                                      /\ Versions!Compare(v, w) < 0 => Versions!Compare(w, v) > 0
    /\ \A u, v, w \in Versions!Version :
          Versions!Compare(u, v) >= 0 /\ Versions!Compare(v, w) >= 0
             => Versions!Compare(u, w) >= 0
<1>1. ASSUME NEW v \in Versions!Version, NEW w \in Versions!Version
      PROVE  Versions!Compare(v, w) =
                IF v.major # w.major THEN IF v.major < w.major THEN -1 ELSE 1
                ELSE IF v.minor # w.minor THEN IF v.minor < w.minor THEN -1 ELSE 1
                ELSE IF v.patch # w.patch THEN IF v.patch < w.patch THEN -1 ELSE 1
                ELSE 0
  BY DEF Versions!Compare
<1>2. \A v \in Versions!Version : v.major \in Int /\ v.minor \in Int /\ v.patch \in Int
  BY DEF Versions!Version
<1>3. ASSUME NEW v \in Versions!Version, NEW w \in Versions!Version
      PROVE  /\ Versions!Compare(v, w) \in Int /\ Versions!Compare(v, v) = 0
             /\ Versions!Compare(v, w) < 0 => Versions!Compare(w, v) > 0
  BY <1>1, <1>2
<1>4. ASSUME NEW u \in Versions!Version, NEW v \in Versions!Version, NEW w \in Versions!Version,
             Versions!Compare(u, v) >= 0, Versions!Compare(v, w) >= 0
      PROVE  Versions!Compare(u, w) >= 0
  <2>1. /\ u.major \in Int /\ u.minor \in Int /\ u.patch \in Int
        /\ v.major \in Int /\ v.minor \in Int /\ v.patch \in Int
        /\ w.major \in Int /\ w.minor \in Int /\ w.patch \in Int
    BY <1>2
  <2>2. u.major > v.major \/ (u.major = v.major /\ (u.minor > v.minor \/
           (u.minor = v.minor /\ u.patch >= v.patch)))
    BY <1>1, <1>4, <2>1
  <2>3. v.major > w.major \/ (v.major = w.major /\ (v.minor > w.minor \/
           (v.minor = w.minor /\ v.patch >= w.patch)))
    BY <1>1, <1>4, <2>1
  <2>4. u.major > w.major \/ (u.major = w.major /\ (u.minor > w.minor \/
           (u.minor = w.minor /\ u.patch >= w.patch)))
    BY <2>1, <2>2, <2>3
  <2> QED
    BY <1>1, <2>1, <2>4
<1> QED
  BY <1>3, <1>4

\* Of finitely many versions one is the highest: a smallest set without one
\* would have one once a version is taken away.
LEMMA Highest ==
    ASSUME NEW S, IsFiniteSet(S), S \subseteq Versions!Version, S # {}
    PROVE  \E w \in S : \A u \in S : Versions!Compare(w, u) >= 0
<1> DEFINE HasHighest(T) == \E w \in T : \A u \in T : Versions!Compare(w, u) >= 0
           Bad == {T \in FiniteSubsetsOf(S) : T # {} /\ ~HasHighest(T)}
<1> SUFFICES ASSUME Bad # {} PROVE FALSE
  <2>1. S \in FiniteSubsetsOf(S)
    BY DEF FiniteSubsetsOf
  <2> QED
    BY <2>1
<1>1. PICK T \in Bad : \A U \in Bad : <<U, T>> \notin StrictSubsetOrdering(S)
  BY FS_StrictSubsetOrderingWellFounded, WFMin, Bad \subseteq FiniteSubsetsOf(S)
<1>2. T \subseteq S /\ IsFiniteSet(T) /\ T # {} /\ ~HasHighest(T)
  BY DEF FiniteSubsetsOf
<1>3. PICK x \in T : TRUE
  BY <1>2
<1>4. T \ {x} \notin Bad
  BY <1>1, <1>2, <1>3 DEF StrictSubsetOrdering
<1>5. T \ {x} \in FiniteSubsetsOf(S)
  BY <1>2, FS_Subset DEF FiniteSubsetsOf
<1>6. CASE T \ {x} = {}
  BY <1>2, <1>3, <1>6, Ordered
<1>7. CASE HasHighest(T \ {x})
  <2>1. PICK m \in T \ {x} : \A u \in T \ {x} : Versions!Compare(m, u) >= 0
    BY <1>7
  <2>2. m \in Versions!Version /\ x \in Versions!Version
    BY <1>2, <2>1
  <2>3. CASE Versions!Compare(m, x) >= 0
    BY <1>2, <2>1, <2>3
  <2>4. CASE Versions!Compare(m, x) < 0
    <3>1. Versions!Compare(x, m) >= 0 /\ Versions!Compare(x, x) >= 0
      BY <2>2, <2>4, Ordered
    <3>2. \A u \in T : Versions!Compare(x, u) >= 0
      BY <1>2, <2>1, <2>2, <3>1, Ordered
    <3> QED
      BY <1>2, <1>3, <3>2
  <2> QED
    BY <2>2, <2>3, <2>4, Ordered
<1> QED
  BY <1>4, <1>5, <1>6, <1>7

RouterOptions ==
    [supported : SUBSET Versions!Version, strict : BOOLEAN, headers : BOOLEAN,
     strategy : STRING, default : Versions!Version, deprecated : SUBSET Versions!Version]
RequestedParts == Seq(Nat \cup {Versions!BadPart})

LEMMA Extracted ==
    ASSUME NEW config \in RouterOptions, NEW parts \in RequestedParts
    PROVE  Versions!ExtractVersion(config, parts) \in Versions!Version \cup {Versions!Invalid}
<1>1. Versions!ParseVersion(parts) \in Versions!Version \cup {Versions!Invalid}
  <2> DEFINE part(i) == IF Len(parts) >= i THEN parts[i] ELSE 0
  <2>1. \A i \in 1..3 : part(i) \in Nat \cup {Versions!BadPart}
    BY DEF RequestedParts
  <2>2. Versions!ParseVersion(parts) =
           IF \E i \in 1..3 : part(i) = Versions!BadPart THEN Versions!Invalid
           ELSE [major |-> part(1), minor |-> part(2), patch |-> part(3)]
    BY DEF Versions!ParseVersion
  <2> HIDE DEF part
  <2>3. CASE \A i \in 1..3 : part(i) # Versions!BadPart
    <3>1. part(1) \in Nat /\ part(2) \in Nat /\ part(3) \in Nat
      BY <2>1, <2>3
    <3> QED
      BY <2>2, <2>3, <3>1 DEF Versions!Version
  <2> QED
    BY <2>2, <2>3
<1>2. config.default \in Versions!Version
  BY DEF RouterOptions
<1> QED
  BY <1>1, <1>2 DEF Versions!ExtractVersion, Versions!MatchVersion

(* A request is served by the handler of its version, else by that of the   *)
(* closest earlier minor version, else by the default, for every set of     *)
(* handlers and every version that can be asked for                         *)
(* (versioning/versioning.go).                                              *)
THEOREM ClosestServes ==
    ASSUME NEW config \in RouterOptions, NEW D \in SUBSET Versions!Version, IsFiniteSet(D),
           NEW Serving, Versions!NoHandler \notin Serving, NEW served \in [D -> Serving],
           NEW fallback \in Serving \cup {Versions!NoHandler}, NEW parts \in RequestedParts
    PROVE  Versions!ClosestHandlerServes(config, served, fallback, parts)
<1> DEFINE v == Versions!ExtractVersion(config, parts)
           response == Versions!ServeHTTP(config, served, fallback, parts)
           found == Versions!FindCompatibleHandler(served, v)
           compatible == {w \in D : Versions!IsCompatibleWith(v, w)}
           best == CHOOSE w \in compatible : \A u \in compatible : Versions!Compare(w, u) >= 0
           earlier(w) == w.major = v.major /\ w.minor <= v.minor
           later(w, u) == w.minor > u.minor \/ (w.minor = u.minor /\ w.patch > u.patch)
           behind == Versions!Middleware(config, parts)
           closest(w) == \/ w = v
                         \/ /\ earlier(w) /\ v \notin D
                            /\ \A u \in D : earlier(u) => ~later(u, w)
<1>0. DOMAIN served = D
  OBVIOUS
<1>1. v \in Versions!Version \cup {Versions!Invalid}
  BY Extracted
<1>2. /\ v = Versions!Invalid => response.status = 400 /\ behind.status = 400
      /\ v # Versions!Invalid =>
            /\ found # Versions!NoHandler => response.status = 200 /\ response.handler = found
            /\ found = Versions!NoHandler /\ fallback # Versions!NoHandler =>
                  response.status = 200 /\ response.handler = fallback
            /\ found = Versions!NoHandler /\ fallback = Versions!NoHandler =>
                  response.status = 501
  BY DEF Versions!ServeHTTP, Versions!Middleware
<1>3. v # Versions!Invalid /\ config.strict /\ behind.status = 200 =>
         \E w \in config.supported : Versions!IsCompatibleWith(v, w)
  BY DEF Versions!Middleware, Versions!ValidateVersion
<1>4. found = IF v \in D THEN served[v] ELSE IF compatible # {} THEN served[best]
              ELSE Versions!NoHandler
  BY <1>0 DEF Versions!FindCompatibleHandler
<1>5. compatible # {} => /\ best \in compatible
                         /\ \A u \in compatible : Versions!Compare(best, u) >= 0
  <2>1. IsFiniteSet(compatible) /\ compatible \subseteq Versions!Version
    BY FS_Subset
  <2> QED
    BY <2>1, Highest
<1>6. \A w \in D : earlier(w) <=> w \in compatible
  BY <1>1 DEF Versions!IsCompatibleWith, Versions!Version, Versions!Invalid
<1>7. ASSUME v # Versions!Invalid, found # Versions!NoHandler
      PROVE  \E w \in D : served[w] = found /\ closest(w)
  <2>1. CASE v \in D
    BY <1>4, <2>1
  <2>2. CASE v \notin D /\ compatible # {}
    <3>1. best \in D /\ earlier(best) /\ served[best] = found
      BY <1>4, <1>5, <1>6, <2>2
    <3>2. ASSUME NEW u \in D, earlier(u) PROVE ~later(u, best)
      <4>1. Versions!Compare(best, u) >= 0
        BY <1>5, <1>6, <2>2, <3>2
      <4>2. best \in Versions!Version /\ u \in Versions!Version /\ best.major = u.major
        BY <3>1, <3>2
      <4> HIDE DEF best
      <4> QED
        BY <4>1, <4>2 DEF Versions!Compare, Versions!Version
    <3> QED
      BY <2>2, <3>1, <3>2
  <2> QED
    BY <1>4, <1>7, <2>1, <2>2
<1>8. ASSUME v # Versions!Invalid, found = Versions!NoHandler
      PROVE  v \notin D /\ compatible = {} /\ ~\E w \in D : earlier(w)
  BY <1>4, <1>5, <1>6, <1>8
<1> HIDE DEF v, response, found, compatible, best, behind
<1>9. response.status = 200 =>
         \/ \E w \in D : served[w] = response.handler /\ closest(w)
         \/ response.handler = fallback /\ ~\E w \in D : earlier(w)
  BY <1>2, <1>7, <1>8
<1>10. response.status = 501 => fallback = Versions!NoHandler
  BY <1>2
<1>11. config.strict /\ config.supported = D /\ behind.status = 200 => response.status = 200
  BY <1>2, <1>3, <1>8 DEF compatible
<1> QED
  BY <1>0, <1>9, <1>10, <1>11 DEF Versions!ClosestHandlerServes, v, response, behind
-----------------------------------------------------------------------------
(***************************************************************************)
(* The binding of parameters, for any source of values, any fields and any *)
(* required keys.                                                          *)
(***************************************************************************)
CONSTANTS MaxStringLength, MaxSliceLength, MaxMapSize

Params == INSTANCE ParamsParsing

\* What a decoder makes of a value: a null is all alike.
DecodedValue(v) ==
    /\ v \in [kind : STRING \ {"unset", "error"}, size : Int, negative : BOOLEAN]
    /\ v.kind = "nil" => v = Params!Nil

DecodedParams(source) ==
    /\ source = [l \in DOMAIN source |-> source[l]]
    /\ IsFiniteSet(DOMAIN source)
    /\ \A l \in DOMAIN source : DecodedValue(source[l])

\* Only a null leaves a field as it was.
LEMMA OnlyNilUnset ==
    ASSUME NEW v, DecodedValue(v), NEW field, Params!SetFieldValue(field, v) = Params!Unset
    PROVE  v = Params!Nil
<1>1. Params!Unset.kind = "unset" /\ Params!Failed.kind = "error"
  BY DEF Params!Unset, Params!Failed, Params!Nil
<1>2. v.kind # "unset" /\ v.kind # "error" /\ (v.kind = "nil" => v = Params!Nil)
  BY DEF DecodedValue
<1>3. v \in [kind : STRING, size : Int, negative : BOOLEAN]
  BY DEF DecodedValue
<1>4. \A k : [v EXCEPT !.kind = k].kind = k
  BY <1>3
<1>5. ASSUME v.kind # "nil" PROVE FALSE
  <2>1. CASE v.kind = field.kind /\ v.kind \notin {"map", "slice", "nil"}
    BY <1>1, <1>2, <1>5, <2>1 DEF Params!SetFieldValue
  <2>2. CASE ~(v.kind = field.kind /\ v.kind \notin {"map", "slice", "nil"})
    <3>1. CASE ~Params!ValidateSize(field.kind, v)
      BY <1>1, <1>5, <2>2, <3>1 DEF Params!SetFieldValue
    <3>2. CASE Params!ValidateSize(field.kind, v) /\ field.kind = "string"
      <4>1. Params!SetFieldValue(field, v) = [v EXCEPT !.kind = "string"]
        BY <1>5, <2>2, <3>2 DEF Params!SetFieldValue, Params!Numbers
      <4> QED
        BY <1>1, <1>4, <4>1
    <3>3. CASE /\ Params!ValidateSize(field.kind, v) /\ field.kind # "string"
               /\ field.kind \in Params!Numbers /\ Params!ConvertNumber(field.kind, v)
      <4>1. Params!SetFieldValue(field, v) = [v EXCEPT !.kind = field.kind]
        BY <1>5, <2>2, <3>3 DEF Params!SetFieldValue, Params!Numbers
      <4>2. field.kind # "unset"
        BY <3>3 DEF Params!Numbers
      <4> QED
        BY <1>1, <1>4, <4>1, <4>2
    <3>4. CASE /\ Params!ValidateSize(field.kind, v) /\ field.kind # "string"
               /\ ~(field.kind \in Params!Numbers /\ Params!ConvertNumber(field.kind, v))
      <4>1. Params!SetFieldValue(field, v) \in {v, Params!Failed}
        BY <1>5, <2>2, <3>4 DEF Params!SetFieldValue
      <4> QED
        BY <1>1, <1>2, <4>1
    <3> QED
      BY <3>1, <3>2, <3>3, <3>4
  <2> QED
    BY <2>1, <2>2
<1> QED
  BY <1>2, <1>5

Rivals(source, key) == {l \in DOMAIN source : Params!EqualFold(l, key)}

\* A field that some key folds to is given the value of one of them, of its
\* own if that is there, and may be given no other if no other is there.
LEMMA CandidatesMean ==
    ASSUME NEW source, NEW key
    PROVE  LET found == Params!Candidates(source, key)
           IN  /\ \A v \in found : \E l \in Rivals(source, key) : v = source[l]
               /\ Rivals(source, key) # {} => found # {}
               /\ key \in DOMAIN source \/ (\A k, l \in Rivals(source, key) : k = l)
                    => \A v, w \in found : v = w
<1>1. key \in DOMAIN source => key \in Rivals(source, key)
  BY DEF Rivals, Params!EqualFold
<1> QED
  BY <1>1 DEF Params!Candidates, Rivals

\* One choice for each field, where there is one.
Selections(fields, choices) ==
    {f \in [fields -> UNION {choices[x] : x \in fields}] : \A x \in fields : f[x] \in choices[x]}

LEMMA ChoicesOfEach ==
    ASSUME NEW fields, NEW choices, \A x \in fields : choices[x] # {}
    PROVE  /\ Selections(fields, choices) # {}
           /\ (\A x \in fields : \A v, w \in choices[x] : v = w)
                 => \A f, g \in Selections(fields, choices) : f = g
<1> DEFINE f == [x \in fields |-> CHOOSE v : v \in choices[x]]
<1>1. \A x \in fields : f[x] \in choices[x]
  OBVIOUS
<1>2. f \in Selections(fields, choices)
  BY <1>1 DEF Selections
<1>3. ASSUME \A x \in fields : \A v, w \in choices[x] : v = w,
             NEW g \in Selections(fields, choices), NEW h \in Selections(fields, choices)
      PROVE  g = h
  <2>1. /\ g = [x \in fields |-> g[x]] /\ h = [x \in fields |-> h[x]]
        /\ \A x \in fields : g[x] \in choices[x] /\ h[x] \in choices[x]
    BY DEF Selections
  <2> HIDE DEF Selections
  <2>2. \A x \in fields : g[x] = h[x]
    BY <1>3, <2>1
  <2> QED
    BY <2>1, <2>2
<1> QED
  BY <1>2, <1>3

\* A field can be set, a null alone leaves it as it was, and where no keys
\* compete it can be set in one way.
Unrivalled(source, key) == \A k, l \in Rivals(source, key) : k = l

LEMMA FieldsAreSet ==
    ASSUME NEW source, DecodedParams(source), NEW x
    PROVE  /\ Params!SetField(source, x) # {}
           /\ Rivals(source, x.key) # {} /\ Params!Unset \in Params!SetField(source, x)
                 => \E l \in Rivals(source, x.key) : source[l] = Params!Nil
           /\ x.key \in DOMAIN source \/ Unrivalled(source, x.key)
                 => \A v, w \in Params!SetField(source, x) : v = w
<1> DEFINE found == Params!Candidates(source, x.key)
<1>1. /\ \A v \in found : \E l \in Rivals(source, x.key) : v = source[l]
      /\ Rivals(source, x.key) # {} => found # {}
      /\ x.key \in DOMAIN source \/ Unrivalled(source, x.key) => \A v, w \in found : v = w
  BY CandidatesMean DEF Unrivalled
<1>2. Params!SetField(source, x) =
          IF found = {} THEN {Params!Unset} ELSE {Params!SetFieldValue(x, v) : v \in found}
  BY DEF Params!SetField
<1> HIDE DEF found
<1>3. ASSUME Rivals(source, x.key) # {}, Params!Unset \in Params!SetField(source, x)
      PROVE  \E l \in Rivals(source, x.key) : source[l] = Params!Nil
  <2>1. PICK v \in found : Params!SetFieldValue(x, v) = Params!Unset
    BY <1>1, <1>2, <1>3
  <2>2. PICK l \in Rivals(source, x.key) : v = source[l]
    BY <1>1
  <2>3. DecodedValue(v)
    BY <2>2 DEF Rivals, DecodedParams
  <2> QED
    BY <2>1, <2>2, <2>3, OnlyNilUnset
<1> QED
  BY <1>1, <1>2, <1>3

\* What the binding of a map promises of a set of results.
Bound(source, fields, required, results) ==
    /\ results # {}
    /\ \A f \in results \ {Params!Error} : \A x \in fields :
          x.key \in required /\ f[x] = Params!Unset =>
              \E l \in Rivals(source, x.key) : source[l] = Params!Nil

LEMMA MapsAreBound ==
    ASSUME NEW source, DecodedParams(source), NEW fields, NEW required,
           \A k \in required : Rivals(source, k) # {}
    PROVE  /\ Bound(source, fields, required, Params!MapToStruct(source, fields))
           /\ (\A x \in fields : x.key \in DOMAIN source \/ Unrivalled(source, x.key))
                 => \A f, g \in Params!MapToStruct(source, fields) : f = g
<1> DEFINE set == [x \in fields |-> Params!SetField(source, x)]
           all == Selections(fields, set)
           end(f) == IF \E x \in fields : f[x] = Params!Failed THEN Params!Error ELSE f
<1>1. Params!MapToStruct(source, fields) = {end(f) : f \in all}
  <2>1. \A x \in fields : set[x] = Params!SetField(source, x)
    OBVIOUS
  <2>2. {set[x] : x \in fields} = {Params!SetField(source, x) : x \in fields}
    OBVIOUS
  <2>3. all = {f \in [fields -> UNION {Params!SetField(source, x) : x \in fields}] :
                  \A x \in fields : f[x] \in Params!SetField(source, x)}
    BY <2>1, <2>2 DEF Selections
  <2> QED
    BY <2>3 DEF Params!MapToStruct
<1>2. \A x \in fields : set[x] # {}
  BY FieldsAreSet
<1>3. /\ all # {}
      /\ (\A x \in fields : \A v, w \in set[x] : v = w) => \A f, g \in all : f = g
  <2> HIDE DEF set
  <2> QED
    BY <1>2, ChoicesOfEach
<1>4. ASSUME NEW f \in all, NEW x \in fields, x.key \in required, f[x] = Params!Unset
      PROVE  \E l \in Rivals(source, x.key) : source[l] = Params!Nil
  <2>1. f[x] \in Params!SetField(source, x)
    BY <1>4 DEF Selections
  <2> QED
    BY <1>4, <2>1, FieldsAreSet
<1>5. (\A x \in fields : x.key \in DOMAIN source \/ Unrivalled(source, x.key))
         => \A x \in fields : \A v, w \in set[x] : v = w
  BY FieldsAreSet
<1> HIDE DEF all, set
<1>6. Bound(source, fields, required, {end(f) : f \in all})
  BY <1>3, <1>4 DEF Bound
<1>7. (\A f, g \in all : f = g) => \A f, g \in {end(h) : h \in all} : f = g
  OBVIOUS
<1> QED
  BY <1>1, <1>3, <1>5, <1>6, <1>7

LEMMA TextsAreBound ==
    ASSUME NEW source, DecodedParams(source), NEW fields, NEW required,
           \A k \in required : Rivals(source, k) # {}
    PROVE  /\ Bound(source, fields, required, Params!FlexibleUnmarshal(source, fields))
           /\ (\A x \in fields : Unrivalled(source, x.key))
                 => \A f, g \in Params!FlexibleUnmarshal(source, fields) : f = g
<1> DEFINE rivals(x) == {source[l] : l \in Rivals(source, x.key)}
           value(x, v) == IF v = Params!Nil THEN Params!Unset ELSE v
           choices(x) == IF rivals(x) = {} THEN {Params!Unset} ELSE {value(x, v) : v \in rivals(x)}
           set == [x \in fields |-> choices(x)]
           all == Selections(fields, set)
           Typed == \A x \in fields : \A v \in rivals(x) : v.kind \in {x.kind, "nil"}
<1>1. CASE ~Typed
  <2>1. Params!FlexibleUnmarshal(source, fields) = Params!MapToStruct(source, fields)
    BY <1>1 DEF Params!FlexibleUnmarshal, Rivals
  <2>2. Bound(source, fields, required, Params!MapToStruct(source, fields))
    BY MapsAreBound
  <2>3. (\A x \in fields : Unrivalled(source, x.key))
           => \A f, g \in Params!MapToStruct(source, fields) : f = g
    BY MapsAreBound
  <2> HIDE DEF rivals, value, choices, set, all, Typed
  <2> QED
    BY <2>1, <2>2, <2>3
<1>2. CASE Typed
  <2>1. Params!FlexibleUnmarshal(source, fields) = all
    <3>1. \A x \in fields : set[x] = choices(x)
      OBVIOUS
    <3>2. {set[x] : x \in fields} = {choices(x) : x \in fields}
      OBVIOUS
    <3>3. all = {f \in [fields -> UNION {choices(x) : x \in fields}] :
                    \A x \in fields : f[x] \in choices(x)}
      BY <3>1, <3>2 DEF Selections
    <3> QED
      BY <1>2, <3>3 DEF Params!FlexibleUnmarshal, Rivals
  <2>2. ASSUME NEW x \in fields
        PROVE  /\ set[x] # {}
               /\ Rivals(source, x.key) # {} /\ Params!Unset \in set[x]
                     => \E l \in Rivals(source, x.key) : source[l] = Params!Nil
               /\ Unrivalled(source, x.key) => \A v, w \in set[x] : v = w
    <3>1. set[x] = choices(x)
      OBVIOUS
    <3>2. \A l \in Rivals(source, x.key) : source[l] # Params!Unset
      <4>1. \A l \in Rivals(source, x.key) : source[l].kind # "unset"
        BY DEF Rivals, DecodedParams, DecodedValue
      <4>2. Params!Unset.kind = "unset"
        BY DEF Params!Unset, Params!Nil
      <4> QED
        BY <4>1, <4>2
    <3>3. choices(x) # {}
      OBVIOUS
    <3>4. Rivals(source, x.key) # {} /\ Params!Unset \in choices(x)
             => \E l \in Rivals(source, x.key) : source[l] = Params!Nil
      BY <3>2
    <3>5. Unrivalled(source, x.key) => \A v, w \in choices(x) : v = w
      BY DEF Unrivalled
    <3> QED
      BY <3>1, <3>3, <3>4, <3>5
  <2>3. /\ all # {}
        /\ (\A x \in fields : \A v, w \in set[x] : v = w) => \A f, g \in all : f = g
    <3> HIDE DEF set
    <3> QED
      BY <2>2, ChoicesOfEach
  <2> HIDE DEF set
  <2>4. ASSUME NEW f \in all, NEW x \in fields, x.key \in required, f[x] = Params!Unset
        PROVE  \E l \in Rivals(source, x.key) : source[l] = Params!Nil
    <3>1. f[x] \in set[x]
      BY DEF Selections
    <3> QED
      BY <2>2, <2>4, <3>1
  <2>5. Bound(source, fields, required, all)
    <3> HIDE DEF all
    <3> QED
      BY <2>3, <2>4 DEF Bound
  <2> QED
    BY <2>1, <2>2, <2>3, <2>5
<1> QED
  BY <1>1, <1>2

LEMMA SameCounts == \A S : Params!Cardinality(S) = Cardinality(S)
  BY DEF Params!Cardinality, Cardinality

LEMMA OneForAll ==
    ASSUME NEW S, S # {}, \A a, b \in S : a = b
    PROVE  Cardinality(S) = 1
<1>1. \E a : S = {a}
  OBVIOUS
<1> QED
  BY <1>1, FS_Singleton

LEMMA FewAreUnrivalled ==
    ASSUME NEW source, DecodedParams(source), NEW key, Cardinality(Rivals(source, key)) <= 1
    PROVE  Unrivalled(source, key)
<1> DEFINE S == Rivals(source, key)
<1>1. IsFiniteSet(S)
  BY FS_Subset DEF DecodedParams, Rivals
<1>2. Cardinality(S) \in Nat
  BY <1>1, FS_CardinalityType
<1>3. CASE Cardinality(S) = 0
  BY <1>1, <1>3, FS_EmptySet DEF Unrivalled
<1>4. CASE Cardinality(S) = 1
  <2>1. \E a : S = {a}
    BY <1>1, <1>4, FS_Singleton
  <2> QED
    BY <2>1 DEF Unrivalled
<1> QED
  BY <1>2, <1>3, <1>4

(***************************************************************************)
(* Required parameters that pass the check are bound, whatever the order   *)
(* in which a map is ranged over, and in one way unless keys compete, of   *)
(* any form of parameters, any finite source and any fields.               *)
(***************************************************************************)
THEOREM ParametersBound ==
    ASSUME NEW form, NEW source, DecodedParams(source), NEW fields, NEW required
    PROVE  Params!RequiredParametersBound(form, source, fields, required)
<1> DEFINE results == Params!ValidateAndParseParams(form, source, fields, required)
           missing == IF form = "nil" THEN required
                      ELSE {k \in required : Rivals(source, k) = {}}
           Alone == \A x \in fields : \/ x.key \in DOMAIN source /\ form = "map"
                                      \/ Cardinality(Rivals(source, x.key)) <= 1
<1>1. results = IF missing # {} THEN {Params!Error}
                                ELSE Params!FlexibleParseParams(form, source, fields)
  <2>1. missing = IF form = "nil" THEN required
                  ELSE {k \in required : ~\E l \in DOMAIN source : Params!EqualFold(l, k)}
    BY DEF Rivals
  <2> QED
    BY <2>1 DEF Params!ValidateAndParseParams
<1>2. /\ Bound(source, fields, required, results)
      /\ Alone => \A f, g \in results : f = g
  <2>1. CASE missing # {}
    <3>1. results = {Params!Error}
      BY <1>1, <2>1
    <3> QED
      BY <3>1 DEF Bound
  <2>2. CASE missing = {} /\ form = "nil"
    <3>1. required = {} /\ results = {[x \in fields |-> Params!Unset]}
      BY <1>1, <2>2 DEF Params!FlexibleParseParams
    <3> QED
      BY <3>1 DEF Bound
  <2>3. CASE missing = {} /\ form # "nil"
    <3>1. \A k \in required : Rivals(source, k) # {}
      BY <2>3
    <3>2. CASE form = "map"
      <4>1. results = Params!MapToStruct(source, fields)
        BY <1>1, <2>3, <3>2 DEF Params!FlexibleParseParams
      <4>2. Alone => \A x \in fields : x.key \in DOMAIN source \/ Unrivalled(source, x.key)
        BY FewAreUnrivalled
      <4> DEFINE bound == Params!MapToStruct(source, fields)
                 Sure == \A x \in fields : x.key \in DOMAIN source \/ Unrivalled(source, x.key)
      <4>3. Bound(source, fields, required, bound) /\ (Sure => \A f, g \in bound : f = g)
        BY <3>1, MapsAreBound
      <4> HIDE DEF bound, Alone, Sure
      <4> QED
        BY <4>1, <4>2, <4>3 DEF Sure, bound
    <3>3. CASE form # "map"
      <4>1. results = Params!FlexibleUnmarshal(source, fields)
        BY <1>1, <2>3, <3>3 DEF Params!FlexibleParseParams
      <4>2. Alone => \A x \in fields : Unrivalled(source, x.key)
        BY <3>3, FewAreUnrivalled
      <4> DEFINE bound == Params!FlexibleUnmarshal(source, fields)
                 Sure == \A x \in fields : Unrivalled(source, x.key)
      <4>3. Bound(source, fields, required, bound) /\ (Sure => \A f, g \in bound : f = g)
        BY <3>1, TextsAreBound
      <4> HIDE DEF bound, Alone, Sure
      <4> QED
        BY <4>1, <4>2, <4>3 DEF Sure, bound
    <3> QED
      BY <3>2, <3>3
  <2> QED
    BY <2>1, <2>2, <2>3
<1> HIDE DEF results
<1>3. Alone => Cardinality(results) = 1
  BY <1>2, OneForAll DEF Bound
<1>4. Params!RequiredParametersBound(form, source, fields, required) <=>
          Bound(source, fields, required, results) /\ (Alone => Cardinality(results) = 1)
  <2>1. \A x \in fields : {l \in DOMAIN source : Params!EqualFold(l, x.key)} = Rivals(source, x.key)
    BY DEF Rivals
  <2> QED
    BY <2>1, SameCounts DEF Params!RequiredParametersBound, Bound, results
<1> QED
  BY <1>2, <1>3, <1>4

-----------------------------------------------------------------------------
(***************************************************************************)
(* The codec of messages, for every int and every text.                    *)
(*                                                                         *)
(* Induction is over sets of numbers: the least number outside of one is   *)
(* what a step contradicts, and a function defined by recursion exists     *)
(* because its beginnings do (Recursion).                                  *)
(***************************************************************************)
CONSTANT MaxInt

Codec == INSTANCE JSONCodec

\* A set of numbers that is not empty has a least one.
LEMMA LeastNumber ==
    ASSUME NEW T, T \subseteq Nat, T # {}
    PROVE  \E x \in T : \A y \in T : x <= y
<1> DEFINE R == {z \in Nat \X Nat : z[1] < z[2]}
<1>1. IsWellFoundedOn(OpToRel(<, Nat), Nat)
  BY NatLessThanWellFounded
<1>2. OpToRel(<, Nat) = R
  BY DEF OpToRel
<1> HIDE DEF R
<1>3. PICK x \in T : \A y \in T : ~ (<<y, x>> \in R)
  BY <1>1, <1>2, WFMin
<1>4. ASSUME NEW y \in T PROVE x <= y
  <2>1. ~(y < x)
    BY <1>3 DEF R
  <2> QED
    BY <2>1
<1> QED
  BY <1>4

LEMMA EveryNumber ==
    ASSUME NEW T, \A n \in Nat : (\A m \in Nat : m < n => m \in T) => n \in T
    PROVE  \A n \in Nat : n \in T
<1>1. SUFFICES ASSUME Nat \ T # {} PROVE FALSE
  OBVIOUS
<1>2. PICK x \in Nat \ T : \A y \in Nat \ T : x <= y
  BY <1>1, LeastNumber
<1>3. \A m \in Nat : m < x => m \in T
  BY <1>2
<1> QED
  BY <1>2, <1>3

\* What a recursion from numbers to smaller ones computes.
Recurs(g, D, base, smaller, step) ==
    /\ g[0] = base
    /\ \A n \in D \ {0} : g[n] = step[<<n, g[smaller[n]]>>]

LEMMA Recursion ==
    ASSUME NEW D \in SUBSET Nat, 0 \in D, NEW smaller \in [D -> D],
           \A n \in D \ {0} : smaller[n] < n,
           NEW S, NEW base \in S, NEW step \in [(D \ {0}) \X S -> S]
    PROVE  \E f \in [D -> S] : Recurs(f, D, base, smaller, step)
<1> DEFINE Until(g, n) == g[0] = base /\ \A m \in D \ {0} : m <= n => g[m] = step[<<m, g[smaller[m]]>>]
<1>1. ASSUME NEW n \in Nat PROVE \E g \in [D -> S] : Until(g, n)
  <2> DEFINE T == {k \in Nat : \E g \in [D -> S] : Until(g, k)}
  <2>1. ASSUME NEW k \in Nat, \A m \in Nat : m < k => m \in T PROVE k \in T
    <3>1. CASE k = 0
      <4>1. Until([m \in D |-> base], 0)
        OBVIOUS
      <4> QED
        BY <3>1, <4>1
    <3>2. CASE k # 0
      <4>1. k - 1 \in Nat /\ k - 1 < k
        BY <3>2
      <4>2. PICK g \in [D -> S] : Until(g, k - 1)
        BY <2>1, <4>1
      <4>3. CASE k \notin D
        <5>1. Until(g, k)
          BY <4>2, <4>3
        <5> QED
          BY <5>1
      <4>4. CASE k \in D
        <5>1. smaller[k] \in D /\ g[smaller[k]] \in S
          BY <4>4
        <5>2. PICK s \in S : s = step[<<k, g[smaller[k]]>>]
          BY <3>2, <4>4, <5>1
        <5>3. PICK h \in [D -> S] : h[k] = s /\ \A m \in D : m # k => h[m] = g[m]
          <6>1. [g EXCEPT ![k] = s] \in [D -> S]
            OBVIOUS
          <6> QED
            BY <4>4, <6>1
        <5>4. ASSUME NEW m \in D \ {0}, m <= k PROVE h[m] = step[<<m, h[smaller[m]]>>]
          <6>1. smaller[m] \in D /\ smaller[m] < m
            OBVIOUS
          <6>2. h[smaller[m]] = g[smaller[m]]
            <7>1. smaller[m] # k
              BY <4>4, <5>4, <6>1
            <7> QED
              BY <5>3, <6>1, <7>1
          <6>3. CASE m = k
            BY <5>2, <5>3, <6>2, <6>3
          <6>4. CASE m # k
            <7>1. g[m] = step[<<m, g[smaller[m]]>>]
              BY <4>2, <5>4, <6>4
            <7> QED
              BY <5>3, <6>2, <6>4, <7>1
          <6> QED
            BY <6>3, <6>4
        <5>5. h[0] = base
          BY <3>2, <4>2, <5>3
        <5> QED
          BY <5>4, <5>5
      <4> QED
        BY <4>3, <4>4
    <3> QED
      BY <3>1, <3>2
  <2> HIDE DEF T
  <2>2. n \in T
    BY <2>1, EveryNumber
  <2> QED
    BY <2>2 DEF T
<1>2. ASSUME NEW n \in Nat, NEW k \in Nat, n <= k, NEW g, NEW h, Until(g, n), Until(h, k)
      PROVE  \A m \in D : m <= n => g[m] = h[m]
  <2> DEFINE T == {m \in Nat : m \in D /\ m <= n => g[m] = h[m]}
  <2>1. ASSUME NEW m \in Nat, \A l \in Nat : l < m => l \in T, m \in D, m <= n
        PROVE  g[m] = h[m]
    <3>1. CASE m = 0
      BY <1>2, <3>1
    <3>2. CASE m # 0
      <4>1. smaller[m] \in D /\ smaller[m] < m /\ smaller[m] \in Nat
        <5>1. m \in D \ {0}
          BY <2>1, <3>2
        <5>2. smaller[m] \in D
          BY <5>1
        <5> QED
          BY <5>1, <5>2
      <4>2. g[smaller[m]] = h[smaller[m]]
        BY <2>1, <4>1
      <4>3. g[m] = step[<<m, g[smaller[m]]>>] /\ h[m] = step[<<m, h[smaller[m]]>>]
        BY <1>2, <2>1, <3>2
      <4> QED
        BY <4>2, <4>3
    <3> QED
      BY <3>1, <3>2
  <2>2. \A m \in Nat : (\A l \in Nat : l < m => l \in T) => m \in T
    BY <2>1
  <2> HIDE DEF T
  <2>3. \A m \in Nat : m \in T
    BY <2>2, EveryNumber
  <2> QED
    BY <2>3 DEF T
<1> DEFINE upTo == [n \in D |-> CHOOSE g \in [D -> S] : Until(g, n)]
           f == [n \in D |-> upTo[n][n]]
<1>3. ASSUME NEW n \in D PROVE upTo[n] \in [D -> S] /\ Until(upTo[n], n)
  BY <1>1
<1> HIDE DEF upTo
<1>4. f \in [D -> S]
  BY <1>3
<1>5. f[0] = base
  BY <1>3
<1>6. ASSUME NEW n \in D \ {0} PROVE f[n] = step[<<n, f[smaller[n]]>>]
  <2>1. smaller[n] \in D /\ smaller[n] < n
    OBVIOUS
  <2>2. PICK b \in D : b = smaller[n] /\ b < n
    BY <2>1
  <2>3. PICK g \in [D -> S], h \in [D -> S] :
            g = upTo[b] /\ h = upTo[n] /\ Until(g, b) /\ Until(h, n)
    BY <1>3, <2>2
  <2>4. g[b] = h[b]
    <3>1. b \in Nat /\ n \in Nat /\ b <= n /\ Until(g, b) /\ Until(h, n)
      BY <2>2, <2>3
    <3> HIDE DEF Until
    <3>2. \A m \in D : m <= b => g[m] = h[m]
      BY <1>2, <3>1
    <3> QED
      BY <3>1, <3>2
  <2>5. h[n] = step[<<n, h[b]>>]
    <3>1. \A m \in D \ {0} : m <= n => h[m] = step[<<m, h[smaller[m]]>>]
      BY <2>3
    <3>2. h[n] = step[<<n, h[smaller[n]]>>]
      BY <3>1
    <3> QED
      BY <2>2, <3>2
  <2> QED
    BY <2>2, <2>3, <2>4, <2>5
<1> QED
  BY <1>4, <1>5, <1>6 DEF Recurs

-----------------------------------------------------------------------------
\* Numbers.

LEMMA DigitsMeans ==
    /\ Codec!Digits[0] = <<>>
    /\ \A n \in Nat : /\ Codec!Digits[n] \in Seq(0..9)
                      /\ n > 0 => Codec!Digits[n] = Append(Codec!Digits[n \div 10], n % 10)
<1> DEFINE Ds == Seq(0..9)
           smaller == [n \in Nat |-> n \div 10]
           step == [z \in (Nat \ {0}) \X Ds |-> Append(z[2], z[1] % 10)]
           Is(g) == g = [n \in Nat |-> IF n = 0 THEN <<>> ELSE Append(g[n \div 10], n % 10)]
<1>1. ASSUME NEW n \in Nat PROVE n \div 10 \in Nat /\ n % 10 \in 0..9 /\ (n > 0 => n \div 10 < n)
  OBVIOUS
<1>2. ASSUME NEW s \in Ds, NEW d \in 0..9 PROVE Append(s, d) \in Ds
  OBVIOUS
<1>3. <<>> \in Ds
  OBVIOUS
<1> HIDE DEF Ds
<1>4. PICK f \in [Nat -> Ds] : Recurs(f, Nat, <<>>, smaller, step)
  <2>1. smaller \in [Nat -> Nat] /\ \A n \in Nat \ {0} : smaller[n] < n
    BY <1>1
  <2>2. step \in [(Nat \ {0}) \X Ds -> Ds]
    BY <1>1, <1>2
  <2> HIDE DEF smaller, step
  <2> QED
    BY <1>3, <2>1, <2>2, Recursion
<1>5. Is(f)
  <2>1. f[0] = <<>>
    BY <1>4 DEF Recurs
  <2>2. ASSUME NEW n \in Nat, n # 0 PROVE f[n] = Append(f[n \div 10], n % 10)
    <3>1. f[n] = step[<<n, f[smaller[n]]>>]
      BY <1>4, <2>2 DEF Recurs
    <3>2. smaller[n] = n \div 10 /\ <<n, f[n \div 10]>> \in (Nat \ {0}) \X Ds
      BY <1>1, <2>2
    <3> QED
      BY <3>1, <3>2
  <2> QED
    BY <2>1, <2>2
<1>6. Codec!Digits = CHOOSE g : Is(g)
  BY DEF Codec!Digits
<1>7. Is(Codec!Digits)
  <2> HIDE DEF Is
  <2> QED
    BY <1>5, <1>6
<1>8. \A n \in Nat : Codec!Digits[n] = IF n = 0 THEN <<>> ELSE Append(Codec!Digits[n \div 10], n % 10)
  BY <1>7
<1> HIDE DEF Is
<1>9. \A n \in Nat : Codec!Digits[n] \in Ds
  <2> DEFINE T == {n \in Nat : Codec!Digits[n] \in Ds}
  <2>1. ASSUME NEW n \in Nat, \A m \in Nat : m < n => m \in T PROVE n \in T
    <3>1. CASE n = 0
      BY <1>3, <1>8, <3>1
    <3>2. CASE n # 0
      <4>1. Codec!Digits[n \div 10] \in Ds
        BY <1>1, <2>1, <3>2
      <4> QED
        BY <1>1, <1>2, <1>8, <3>2, <4>1
    <3> QED
      BY <3>1, <3>2
  <2> HIDE DEF T
  <2>2. \A n \in Nat : n \in T
    BY <2>1, EveryNumber
  <2> QED
    BY <2>2 DEF T
<1>10. Codec!Digits[0] = <<>>
  BY <1>8
<1>11. \A n \in Nat : n > 0 => Codec!Digits[n] = Append(Codec!Digits[n \div 10], n % 10)
  <2>1. \A n \in Nat : n > 0 => n # 0
    OBVIOUS
  <2> QED
    BY <1>8, <2>1
<1> QED
  BY <1>9, <1>10, <1>11 DEF Ds

\* Functions that are defined by recursion along a sequence.
RecursAlong(f, N, base, step) ==
    /\ f[0] = base
    /\ \A n \in 1..N : f[n] = step[<<n, f[n - 1]>>]

LEMMA AlongSequence ==
    ASSUME NEW N \in Nat, NEW S, NEW base \in S, NEW step \in [(1..N) \X S -> S]
    PROVE  \E f \in [0..N -> S] : RecursAlong(f, N, base, step)
<1> DEFINE D == 0..N
           smaller == [n \in D |-> IF n = 0 THEN 0 ELSE n - 1]
<1>1. /\ D \in SUBSET Nat /\ 0 \in D /\ smaller \in [D -> D] /\ D \ {0} = 1..N
      /\ \A n \in D \ {0} : smaller[n] < n /\ smaller[n] = n - 1
  OBVIOUS
<1> HIDE DEF D, smaller
<1>2. PICK f \in [D -> S] : Recurs(f, D, base, smaller, step)
  BY <1>1, Recursion
<1>3. f[0] = base /\ \A n \in D \ {0} : f[n] = step[<<n, f[smaller[n]]>>]
  BY <1>2 DEF Recurs
<1>4. \A n \in 1..N : f[n] = step[<<n, f[n - 1]>>]
  BY <1>1, <1>3
<1> QED
  BY <1>3, <1>4 DEF D, RecursAlong

\* What holds at the beginning of a sequence and goes on holding.
LEMMA AllAlong ==
    ASSUME NEW N \in Nat, NEW T, 0 \in T,
           \A n \in 1..N : n - 1 \in T => n \in T
    PROVE  \A n \in 0..N : n \in T
<1> DEFINE Q == {n \in Nat : n \in 0..N => n \in T}
<1>1. ASSUME NEW n \in Nat, \A m \in Nat : m < n => m \in Q, n \in 0..N PROVE n \in T
  <2>1. CASE n = 0
    BY <2>1
  <2>2. CASE n # 0
    <3>1. n - 1 \in Nat /\ n - 1 < n /\ n - 1 \in 0..N /\ n \in 1..N
      BY <1>1, <2>2
    <3> QED
      BY <1>1, <3>1
  <2> QED
    BY <2>1, <2>2
<1>2. \A n \in Nat : (\A m \in Nat : m < n => m \in Q) => n \in Q
  BY <1>1
<1> HIDE DEF Q
<1>3. \A n \in Nat : n \in Q
  BY <1>2, EveryNumber
<1>4. \A n \in 0..N : n \in Nat
  OBVIOUS
<1> QED
  BY <1>3, <1>4 DEF Q

LEMMA NumberOfMeans ==
    ASSUME NEW digits \in Seq(Nat)
    PROVE  \E v \in [0..Len(digits) -> Nat] :
              /\ v[0] = 0 /\ \A n \in 1..Len(digits) : v[n] = 10 * v[n - 1] + digits[n]
              /\ Codec!NumberOf(digits) = v[Len(digits)]
<1> DEFINE N == Len(digits)
           step == [z \in (1..N) \X Nat |-> 10 * z[2] + digits[z[1]]]
           Is(g) == g = [n \in 0..N |-> IF n = 0 THEN 0 ELSE 10 * g[n - 1] + digits[n]]
<1>1. N \in Nat /\ \A n \in 1..N : digits[n] \in Nat
  OBVIOUS
<1> HIDE DEF N
<1>2. step \in [(1..N) \X Nat -> Nat]
  BY <1>1
<1>3. PICK f \in [0..N -> Nat] : f[0] = 0 /\ \A n \in 1..N : f[n] = step[<<n, f[n - 1]>>]
  <2>1. N \in Nat /\ 0 \in Nat
    BY <1>1
  <2> HIDE DEF step, Is
  <2>2. \E f \in [0..N -> Nat] : RecursAlong(f, N, 0, step)
    BY <1>2, <2>1, AlongSequence
  <2> QED
    BY <2>2 DEF RecursAlong
<1>4. \A n \in 1..N : n - 1 \in 0..N /\ n # 0 /\ n \in 0..N
  BY <1>1
<1>5. \A n \in 1..N : f[n] = 10 * f[n - 1] + digits[n]
  BY <1>3, <1>4
<1>6. Is(f)
  BY <1>1, <1>3, <1>5
<1> DEFINE v == CHOOSE g : Is(g)
<1>7. Is(v) /\ Codec!NumberOf(digits) = v[N]
  <2>1. Codec!NumberOf(digits) = v[N]
    BY DEF Codec!NumberOf, N
  <2> HIDE DEF Is
  <2> QED
    BY <1>6, <2>1
<1> HIDE DEF v
<1>8. v[0] = 0 /\ \A n \in 1..N : v[n] = 10 * v[n - 1] + digits[n]
  <2>1. v = [n \in 0..N |-> IF n = 0 THEN 0 ELSE 10 * v[n - 1] + digits[n]]
    BY <1>7
  <2>2. 0 \in 0..N
    BY <1>1
  <2> HIDE DEF Is, step
  <2>3. \A n \in 1..N : v[n] = 10 * v[n - 1] + digits[n]
    BY <1>4, <2>1
  <2> QED
    BY <2>1, <2>2, <2>3
<1>9. \A n \in 0..N : v[n] \in Nat
  <2> DEFINE T == {n \in 0..N : v[n] \in Nat}
  <2>1. 0 \in T
    BY <1>1, <1>8
  <2>2. ASSUME NEW n \in 1..N, n - 1 \in T PROVE n \in T
    <3>2. n \in 0..N /\ digits[n] \in Nat /\ v[n - 1] \in Nat
      BY <1>1, <2>2
    <3>1. 10 * v[n - 1] + digits[n] \in Nat /\ n \in 0..N
      <4>1. \A a \in Nat, b \in Nat : 10 * a + b \in Nat
        OBVIOUS
      <4> QED
        BY <3>2, <4>1
    <3> QED
      BY <1>8, <3>1
  <2> HIDE DEF T
  <2>3. \A n \in 0..N : n \in T
    BY <1>1, <2>1, <2>2, AllAlong
  <2> QED
    BY <2>3 DEF T
<1>10. v \in [0..N -> Nat]
  BY <1>7, <1>9
<1> QED
  BY <1>7, <1>8, <1>10 DEF N

LEMMA NumberOfAppend ==
    ASSUME NEW digits \in Seq(Nat), NEW d \in Nat
    PROVE  /\ Codec!NumberOf(digits) \in Nat
           /\ Codec!NumberOf(Append(digits, d)) = 10 * Codec!NumberOf(digits) + d
<1> DEFINE N == Len(digits)
           more == Append(digits, d)
<1>1. /\ N \in Nat /\ more \in Seq(Nat) /\ Len(more) = N + 1 /\ more[N + 1] = d
      /\ \A n \in 1..N : more[n] = digits[n]
  OBVIOUS
<1>2. PICK v \in [0..N -> Nat] :
          /\ v[0] = 0 /\ \A n \in 1..N : v[n] = 10 * v[n - 1] + digits[n]
          /\ Codec!NumberOf(digits) = v[N]
  BY NumberOfMeans
<1> HIDE DEF more
<1>3. PICK w \in [0..Len(more) -> Nat] :
          /\ w[0] = 0 /\ \A n \in 1..Len(more) : w[n] = 10 * w[n - 1] + more[n]
          /\ Codec!NumberOf(more) = w[Len(more)]
  BY <1>1, NumberOfMeans
<1> HIDE DEF N
<1>4. \A n \in 0..N : v[n] = w[n]
  <2> DEFINE T == {n \in 0..N : v[n] = w[n]}
  <2>1. 0 \in T
    BY <1>1, <1>2, <1>3
  <2>2. ASSUME NEW n \in 1..N, n - 1 \in T PROVE n \in T
    <3>2. v[n - 1] = w[n - 1]
      BY <2>2
    <3>3. n \in 0..N /\ n \in 1..(N + 1)
      BY <1>1
    <3>1. n \in 0..N /\ n \in 1..Len(more) /\ more[n] = digits[n] /\ v[n - 1] = w[n - 1]
      BY <1>1, <3>2, <3>3
    <3> QED
      BY <1>2, <1>3, <3>1
  <2> HIDE DEF T
  <2>3. \A n \in 0..N : n \in T
    BY <1>1, <2>1, <2>2, AllAlong
  <2> QED
    BY <2>3 DEF T
<1>5. w[N + 1] = 10 * w[N] + d
  <2>1. N + 1 \in 1..Len(more) /\ (N + 1) - 1 = N
    BY <1>1
  <2> QED
    BY <1>1, <1>3, <2>1
<1>6. N \in 0..N
  BY <1>1
<1>7. Codec!NumberOf(more) = 10 * v[N] + d /\ v[N] \in Nat
  BY <1>1, <1>2, <1>3, <1>4, <1>5, <1>6
<1> QED
  BY <1>2, <1>7 DEF more

LEMMA DigitsAreNumber ==
    \A n \in Nat : Codec!NumberOf(Codec!Digits[n]) = n
<1> DEFINE T == {n \in Nat : Codec!NumberOf(Codec!Digits[n]) = n}
<1>1. Codec!NumberOf(<<>>) = 0
  <2>1. <<>> \in Seq(Nat) /\ Len(<<>>) = 0
    OBVIOUS
  <2> QED
    BY <2>1, NumberOfMeans
<1>2. ASSUME NEW n \in Nat, \A m \in Nat : m < n => m \in T PROVE n \in T
  <2>1. CASE n = 0
    BY <1>1, <2>1, DigitsMeans
  <2>2. CASE n # 0
    <3>1. PICK q \in Nat, r \in 0..9 : q = n \div 10 /\ r = n % 10 /\ q < n
      BY <2>2
    <3>2. n = 10 * q + r
      BY <3>1
    <3>3. Codec!Digits[q] \in Seq(Nat) /\ Codec!Digits[n] = Append(Codec!Digits[q], r)
      <4>1. Codec!Digits[q] \in Seq(0..9)
        BY DigitsMeans
      <4>2. Seq(0..9) \subseteq Seq(Nat)
        OBVIOUS
      <4>3. n > 0
        BY <2>2
      <4> QED
        BY <3>1, <4>1, <4>2, <4>3, DigitsMeans
    <3>4. Codec!NumberOf(Codec!Digits[q]) = q
      BY <1>2, <3>1
    <3>5. Codec!NumberOf(Codec!Digits[n]) = 10 * q + r
      BY <3>1, <3>3, <3>4, NumberOfAppend
    <3> QED
      BY <3>2, <3>5
  <2> QED
    BY <2>1, <2>2
<1> HIDE DEF T
<1>3. \A n \in Nat : n \in T
  BY <1>2, EveryNumber
<1> QED
  BY <1>3 DEF T

-----------------------------------------------------------------------------
\* Strings.

Letters == Codec!Characters \cup {"\\", "u"}

Plain(got) == [mode |-> "plain", got |-> got]
Readers == [mode : {"plain", "escape", "code", "bad"}, got : Seq(Codec!Characters)]

LEMMA ReadersGoOn ==
    ASSUME NEW state \in Readers, NEW c \in Letters
    PROVE  Codec!ReadCharacter(state, c) \in Readers
<1> DEFINE Texts == Seq(Codec!Characters)
<1>1. PICK m \in {"plain", "escape", "code", "bad"}, got \in Texts : state = [mode |-> m, got |-> got]
  BY DEF Readers
<1>2. \A d \in Codec!Characters : Append(got, d) \in Texts
  BY <1>1
<1>3. Codec!Named \subseteq Codec!Characters /\ "plain" \in Codec!Characters /\ "control" \in Codec!Characters
  BY DEF Codec!Characters
<1>4. Readers = [mode : {"plain", "escape", "code", "bad"}, got : Texts]
  BY DEF Readers
<1> HIDE DEF Texts
<1>5. CASE state.mode = "plain" /\ c = "\\"
  BY <1>1, <1>4, <1>5 DEF Codec!ReadCharacter
<1>6. CASE state.mode = "plain" /\ c = "plain"
  BY <1>1, <1>2, <1>3, <1>4, <1>6 DEF Codec!ReadCharacter
<1>7. CASE state.mode = "escape" /\ c = "u"
  BY <1>1, <1>4, <1>7 DEF Codec!ReadCharacter, Codec!Named
<1>8. CASE \/ state.mode = "escape" /\ c \in Codec!Named
           \/ state.mode = "code" /\ c = "control"
  <2>1. c \in Codec!Characters /\ c # "u"
    BY <1>3, <1>8 DEF Codec!Named
  <2> QED
    BY <1>1, <1>2, <1>4, <1>8, <2>1 DEF Codec!ReadCharacter
<1>9. CASE ~ \/ state.mode = "plain" /\ c \in {"\\", "plain"}
             \/ state.mode = "escape" /\ c \in Codec!Named \cup {"u"}
             \/ state.mode = "code" /\ c = "control"
  BY <1>1, <1>4, <1>9 DEF Codec!ReadCharacter
<1> QED
  BY <1>5, <1>6, <1>7, <1>8, <1>9

LEMMA ReadStringMeans ==
    ASSUME NEW text \in Seq(Letters)
    PROVE  \E r \in [0..Len(text) -> Readers] :
              /\ r[0] = Plain(<<>>)
              /\ \A n \in 1..Len(text) : r[n] = Codec!ReadCharacter(r[n - 1], text[n])
              /\ Codec!ReadString(text) = r[Len(text)]
<1> DEFINE N == Len(text)
           step == [z \in (1..N) \X Readers |-> Codec!ReadCharacter(z[2], text[z[1]])]
           Is(g) == g = [n \in 0..N |-> IF n = 0 THEN Plain(<<>>)
                                        ELSE Codec!ReadCharacter(g[n - 1], text[n])]
<1>1. N \in Nat /\ 0 \in Nat /\ \A n \in 1..N : text[n] \in Letters
  OBVIOUS
<1>2. Plain(<<>>) \in Readers
  BY DEF Plain, Readers
<1> HIDE DEF N
<1>3. step \in [(1..N) \X Readers -> Readers]
  BY <1>1, ReadersGoOn
<1>4. PICK f \in [0..N -> Readers] : RecursAlong(f, N, Plain(<<>>), step)
  <2> HIDE DEF step, Is
  <2> QED
    BY <1>1, <1>2, <1>3, AlongSequence
<1>5. \A n \in 1..N : n - 1 \in 0..N /\ n # 0 /\ n \in 0..N
  BY <1>1
<1>6. \A n \in 0..N : n = 0 \/ n \in 1..N
  BY <1>1
<1>7. f[0] = Plain(<<>>) /\ \A n \in 1..N : f[n] = Codec!ReadCharacter(f[n - 1], text[n])
  <2>1. \A n \in 1..N : <<n, f[n - 1]>> \in (1..N) \X Readers
    BY <1>5
  <2> QED
    BY <1>4, <2>1 DEF RecursAlong
<1>8. Is(f)
  BY <1>5, <1>6, <1>7
<1> DEFINE r == CHOOSE g : Is(g)
<1>9. Is(r) /\ Codec!ReadString(text) = r[N]
  <2>1. Codec!ReadString(text) = r[N]
    BY DEF Codec!ReadString, N, Plain
  <2> HIDE DEF Is
  <2> QED
    BY <1>8, <2>1
<1> HIDE DEF r
<1>10. r[0] = Plain(<<>>) /\ \A n \in 1..N : r[n] = Codec!ReadCharacter(r[n - 1], text[n])
  BY <1>1, <1>5, <1>9
<1>11. \A n \in 0..N : r[n] \in Readers
  <2> DEFINE T == {n \in 0..N : r[n] \in Readers}
  <2>1. 0 \in T
    BY <1>1, <1>2, <1>10
  <2>2. ASSUME NEW n \in 1..N, n - 1 \in T PROVE n \in T
    <3>1. r[n - 1] \in Readers /\ text[n] \in Letters /\ n \in 0..N
      BY <1>1, <1>5, <2>2
    <3>2. Codec!ReadCharacter(r[n - 1], text[n]) \in Readers
      BY <3>1, ReadersGoOn
    <3> QED
      BY <1>10, <3>1, <3>2
  <2> HIDE DEF T
  <2>3. \A n \in 0..N : n \in T
    BY <1>1, <2>1, <2>2, AllAlong
  <2> QED
    BY <2>3 DEF T
<1>12. r \in [0..N -> Readers]
  BY <1>9, <1>11
<1> QED
  BY <1>9, <1>10, <1>12 DEF N

\* A reader reads one letter after the other.
LEMMA ReadStringAppend ==
    ASSUME NEW text \in Seq(Letters), NEW c \in Letters
    PROVE  /\ Codec!ReadString(text) \in Readers
           /\ Codec!ReadString(Append(text, c)) = Codec!ReadCharacter(Codec!ReadString(text), c)
<1> DEFINE N == Len(text)
           more == Append(text, c)
<1>1. /\ N \in Nat /\ more \in Seq(Letters) /\ Len(more) = N + 1 /\ more[N + 1] = c
      /\ \A n \in 1..N : more[n] = text[n]
  OBVIOUS
<1>2. PICK v \in [0..N -> Readers] :
          /\ v[0] = Plain(<<>>) /\ \A n \in 1..N : v[n] = Codec!ReadCharacter(v[n - 1], text[n])
          /\ Codec!ReadString(text) = v[N]
  BY ReadStringMeans
<1> HIDE DEF more
<1>3. PICK w \in [0..Len(more) -> Readers] :
          /\ w[0] = Plain(<<>>)
          /\ \A n \in 1..Len(more) : w[n] = Codec!ReadCharacter(w[n - 1], more[n])
          /\ Codec!ReadString(more) = w[Len(more)]
  BY <1>1, ReadStringMeans
<1> HIDE DEF N
<1>4. \A n \in 0..N : v[n] = w[n]
  <2> DEFINE T == {n \in 0..N : v[n] = w[n]}
  <2>1. 0 \in T
    BY <1>1, <1>2, <1>3
  <2>2. ASSUME NEW n \in 1..N, n - 1 \in T PROVE n \in T
    <3>1. v[n - 1] = w[n - 1]
      BY <2>2
    <3>2. n \in 0..N /\ n \in 1..(N + 1)
      BY <1>1
    <3>3. n \in 0..N /\ n \in 1..Len(more) /\ more[n] = text[n]
      BY <1>1, <3>2
    <3>4. v[n] = Codec!ReadCharacter(v[n - 1], text[n]) /\ w[n] = Codec!ReadCharacter(w[n - 1], more[n])
      BY <1>2, <1>3, <3>3
    <3> QED
      BY <3>1, <3>3, <3>4
  <2> HIDE DEF T
  <2>3. \A n \in 0..N : n \in T
    BY <1>1, <2>1, <2>2, AllAlong
  <2> QED
    BY <2>3 DEF T
<1>5. w[N + 1] = Codec!ReadCharacter(w[N], c)
  <2>1. N + 1 \in 1..Len(more) /\ (N + 1) - 1 = N
    BY <1>1
  <2> QED
    BY <1>1, <1>3, <2>1
<1>6. N \in 0..N
  BY <1>1
<1>7. Codec!ReadString(more) = Codec!ReadCharacter(v[N], c) /\ v[N] \in Readers
  BY <1>1, <1>2, <1>3, <1>4, <1>5, <1>6
<1> QED
  BY <1>2, <1>7 DEF more

\* What a character is written as, and what is read of it.
LEMMA CharacterIsRead ==
    ASSUME NEW text \in Seq(Letters), NEW got \in Seq(Codec!Characters),
           Codec!ReadString(text) = Plain(got), NEW c \in Codec!Characters
    PROVE  /\ text \o Codec!EscapeCharacter(c) \in Seq(Letters)
           /\ Codec!ReadString(text \o Codec!EscapeCharacter(c)) = Plain(Append(got, c))
<1>1. c \in Letters /\ "\\" \in Letters /\ "u" \in Letters
  BY DEF Letters
<1>2. "\\" \notin Codec!Named /\ "u" \notin Codec!Named /\ "control" \notin Codec!Named /\ "plain" \notin Codec!Named
  BY DEF Codec!Named
<1>3. CASE c = "plain"
  <2>1. Codec!EscapeCharacter(c) = <<c>>
    BY <1>2, <1>3 DEF Codec!EscapeCharacter
  <2>2. text \o <<c>> = Append(text, c) /\ Append(text, c) \in Seq(Letters)
    BY <1>1
  <2>3. Codec!ReadCharacter(Plain(got), c) = Plain(Append(got, c))
    BY <1>3 DEF Codec!ReadCharacter, Plain
  <2> QED
    BY <1>1, <2>1, <2>2, <2>3, ReadStringAppend
<1> DEFINE t1 == Append(text, "\\")
           Escaping == [mode |-> "escape", got |-> got]
<1>4. t1 \in Seq(Letters) /\ Codec!ReadString(t1) = Escaping
  <2>1. Codec!ReadCharacter(Plain(got), "\\") = Escaping
    BY DEF Codec!ReadCharacter, Plain
  <2> QED
    BY <1>1, <2>1, ReadStringAppend
<1>5. CASE c \in Codec!Named
  <2>1. Codec!EscapeCharacter(c) = <<"\\", c>>
    BY <1>2, <1>5 DEF Codec!EscapeCharacter
  <2>2. text \o <<"\\", c>> = Append(t1, c) /\ Append(t1, c) \in Seq(Letters)
    BY <1>1, <1>4
  <2>3. Codec!ReadCharacter(Escaping, c) = Plain(Append(got, c))
    BY <1>2, <1>5 DEF Codec!ReadCharacter, Plain
  <2> HIDE DEF t1
  <2> QED
    BY <1>1, <1>4, <2>1, <2>2, <2>3, ReadStringAppend
<1>6. CASE c = "control"
  <2> DEFINE t2 == Append(t1, "u")
             Coding == [mode |-> "code", got |-> got]
  <2>1. Codec!EscapeCharacter(c) = <<"\\", "u", c>>
    BY <1>2, <1>6 DEF Codec!EscapeCharacter
  <2>2. text \o <<"\\", "u", c>> = Append(t2, c) /\ t2 \in Seq(Letters) /\ Append(t2, c) \in Seq(Letters)
    BY <1>1, <1>4
  <2>3. Codec!ReadCharacter(Escaping, "u") = Coding
    BY <1>2 DEF Codec!ReadCharacter
  <2>4. Codec!ReadCharacter(Coding, c) = Plain(Append(got, c))
    BY <1>6 DEF Codec!ReadCharacter, Plain
  <2>5. Codec!ReadString(t2) = Coding
    <3> HIDE DEF t1
    <3> QED
      BY <1>1, <1>4, <2>3, ReadStringAppend
  <2> HIDE DEF t2
  <2> QED
    BY <1>1, <2>1, <2>2, <2>4, <2>5, ReadStringAppend
<1> QED
  BY <1>3, <1>5, <1>6 DEF Codec!Characters

LEMMA EscapeStringMeans ==
    ASSUME NEW s \in Seq(Codec!Characters)
    PROVE  \E e \in [0..Len(s) -> Seq(Letters)] :
              /\ e[0] = <<>>
              /\ \A n \in 1..Len(s) : e[n] = e[n - 1] \o Codec!EscapeCharacter(s[n])
              /\ Codec!EscapeString(s) = e[Len(s)]
<1> DEFINE N == Len(s)
           Texts == Seq(Letters)
           step == [z \in (1..N) \X Texts |-> z[2] \o Codec!EscapeCharacter(s[z[1]])]
           Is(g) == g = [n \in 0..N |-> IF n = 0 THEN <<>> ELSE g[n - 1] \o Codec!EscapeCharacter(s[n])]
<1>1. N \in Nat /\ 0 \in Nat /\ \A n \in 1..N : s[n] \in Codec!Characters
  OBVIOUS
<1>2. <<>> \in Texts
  OBVIOUS
<1>3. ASSUME NEW t \in Texts, NEW c \in Codec!Characters PROVE t \o Codec!EscapeCharacter(c) \in Texts
  <2>1. c \in Letters /\ "\\" \in Letters /\ "u" \in Letters
    BY DEF Letters
  <2>2. Codec!EscapeCharacter(c) \in {<<c>>, <<"\\", c>>, <<"\\", "u", c>>}
    BY DEF Codec!EscapeCharacter, Codec!Characters
  <2>3. <<c>> \in Texts /\ <<"\\", c>> \in Texts /\ <<"\\", "u", c>> \in Texts
    BY <2>1
  <2>4. Codec!EscapeCharacter(c) \in Texts
    BY <2>2, <2>3
  <2> QED
    BY <2>4
<1> HIDE DEF N, Texts
<1>4. step \in [(1..N) \X Texts -> Texts]
  BY <1>1, <1>3
<1>5. PICK f \in [0..N -> Texts] : RecursAlong(f, N, <<>>, step)
  <2> HIDE DEF step, Is
  <2> QED
    BY <1>1, <1>2, <1>4, AlongSequence
<1>6. \A n \in 1..N : n - 1 \in 0..N /\ n # 0 /\ n \in 0..N
  BY <1>1
<1>7. \A n \in 0..N : n = 0 \/ n \in 1..N
  BY <1>1
<1>8. f[0] = <<>> /\ \A n \in 1..N : f[n] = f[n - 1] \o Codec!EscapeCharacter(s[n])
  <2>1. \A n \in 1..N : <<n, f[n - 1]>> \in (1..N) \X Texts
    BY <1>6
  <2> QED
    BY <1>5, <2>1 DEF RecursAlong
<1>9. Is(f)
  BY <1>6, <1>7, <1>8
<1> DEFINE e == CHOOSE g : Is(g)
<1>10. Is(e) /\ Codec!EscapeString(s) = e[N]
  <2>1. Codec!EscapeString(s) = e[N]
    BY DEF Codec!EscapeString, N
  <2> HIDE DEF Is
  <2> QED
    BY <1>9, <2>1
<1> HIDE DEF e
<1>11. e[0] = <<>> /\ \A n \in 1..N : e[n] = e[n - 1] \o Codec!EscapeCharacter(s[n])
  BY <1>1, <1>6, <1>10
<1>12. \A n \in 0..N : e[n] \in Texts
  <2> DEFINE T == {n \in 0..N : e[n] \in Texts}
  <2>1. 0 \in T
    BY <1>1, <1>2, <1>11
  <2>2. ASSUME NEW n \in 1..N, n - 1 \in T PROVE n \in T
    <3>1. e[n - 1] \in Texts /\ s[n] \in Codec!Characters /\ n \in 0..N
      BY <1>1, <1>6, <2>2
    <3> QED
      BY <1>3, <1>11, <3>1
  <2> HIDE DEF T
  <2>3. \A n \in 0..N : n \in T
    BY <1>1, <2>1, <2>2, AllAlong
  <2> QED
    BY <2>3 DEF T
<1>13. e \in [0..N -> Texts]
  BY <1>10, <1>12
<1> QED
  BY <1>10, <1>11, <1>13 DEF N, Texts

LEMMA EscapedStringsRead ==
    ASSUME NEW s \in Seq(Codec!Characters)
    PROVE  Codec!ReadString(Codec!EscapeString(s)) = Plain(s)
<1> DEFINE N == Len(s)
           Upto(n) == SubSeq(s, 1, n)
<1>1. /\ N \in Nat /\ Upto(0) = <<>> /\ Upto(N) = s
      /\ \A n \in 0..N : Upto(n) \in Seq(Codec!Characters)
  OBVIOUS
<1>2. ASSUME NEW n \in 1..N
      PROVE  n - 1 \in 0..N /\ n \in 0..N /\ s[n] \in Codec!Characters /\ Upto(n) = Append(Upto(n - 1), s[n])
  OBVIOUS
<1>3. PICK e \in [0..N -> Seq(Letters)] :
          /\ e[0] = <<>>
          /\ \A n \in 1..N : e[n] = e[n - 1] \o Codec!EscapeCharacter(s[n])
          /\ Codec!EscapeString(s) = e[N]
  BY EscapeStringMeans
<1> HIDE DEF N, Upto
<1> DEFINE T == {n \in 0..N : Codec!ReadString(e[n]) = Plain(Upto(n))}
<1>4. 0 \in T
  <2>1. <<>> \in Seq(Letters) /\ Len(<<>>) = 0
    OBVIOUS
  <2>2. Codec!ReadString(<<>>) = Plain(<<>>)
    BY <2>1, ReadStringMeans
  <2> QED
    BY <1>1, <1>3, <2>2
<1>5. ASSUME NEW n \in 1..N, n - 1 \in T PROVE n \in T
  <2>1. /\ Codec!ReadString(e[n - 1]) = Plain(Upto(n - 1)) /\ e[n - 1] \in Seq(Letters)
        /\ Upto(n - 1) \in Seq(Codec!Characters)
    BY <1>1, <1>2, <1>3, <1>5
  <2>2. Codec!ReadString(e[n - 1] \o Codec!EscapeCharacter(s[n])) = Plain(Append(Upto(n - 1), s[n]))
    BY <1>2, <2>1, CharacterIsRead
  <2> QED
    BY <1>2, <1>3, <2>2
<1> HIDE DEF T
<1>6. \A n \in 0..N : n \in T
  BY <1>1, <1>4, <1>5, AllAlong
<1>7. N \in T
  BY <1>1, <1>6
<1> QED
  BY <1>1, <1>3, <1>7 DEF T

-----------------------------------------------------------------------------
\* Messages.

LEMMA NumbersRead ==
    ASSUME MaxInt \in Nat, NEW i \in Codec!MinInt..MaxInt
    PROVE  IF i = Codec!MinInt THEN Codec!Itoa(i) = <<Codec!Minus>>
                               ELSE Codec!ReadNumber(Codec!Itoa(i)) = i
<1>1. Codec!MinInt = -MaxInt - 1 /\ Codec!MinInt \in Int /\ i \in Int /\ Codec!Minus = -1
  BY DEF Codec!MinInt, Codec!Minus
<1>2. ASSUME NEW n \in Nat, n > 0
      PROVE  /\ Codec!Digits[n] \in Seq(0..9) /\ Len(Codec!Digits[n]) > 0
             /\ Codec!NumberOf(Codec!Digits[n]) = n
  <2>1. PICK q \in Nat, r \in 0..9 : q = n \div 10 /\ r = n % 10
    OBVIOUS
  <2>2. Codec!Digits[q] \in Seq(0..9) /\ Codec!Digits[n] = Append(Codec!Digits[q], r)
    BY <1>2, <2>1, DigitsMeans
  <2>3. PICK d \in Seq(0..9) : d = Codec!Digits[q] /\ Codec!Digits[n] = Append(d, r)
    BY <2>2
  <2>4. Append(d, r) \in Seq(0..9) /\ Len(Append(d, r)) > 0
    OBVIOUS
  <2>5. Codec!NumberOf(Codec!Digits[n]) = n
    BY DigitsAreNumber
  <2> QED
    BY <2>3, <2>4, <2>5
<1>3. CASE i = 0
  <2>1. Codec!Itoa(i) = <<0>> /\ i # Codec!MinInt
    BY <1>1, <1>3 DEF Codec!Itoa
  <2>2. Codec!NumberOf(<<0>>) = 0
    <3>1. Codec!NumberOf(<<>>) = 0
      BY DigitsAreNumber, DigitsMeans
    <3>2. <<>> \in Seq(Nat) /\ <<0>> = Append(<<>>, 0) /\ 0 \in Nat
      OBVIOUS
    <3>3. Codec!NumberOf(<<0>>) = 10 * Codec!NumberOf(<<>>) + 0
      BY <3>2, NumberOfAppend
    <3> QED
      BY <3>1, <3>3
  <2>3. <<0>>[1] = 0
    OBVIOUS
  <2> QED
    BY <1>1, <1>3, <2>1, <2>2, <2>3 DEF Codec!ReadNumber
<1>4. CASE i > 0
  <2>1. i \in Nat /\ i # Codec!MinInt /\ ~(i < 0) /\ i # 0
    BY <1>1, <1>4
  <2>2. PICK d \in Seq(0..9) : d = Codec!Digits[i] /\ Len(d) > 0 /\ Codec!NumberOf(d) = i
    BY <1>2, <1>4, <2>1
  <2>3. Codec!Itoa(i) = d
    <3>1. Codec!Itoa(i) = <<>> \o d
      BY <1>4, <2>1, <2>2 DEF Codec!Itoa
    <3> QED
      BY <3>1
  <2>4. d[1] # Codec!Minus
    BY <1>1, <2>2
  <2> QED
    BY <2>1, <2>2, <2>3, <2>4 DEF Codec!ReadNumber
<1>5. CASE i < 0 /\ i # Codec!MinInt
  <2>1. PICK n \in Nat : n = -i /\ n > 0 /\ i = -n
    BY <1>1, <1>5
  <2>2. PICK d \in Seq(0..9) : d = Codec!Digits[n] /\ Len(d) > 0 /\ Codec!NumberOf(d) = n
    BY <1>2, <2>1
  <2>3. Codec!Negate(i) = n
    BY <1>5, <2>1 DEF Codec!Negate
  <2>4. Codec!Itoa(i) = <<Codec!Minus>> \o d
    BY <1>1, <1>5, <2>1, <2>2, <2>3 DEF Codec!Itoa
  <2>5. (<<Codec!Minus>> \o d)[1] = Codec!Minus /\ Tail(<<Codec!Minus>> \o d) = d
    BY <1>1
  <2> QED
    BY <1>5, <2>1, <2>2, <2>4, <2>5 DEF Codec!ReadNumber
<1>6. CASE i = Codec!MinInt
  <2>1. i < 0 /\ i # 0 /\ Codec!Negate(i) = i
    BY <1>1, <1>6 DEF Codec!Negate
  <2>2. ~(Codec!Negate(i) > 0)
    BY <1>1, <2>1
  <2>3. Codec!Itoa(i) = <<Codec!Minus>> \o <<>>
    BY <2>1, <2>2 DEF Codec!Itoa
  <2>4. <<Codec!Minus>> \o <<>> = <<Codec!Minus>>
    BY <1>1
  <2> QED
    BY <1>6, <2>3, <2>4
<1> QED
  BY <1>1, <1>3, <1>4, <1>5, <1>6

(***************************************************************************)
(* An error of any code and any message, with or without data, is read     *)
(* back with its code, unless that is the least integer, and its message.  *)
(***************************************************************************)
THEOREM ErrorsRead ==
    ASSUME MaxInt \in Nat,
           NEW e, e.code \in Codec!MinInt..MaxInt, e.message \in Seq(Codec!Characters)
    PROVE  Codec!MarshalledErrorsRead(e)
<1> DEFINE code == Codec!Itoa(e.code)
           message == Codec!EscapeString(e.message)
           data == Codec!Field("data", e.data)
<1>1. Codec!MarshalError(e)[1][2] = code /\ Codec!MarshalError(e)[2][2] = message
  <2>1. data = <<>> \/ \E x : data = <<x>>
    BY DEF Codec!Field
  <2>2. Codec!MarshalError(e) = <<<<"code", code>>, <<"message", message>>>> \o data
    BY DEF Codec!MarshalError
  <2> HIDE DEF code, message, data
  <2>3. PICK fields : fields = <<<<"code", code>>, <<"message", message>>>> \o data
    OBVIOUS
  <2>4. fields[1] = <<"code", code>> /\ fields[2] = <<"message", message>>
    BY <2>1, <2>3
  <2> QED
    BY <2>2, <2>3, <2>4
<1>2. Codec!ReadString(message) = Plain(e.message)
  BY EscapedStringsRead
<1>3. IF e.code = Codec!MinInt THEN code = <<Codec!Minus>> ELSE Codec!ReadNumber(code) = e.code
  BY NumbersRead
<1> HIDE DEF code, message
<1> QED
  BY <1>1, <1>2, <1>3 DEF Codec!MarshalledErrorsRead, Plain

-----------------------------------------------------------------------------
(***************************************************************************)
(* The full-featured server.                                               *)
(*                                                                         *)
(* What the subscription manager and the notifier promise alone they keep  *)
(* composed: every step of the server is one of theirs, or leaves them as  *)
(* they are, so that their own invariants, proved in NotificationProofs    *)
(* and taken from there, are kept (Composed).  The rest is about what they *)
(* share: the two maps hold the same profiles (Profiled), whom a message   *)
(* is for was initialized (Addressed), and the queue is closed by no one   *)
(* but the server's Stop (Staged).                                         *)
(***************************************************************************)
CONSTANTS Ids, Clients, Uris, MaxPerClient, QueueCap, MaxEvents, NoId, ClientKinds, Asked, Nobody
VARIABLES live, info, used, byClient, byMethod, handlers, clock, mutex, todo, target,
          manager, loop, published, eventChan, current, route, seenId, spawned, delivered,
          clientInfo, stale, handlerCount, phase, closed, queue, accepted, nLoop, message,
          held, untried, sends, nDelivered, fatal,
          profiles, fallbacks, writing, pending, asking, answer, advertised, stage

F == INSTANCE FullFeaturedServer
Parts == INSTANCE NotificationProofs WITH
    Methods <- {"resources/subscribe"}, EventTypes <- {"resource/changed"}, MaxClock <- 0,
    NotifiedClients <- Clients, Names <- Clients \cup Ids, Senders <- F!Senders, Transports <- {"transport"},
    Features <- {{}}, QueueSize <- 1, MaxAccepted <- MaxEvents, MaxHandlers <- 1

\* "experimental.discovery" is a capability; the methods' prefix is "discovery".
ServerOptions ==
    /\ MaxPerClient \in Nat /\ QueueCap \in Nat /\ MaxEvents \in Nat
    /\ NoId \notin Ids /\ Clients # {} /\ Uris # {}
    /\ "experimental.discovery" \notin Asked

\* A client that waits for its fallback handler's answer was refused, by a
\* profile it has been told of, and its present one is another such.
Profiled ==
    /\ fallbacks = profiles
    /\ DOMAIN asking = Clients /\ DOMAIN answer = Clients /\ DOMAIN advertised = Clients
    /\ \A c \in Clients :
          /\ IsFiniteSet(advertised[c])
          /\ asking[c] # F!NotAsking =>
                /\ asking[c] \in Asked /\ c \in DOMAIN profiles /\ profiles[c] \in advertised[c]
                /\ \E p \in advertised[c] :
                      ~F!CheckFeatureSupport(p, F!MethodToFeature(asking[c])).supported

Addressed ==
    /\ DOMAIN clientInfo \subseteq DOMAIN profiles
    /\ nLoop \in {"touch", "try"} => message.to \in DOMAIN profiles
    /\ \A i \in 1..Len(nDelivered) : nDelivered[i].to \in DOMAIN profiles

Staged ==
    /\ stage \in {"new", "ready", "started", "stopping", "stopped"}
    /\ stage \in {"new", "ready"} => phase = "new"
    /\ stage = "started" => phase = "running"
    /\ closed => stage \in {"stopping", "stopped"}
    /\ \A s \in F!Senders : sends[s].pc = "panicked" => closed

Composed == Parts!IInv /\ Parts!NotifierInv

ServerInv == Composed /\ Profiled /\ F!RefusalsJustified /\ Addressed /\ Staged

LEMMA SameSubscriptions ==
    /\ F!S!Init <=> Parts!Init
    /\ F!S!Start <=> Parts!Start
    /\ F!S!StopCancel <=> Parts!StopCancel
    /\ F!S!StopReturn <=> Parts!StopReturn
    /\ F!S!LoopStep <=> Parts!LoopStep
    /\ \A m : F!S!RegisterHandler(m) <=> Parts!RegisterHandler(m)
    /\ \A id, c, m, u : F!S!Subscribe(id, c, m, u) <=> Parts!Subscribe(id, c, m, u)
    /\ \A id : F!S!Unsubscribe(id) <=> Parts!Unsubscribe(id)
    /\ \A type, u : F!S!PublishEvent(type, u) <=> Parts!PublishEvent(type, u)
    /\ \A call : F!S!CallHandler(call) <=> Parts!CallHandler(call)
<1> USE DEF F!S!indexVars, F!S!writerVars, F!S!envVars, F!S!loopVars, F!S!queueVars,
            F!S!fanVars, F!S!callVars, F!S!eventVars, Parts!indexVars, Parts!writerVars,
            Parts!envVars, Parts!loopVars, Parts!queueVars, Parts!fanVars, Parts!callVars,
            Parts!eventVars
<1>1. F!S!Init <=> Parts!Init
  BY DEF F!S!Init, Parts!Init, F!S!Subscription, Parts!Subscription
<1>2. /\ F!S!Start <=> Parts!Start
      /\ F!S!StopCancel <=> Parts!StopCancel
      /\ F!S!StopReturn <=> Parts!StopReturn
  BY DEF F!S!Start, Parts!Start, F!S!StopCancel, Parts!StopCancel, F!S!StopReturn, Parts!StopReturn
<1>3. F!S!CurrentMethod = Parts!CurrentMethod
  BY DEF F!S!CurrentMethod, Parts!CurrentMethod, F!S!EventTypeToMethod,
         Parts!EventTypeToMethod, F!S!ResourceMethod, Parts!ResourceMethod
<1>4. F!S!LoopStep <=> Parts!LoopStep
  <2>1. F!S!HandleNext <=> Parts!HandleNext
    BY <1>3 DEF F!S!HandleNext, Parts!HandleNext, F!S!MatchesSubscription,
         Parts!MatchesSubscription, F!S!ResourceMethod, Parts!ResourceMethod
  <2>2. /\ F!S!ExitLoop <=> Parts!ExitLoop
        /\ F!S!TakeEvent <=> Parts!TakeEvent
        /\ F!S!BeginHandle <=> Parts!BeginHandle
        /\ F!S!EndHandle <=> Parts!EndHandle
    BY <1>3 DEF F!S!ExitLoop, Parts!ExitLoop, F!S!TakeEvent, Parts!TakeEvent, F!S!BeginHandle,
         Parts!BeginHandle, F!S!EndHandle, Parts!EndHandle
  <2> QED
    BY <2>1, <2>2 DEF F!S!LoopStep, Parts!LoopStep
<1>5. /\ \A m : F!S!RegisterHandler(m) <=> Parts!RegisterHandler(m)
      /\ \A call : F!S!CallHandler(call) <=> Parts!CallHandler(call)
      /\ \A type, u : F!S!PublishEvent(type, u) <=> Parts!PublishEvent(type, u)
  BY DEF F!S!RegisterHandler, Parts!RegisterHandler, F!S!CallHandler, Parts!CallHandler,
         F!S!PublishEvent, Parts!PublishEvent
<1>6. \A id, c, m, u : F!S!Subscribe(id, c, m, u) <=> Parts!Subscribe(id, c, m, u)
  BY DEF F!S!Subscribe, Parts!Subscribe, F!S!ValidMethods, Parts!ValidMethods,
         F!S!ResourceMethod, Parts!ResourceMethod
<1>7. \A id : F!S!Unsubscribe(id) <=> Parts!Unsubscribe(id)
  <2>1. \A s, e : F!S!RemoveFirst(s, e) = Parts!RemoveFirst(s, e)
    BY DEF F!S!RemoveFirst, Parts!RemoveFirst, F!S!RemoveAt, Parts!RemoveAt,
           F!S!SelectInSeq, Parts!SelectInSeq, F!S!Min, Parts!Min
  <2> QED
    BY <2>1 DEF F!S!Unsubscribe, Parts!Unsubscribe
<1> QED
  BY <1>1, <1>2, <1>4, <1>5, <1>6, <1>7

\* The steps of the subscription manager and those of the notifier.
LEMMA SameNotifier ==
    /\ F!N!Init <=> Parts!N!Init
    /\ F!N!Start <=> Parts!N!Start
    /\ F!N!Stop <=> Parts!N!Stop
    /\ F!N!StopClose <=> Parts!N!StopClose
    /\ F!N!LoopStep <=> Parts!N!LoopStep
    /\ \A t : F!N!RegisterHandler(t) <=> Parts!N!RegisterHandler(t)
    /\ \A c, supports : F!N!RegisterClient(c, supports) <=> Parts!N!RegisterClient(c, supports)
    /\ \A s, to : F!N!SendToClient(s, to) <=> Parts!N!SendToClient(s, to)
    /\ \A s : F!N!Broadcast(s) <=> Parts!N!Broadcast(s)
    /\ \A s : F!N!SendStep(s) <=> Parts!N!SendStep(s)
    /\ F!N!DeliveredOnceInOrder <=> Parts!N!DeliveredOnceInOrder
<1> USE DEF F!N!tableVars, F!N!queueVars, F!N!loopVars, F!N!Registered,
            Parts!N!tableVars, Parts!N!queueVars, Parts!N!loopVars, Parts!N!Registered
<1>1. F!N!Init <=> Parts!N!Init
  BY DEF F!N!Init, Parts!N!Init, F!N!NoMessage, Parts!N!NoMessage, F!N!Idle, Parts!N!Idle
<1>2. /\ F!N!Start <=> Parts!N!Start
      /\ F!N!Stop <=> Parts!N!Stop
      /\ F!N!StopClose <=> Parts!N!StopClose
  BY DEF F!N!Start, Parts!N!Start, F!N!Stop, Parts!N!Stop, F!N!StopClose, Parts!N!StopClose
<1>3. F!N!LoopStep <=> Parts!N!LoopStep
  <2>1. F!N!NextHandlers = Parts!N!NextHandlers
    BY DEF F!N!NextHandlers, Parts!N!NextHandlers
  <2>2. \A h : /\ F!N!HandlerAccepts(h) <=> Parts!N!HandlerAccepts(h)
               /\ F!N!HandlerFails(h) <=> Parts!N!HandlerFails(h)
    BY <2>1 DEF F!N!HandlerAccepts, Parts!N!HandlerAccepts, F!N!HandlerFails, Parts!N!HandlerFails
  <2>3. /\ F!N!ExitLoop <=> Parts!N!ExitLoop
        /\ F!N!TakeMessage <=> Parts!N!TakeMessage
        /\ F!N!LookUp <=> Parts!N!LookUp
        /\ F!N!TouchClient <=> Parts!N!TouchClient
        /\ F!N!Undelivered <=> Parts!N!Undelivered
    BY DEF F!N!ExitLoop, Parts!N!ExitLoop, F!N!TakeMessage, Parts!N!TakeMessage, F!N!LookUp,
           Parts!N!LookUp, F!N!TouchClient, Parts!N!TouchClient, F!N!Undelivered,
           Parts!N!Undelivered
  <2> QED
    BY <2>2, <2>3 DEF F!N!LoopStep, Parts!N!LoopStep
<1>4. /\ \A t : F!N!RegisterHandler(t) <=> Parts!N!RegisterHandler(t)
      /\ \A c, supports : F!N!RegisterClient(c, supports) <=> Parts!N!RegisterClient(c, supports)
  BY DEF F!N!RegisterHandler, Parts!N!RegisterHandler, F!N!RegisterClient, Parts!N!RegisterClient
<1>5. /\ \A s, to : F!N!SendToClient(s, to) <=> Parts!N!SendToClient(s, to)
      /\ \A s : F!N!Broadcast(s) <=> Parts!N!Broadcast(s)
  BY DEF F!N!SendToClient, Parts!N!SendToClient, F!N!Broadcast, Parts!N!Broadcast,
         F!N!BeginSend, Parts!N!BeginSend
<1>6. \A s : F!N!SendStep(s) <=> Parts!N!SendStep(s)
  <2>1. \A s, to, outcome : F!N!Sent(s, to, outcome) <=> Parts!N!Sent(s, to, outcome)
    BY DEF F!N!Sent, Parts!N!Sent
  <2>2. \A s, to : /\ F!N!Enqueue(s, to) <=> Parts!N!Enqueue(s, to)
                   /\ F!N!SendTimeout(s, to) <=> Parts!N!SendTimeout(s, to)
                   /\ F!N!SendPanics(s, to) <=> Parts!N!SendPanics(s, to)
    BY <2>1 DEF F!N!Enqueue, Parts!N!Enqueue, F!N!SendTimeout, Parts!N!SendTimeout,
                F!N!SendPanics, Parts!N!SendPanics
  <2> QED
    BY <2>2 DEF F!N!SendStep, Parts!N!SendStep
<1>7. F!N!DeliveredOnceInOrder <=> Parts!N!DeliveredOnceInOrder
  BY DEF F!N!DeliveredOnceInOrder, Parts!N!DeliveredOnceInOrder
<1> QED
  BY <1>1, <1>2, <1>3, <1>4, <1>5, <1>6, <1>7

LEMMA Subscribing ==
    ASSUME F!Next
    PROVE  [Parts!Next]_(Parts!vars)
<1>0. CASE UNCHANGED F!subscriptionVars
  BY <1>0 DEF F!subscriptionVars, Parts!vars, Parts!indexVars, Parts!writerVars, Parts!envVars,
              Parts!eventVars, Parts!loopVars, Parts!queueVars, Parts!fanVars, Parts!callVars
<1>1. F!SetUp => Parts!Next
  BY SameSubscriptions DEF F!SetUp, Parts!Next
<1>2. F!StartServices => Parts!Next
  BY SameSubscriptions DEF F!StartServices, Parts!Next
<1>3. F!StopSubscriptions => Parts!Next
  BY SameSubscriptions DEF F!StopSubscriptions, Parts!Next
<1>4. \A id \in Ids, c \in Clients, u \in Uris : F!HandleResourceSubscribe(id, c, u) => Parts!Next
  BY SameSubscriptions DEF F!HandleResourceSubscribe, Parts!Next
<1>5. \A id \in Ids : F!HandleUnsubscribe(id) => Parts!Next
  BY SameSubscriptions DEF F!HandleUnsubscribe, Parts!Next
<1>6. \A u \in Uris : F!PublishEvent(u) => Parts!Next
  BY SameSubscriptions DEF F!PublishEvent, Parts!Next
<1>7. F!SubscriptionLoop => Parts!Next
  BY SameSubscriptions DEF F!SubscriptionLoop, Parts!Next
<1>8. \A call \in spawned : F!NotifySubscriber(call) => Parts!Next
  BY SameSubscriptions DEF F!NotifySubscriber, Parts!Next
<1>9. /\ F!StopNotifier \/ F!NotifyListChanged \/ F!NotifierStep => UNCHANGED F!subscriptionVars
      /\ \A c \in Clients :
            /\ \A kind : F!BeginInitialize(c, kind) => UNCHANGED F!subscriptionVars
            /\ \A prefix : F!ReadProfile(c, prefix) => UNCHANGED F!subscriptionVars
            /\ F!StoreProfile(c) \/ F!ReadFallback(c) => UNCHANGED F!subscriptionVars
  BY DEF F!StopNotifier, F!NotifyListChanged, F!NotifierStep, F!BeginInitialize, F!StoreProfile,
         F!ReadProfile, F!ReadFallback
<1> QED
  BY <1>0, <1>1, <1>2, <1>3, <1>4, <1>5, <1>6, <1>7, <1>8, <1>9 DEF F!Next

LEMMA Notifying ==
    ASSUME ServerOptions, Parts!IInv, Parts!NotifierInv, F!Next
    PROVE  \/ [Parts!N!Next]_(Parts!N!vars)
           \/ UNCHANGED F!notifierVars /\ fatal' \in BOOLEAN
<1>0. ~fatal /\ fatal \in BOOLEAN
  BY DEF F!Next, F!Crashed, Parts!NotifierInv, Parts!Control
<1>1. CASE UNCHANGED F!notifierVars /\ fatal' \in BOOLEAN
  BY <1>1
<1>2. \A kind, c : F!BeginInitialize(c, kind) => UNCHANGED <<F!notifierVars, fatal>>
  BY DEF F!BeginInitialize
<1>3. /\ \A c, prefix : F!ReadProfile(c, prefix) => UNCHANGED F!notifierVars /\ fatal' \in BOOLEAN
      /\ \A c : F!ReadFallback(c) => UNCHANGED F!notifierVars /\ fatal' \in BOOLEAN
  BY <1>0 DEF F!ReadProfile, F!ReadFallback, F!MapRead
<1>4. /\ \A id, c, u : F!HandleResourceSubscribe(id, c, u) => UNCHANGED <<F!notifierVars, fatal>>
      /\ \A id : F!HandleUnsubscribe(id) => UNCHANGED <<F!notifierVars, fatal>>
      /\ \A u : F!PublishEvent(u) => UNCHANGED <<F!notifierVars, fatal>>
      /\ F!SetUp \/ F!StopSubscriptions \/ F!SubscriptionLoop => UNCHANGED <<F!notifierVars, fatal>>
  BY DEF F!HandleResourceSubscribe, F!HandleUnsubscribe, F!PublishEvent, F!SetUp,
         F!StopSubscriptions, F!SubscriptionLoop
<1>5. F!StartServices \/ F!StopNotifier => Parts!N!Next
  BY <1>0, SameNotifier DEF F!StartServices, F!StopNotifier, Parts!N!Next
<1>6. ASSUME NEW c \in Clients, F!StoreProfile(c) PROVE Parts!N!Next
  <2>1. Parts!N!RegisterClient(c, {})
    BY <1>6, SameNotifier DEF F!StoreProfile
  <2>2. Parts!N!TableStep
    BY <2>1 DEF Parts!N!TableStep
  <2> QED
    BY <1>0, <2>2 DEF Parts!N!Next
<1>7. ASSUME NEW call \in spawned, F!NotifySubscriber(call) PROVE Parts!N!Next
  <2>1. call.event \in 1..MaxEvents /\ call.sub \in Ids /\ seenId[call.event] # NoId
    BY DEF Parts!IInv, Parts!TypeOK, Parts!EventsTypeOK, Parts!Call, Parts!Sightings
  <2>2. seenId[call.event] \in Ids
    BY <2>1 DEF Parts!IInv, Parts!TypeOK, Parts!EventsTypeOK
  <2>3. Parts!N!SendToClient(call.sub, seenId[call.event])
    BY <1>7, SameNotifier DEF F!NotifySubscriber
  <2>4. call.sub \in F!Senders /\ Parts!N!CallStep(call.sub)
    BY <2>1, <2>2, <2>3 DEF Parts!N!CallStep, F!Senders
  <2> QED
    BY <1>0, <2>4 DEF Parts!N!Next
<1>8. F!NotifyListChanged => Parts!N!Next
  <2>1. "discovery" \in F!Senders
    BY DEF F!Senders
  <2> QED
    BY <1>0, <2>1, SameNotifier DEF F!NotifyListChanged, Parts!N!Next, Parts!N!CallStep
<1>9. F!NotifierStep => Parts!N!Next
  BY <1>0, SameNotifier DEF F!NotifierStep, Parts!N!Next, Parts!N!TableStep
<1>10. UNCHANGED <<F!notifierVars, fatal>> => UNCHANGED F!notifierVars /\ fatal' \in BOOLEAN
  BY <1>0
<1> QED
  BY <1>1, <1>2, <1>3, <1>4, <1>5, <1>6, <1>7, <1>8, <1>9, <1>10 DEF F!Next

LEMMA ComposedKept ==
    ASSUME ServerOptions, Composed, F!Next
    PROVE  Composed'
<1>1. Parts!SubscriptionAssumption /\ Parts!NotifierOptions
  BY DEF ServerOptions, Parts!SubscriptionAssumption, Parts!NotifierOptions
<1>2. Parts!IInv'
  BY <1>1, Subscribing, Parts!NextIInv DEF Composed
<1>3. Parts!NotifierInv'
  <2>1. CASE [Parts!N!Next]_(Parts!N!vars)
    BY <1>1, <2>1, Parts!NotifierSteps DEF Composed
  <2>2. CASE UNCHANGED F!notifierVars /\ fatal' \in BOOLEAN
    <3>1. /\ Parts!NotifierInv /\ fatal' \in BOOLEAN
          /\ clientInfo' = clientInfo /\ stale' = stale /\ handlerCount' = handlerCount /\ phase' = phase
          /\ closed' = closed /\ queue' = queue /\ accepted' = accepted /\ nLoop' = nLoop
          /\ message' = message /\ held' = held /\ untried' = untried /\ sends' = sends
          /\ nDelivered' = nDelivered
      BY <2>2 DEF Composed, F!notifierVars
    <3> QED
      BY <1>1, <3>1, Parts!FatalApart
  <2> QED
    BY <2>1, <2>2, Notifying DEF Composed
<1> QED
  BY <1>2, <1>3 DEF Composed

\* What each part of the invariant says of is left alone by most steps.
LEMMA ProfilesLeft ==
    ASSUME Profiled, F!RefusalsJustified,
           UNCHANGED <<profiles, fallbacks, asking, answer, advertised>>
    PROVE  Profiled' /\ F!RefusalsJustified'
  BY DEF Profiled, F!RefusalsJustified

LEMMA Refused ==
    ASSUME ServerOptions, NEW p, NEW prefix \in Asked,
           ~F!CheckFeatureSupport(p, F!MethodToFeature(prefix)).supported
    PROVE  ~F!Advertises(p, prefix)
<1>1. F!MethodToFeature(prefix) \notin p.features
  BY DEF F!CheckFeatureSupport
<1>2. prefix # "experimental.discovery"
  BY DEF ServerOptions
<1>3. CASE prefix \in F!Features
  <2>1. prefix \notin p.features
    BY <1>1, <1>3 DEF F!MethodToFeature
  <2> QED
    BY <1>2, <2>1 DEF F!Advertises, F!GetSupportedCapabilities, F!ServerCapabilities
<1>4. CASE prefix \notin F!Features
  BY <1>2, <1>4 DEF F!Advertises, F!GetSupportedCapabilities, F!Features, F!ServerCapabilities
<1> QED
  BY <1>3, <1>4

LEMMA SameCardinality == \A S : F!Cardinality(S) = Cardinality(S)
  BY DEF F!Cardinality, Cardinality

LEMMA StoreKeeps ==
    ASSUME ServerOptions, Profiled, F!RefusalsJustified, NEW c \in Clients, F!StoreProfile(c)
    PROVE  /\ Profiled' /\ F!RefusalsJustified'
           /\ DOMAIN profiles' = DOMAIN profiles \cup {c}
<1> DEFINE p == F!KnownAs(pending[c])
           told == advertised[c] \cup {p}
<1>1. /\ profiles' = F!Stored(profiles, c) /\ fallbacks' = F!Stored(fallbacks, c)
      /\ advertised' = [advertised EXCEPT ![c] = told]
      /\ asking' = asking /\ answer' = answer
  BY DEF F!StoreProfile
<1>2. /\ fallbacks' = profiles' /\ DOMAIN profiles' = DOMAIN profiles \cup {c}
      /\ profiles'[c] = p /\ \A d \in DOMAIN profiles : d # c => profiles'[d] = profiles[d]
  BY <1>1 DEF F!Stored, Profiled
<1>3. /\ DOMAIN advertised' = Clients /\ advertised'[c] = told
      /\ \A d \in Clients : d # c => advertised'[d] = advertised[d]
  BY <1>1 DEF Profiled
<1>4. IsFiniteSet(told) /\ p \in told /\ advertised[c] \subseteq told
  BY FS_AddElement DEF Profiled
<1> HIDE DEF p, told
<1>5. Profiled'
  <2>1. ASSUME NEW d \in Clients
        PROVE  /\ IsFiniteSet(advertised'[d])
               /\ asking[d] # F!NotAsking =>
                     /\ d \in DOMAIN profiles' /\ profiles'[d] \in advertised'[d]
                     /\ \E q \in advertised'[d] :
                           ~F!CheckFeatureSupport(q, F!MethodToFeature(asking[d])).supported
    <3>1. CASE d = c
      BY <1>2, <1>3, <1>4, <3>1 DEF Profiled
    <3>2. CASE d # c
      BY <1>2, <1>3, <3>2 DEF Profiled
    <3> QED
      BY <3>1, <3>2
  <2> QED
    BY <1>1, <1>2, <1>3, <2>1 DEF Profiled
<1>6. F!RefusalsJustified'
  <2>1. \A d \in Clients : advertised[d] \subseteq advertised'[d]
    BY <1>3, <1>4
  <2>2. \A d \in Clients : F!Cardinality(advertised[d]) > 1 => F!Cardinality(advertised'[d]) > 1
    <3> SUFFICES ASSUME NEW d \in Clients, Cardinality(advertised[d]) > 1
                 PROVE  Cardinality(advertised'[d]) > 1
      BY SameCardinality
    <3>1. CASE d # c
      BY <1>3, <3>1
    <3>2. CASE d = c
      <4>1. /\ Cardinality(advertised[c]) <= Cardinality(told)
            /\ Cardinality(told) \in Nat /\ Cardinality(advertised[c]) \in Nat
        BY <1>4, FS_Subset, FS_CardinalityType
      <4> QED
        BY <1>3, <3>2, <4>1
    <3> QED
      BY <3>1, <3>2
  <2> QED
    BY <1>1, <2>1, <2>2 DEF F!RefusalsJustified, F!Advertises
<1> QED
  BY <1>2, <1>5, <1>6

LEMMA ReadKeeps ==
    ASSUME ServerOptions, Profiled, F!RefusalsJustified, NEW c \in Clients, NEW prefix \in Asked,
           F!ReadProfile(c, prefix)
    PROVE  Profiled' /\ F!RefusalsJustified'
<1> DEFINE known == c \in DOMAIN profiles
           refused == known /\ ~F!CheckFeatureSupport(profiles[c], F!MethodToFeature(prefix)).supported
           told == IF known THEN {profiles[c]} ELSE {}
<1>1. /\ asking' = [asking EXCEPT ![c] = IF refused /\ prefix # "discovery" THEN prefix
                                         ELSE F!NotAsking]
      /\ answer' = [answer EXCEPT ![c] =
                       CASE ~refused -> <<"passed on", prefix>>
                         [] refused /\ prefix = "discovery" -> <<"Unsupported", prefix>>
                         [] OTHER -> F!NoAnswer]
      /\ advertised' = [advertised EXCEPT ![c] = told]
      /\ UNCHANGED <<profiles, fallbacks>>
  BY DEF F!ReadProfile
<1>2. IsFiniteSet(told)
  BY FS_EmptySet, FS_Singleton
<1>3. refused => profiles[c] \in told /\ ~F!Advertises(profiles[c], prefix)
  BY Refused
<1>4. refused => ~F!CheckFeatureSupport(profiles[c], F!MethodToFeature(prefix)).supported /\ known
  OBVIOUS
<1> HIDE DEF refused, told
<1>5. /\ DOMAIN asking' = Clients /\ DOMAIN answer' = Clients /\ DOMAIN advertised' = Clients
      /\ \A d \in Clients : d # c => /\ asking'[d] = asking[d] /\ answer'[d] = answer[d]
                                     /\ advertised'[d] = advertised[d]
      /\ advertised'[c] = told
      /\ asking'[c] # F!NotAsking => refused /\ asking'[c] = prefix
      /\ \/ answer'[c] = <<"passed on", prefix>> \/ answer'[c] = F!NoAnswer
         \/ refused /\ answer'[c] = <<"Unsupported", prefix>>
  BY <1>1 DEF Profiled
<1>6. Profiled'
  <2>1. ASSUME NEW d \in Clients
        PROVE  /\ IsFiniteSet(advertised'[d])
               /\ asking'[d] # F!NotAsking =>
                     /\ asking'[d] \in Asked /\ d \in DOMAIN profiles
                     /\ profiles[d] \in advertised'[d]
                     /\ \E q \in advertised'[d] :
                           ~F!CheckFeatureSupport(q, F!MethodToFeature(asking'[d])).supported
    <3>1. CASE d = c
      BY <1>2, <1>3, <1>4, <1>5, <3>1
    <3>2. CASE d # c
      BY <1>5, <3>2 DEF Profiled
    <3> QED
      BY <3>1, <3>2
  <2> QED
    BY <1>1, <1>5, <2>1 DEF Profiled
<1>7. F!RefusalsJustified'
  <2> SUFFICES ASSUME NEW d \in Clients
               PROVE  /\ answer'[d][1] = "Unsupported" =>
                            \E p \in advertised'[d] : ~F!Advertises(p, answer'[d][2])
                      /\ answer'[d][1] = "InternalError" => F!Cardinality(advertised'[d]) > 1
    BY DEF F!RefusalsJustified, F!Advertises
  <2>1. CASE d # c
    BY <1>5, <2>1 DEF F!RefusalsJustified
  <2>2. CASE d = c
    <3>1. \/ answer'[c][1] \notin {"Unsupported", "InternalError"}
          \/ refused /\ answer'[c][1] = "Unsupported" /\ answer'[c][2] = prefix
      <4>1. CASE answer'[c] = <<"passed on", prefix>>
        <5>1. PICK x : x = answer'[c]
          OBVIOUS
        <5>2. x = <<"passed on", prefix>>
          BY <4>1, <5>1
        <5>3. x[1] = "passed on"
          BY <5>2
        <5> QED
          BY <5>1, <5>3
      <4>2. CASE answer'[c] = F!NoAnswer
        BY <4>2 DEF F!NoAnswer
      <4>3. CASE refused /\ answer'[c] = <<"Unsupported", prefix>>
        BY <4>3
      <4> QED
        BY <1>5, <4>1, <4>2, <4>3
    <3> QED
      BY <1>3, <1>5, <2>2, <3>1
  <2> QED
    BY <2>1, <2>2
<1> QED
  BY <1>6, <1>7

LEMMA FallbackKeeps ==
    ASSUME ServerOptions, Profiled, F!RefusalsJustified, NEW c \in Clients, F!ReadFallback(c)
    PROVE  Profiled' /\ F!RefusalsJustified'
<1> DEFINE prefix == asking[c]
           given == F!HandleUnsupportedMethod(profiles[c], prefix)
<1>1. /\ asking[c] # F!NotAsking
      /\ answer' = [answer EXCEPT ![c] = <<given, prefix>>]
      /\ asking' = [asking EXCEPT ![c] = F!NotAsking]
      /\ UNCHANGED <<profiles, fallbacks, advertised>>
  BY DEF F!ReadFallback, Profiled
<1>2. /\ prefix \in Asked /\ profiles[c] \in advertised[c]
      /\ IsFiniteSet(advertised[c])
  BY <1>1 DEF Profiled
<1>3. PICK q \in advertised[c] : ~F!CheckFeatureSupport(q, F!MethodToFeature(prefix)).supported
  BY <1>1 DEF Profiled
<1>4. given = "InternalError" => profiles[c] # q
  BY <1>3 DEF F!HandleUnsupportedMethod
<1>5. given \in {"InternalError", "Unsupported"}
  BY DEF F!HandleUnsupportedMethod
<1>6. ~F!Advertises(q, prefix)
  BY <1>2, <1>3, Refused
<1> HIDE DEF given
<1>7. given = "InternalError" => F!Cardinality(advertised[c]) > 1
  <2> SUFFICES ASSUME profiles[c] # q PROVE Cardinality(advertised[c]) > 1
    BY <1>4, SameCardinality
  <2>1. Cardinality({profiles[c], q}) = 2 /\ {profiles[c], q} \subseteq advertised[c]
    <3>1. Cardinality({q}) = 1 /\ IsFiniteSet({q})
      BY FS_Singleton
    <3>2. Cardinality({q} \cup {profiles[c]}) = 1 + 1
      BY <3>1, FS_AddElement
    <3>3. {q} \cup {profiles[c]} = {profiles[c], q}
      OBVIOUS
    <3> QED
      BY <1>2, <3>2, <3>3
  <2>2. /\ Cardinality({profiles[c], q}) <= Cardinality(advertised[c])
        /\ Cardinality(advertised[c]) \in Nat
    BY <1>2, <2>1, FS_Subset, FS_CardinalityType
  <2> QED
    BY <2>1, <2>2
<1>8. /\ DOMAIN asking' = Clients /\ DOMAIN answer' = Clients
      /\ \A d \in Clients : d # c => asking'[d] = asking[d] /\ answer'[d] = answer[d]
      /\ asking'[c] = F!NotAsking /\ answer'[c] = <<given, prefix>>
  BY <1>1 DEF Profiled
<1>9. Profiled'
  <2>1. \A d \in Clients : asking'[d] # F!NotAsking => d # c /\ asking'[d] = asking[d]
    BY <1>8
  <2> QED
    BY <1>1, <1>8, <2>1 DEF Profiled
<1>10. F!RefusalsJustified'
  <2> SUFFICES ASSUME NEW d \in Clients
               PROVE  /\ answer'[d][1] = "Unsupported" =>
                            \E p \in advertised'[d] : ~F!Advertises(p, answer'[d][2])
                      /\ answer'[d][1] = "InternalError" => F!Cardinality(advertised'[d]) > 1
    BY DEF F!RefusalsJustified, F!Advertises
  <2>1. CASE d # c
    BY <1>1, <1>8, <2>1 DEF F!RefusalsJustified
  <2>2. CASE d = c
    BY <1>1, <1>6, <1>7, <1>8, <2>2
  <2> QED
    BY <2>1, <2>2
<1> QED
  BY <1>9, <1>10

LEMMA ProfilesKept ==
    ASSUME ServerOptions, ServerInv, F!Next
    PROVE  Profiled' /\ F!RefusalsJustified' /\ DOMAIN profiles \subseteq DOMAIN profiles'
<1> DEFINE ProfilesStay == UNCHANGED <<profiles, fallbacks, asking, answer, advertised>>
<1>0. Profiled /\ F!RefusalsJustified
  BY DEF ServerInv
<1>1. \/ ProfilesStay
      \/ \E c \in Clients : \/ F!StoreProfile(c) \/ F!ReadFallback(c)
                            \/ \E prefix \in Asked : F!ReadProfile(c, prefix)
  <2>1. /\ F!SetUp \/ F!StartServices \/ F!StopNotifier \/ F!StopSubscriptions => ProfilesStay
        /\ F!SubscriptionLoop \/ F!NotifyListChanged \/ F!NotifierStep => ProfilesStay
    BY DEF F!SetUp, F!StartServices, F!StopNotifier, F!StopSubscriptions, F!SubscriptionLoop,
           F!NotifyListChanged, F!NotifierStep, F!serverVars
  <2>2. /\ \A c, kind : F!BeginInitialize(c, kind) => ProfilesStay
        /\ \A id, c, u : F!HandleResourceSubscribe(id, c, u) => ProfilesStay
        /\ \A id : F!HandleUnsubscribe(id) => ProfilesStay
        /\ \A u : F!PublishEvent(u) => ProfilesStay
        /\ \A call : F!NotifySubscriber(call) => ProfilesStay
    BY DEF F!BeginInitialize, F!HandleResourceSubscribe, F!HandleUnsubscribe, F!PublishEvent,
           F!NotifySubscriber, F!serverVars
  <2> QED
    BY <2>1, <2>2 DEF F!Next
<1>2. CASE ProfilesStay
  BY <1>0, <1>2, ProfilesLeft
<1>3. ASSUME NEW c \in Clients, F!StoreProfile(c)
      PROVE  Profiled' /\ F!RefusalsJustified' /\ DOMAIN profiles \subseteq DOMAIN profiles'
  BY <1>0, <1>3, StoreKeeps
<1>4. ASSUME NEW c \in Clients, F!ReadFallback(c)
      PROVE  Profiled' /\ F!RefusalsJustified' /\ DOMAIN profiles \subseteq DOMAIN profiles'
  <2>1. profiles' = profiles
    BY <1>4 DEF F!ReadFallback
  <2> QED
    BY <1>0, <1>4, <2>1, FallbackKeeps
<1>5. ASSUME NEW c \in Clients, NEW prefix \in Asked, F!ReadProfile(c, prefix)
      PROVE  Profiled' /\ F!RefusalsJustified' /\ DOMAIN profiles \subseteq DOMAIN profiles'
  <2>1. profiles' = profiles
    BY <1>5 DEF F!ReadProfile
  <2> QED
    BY <1>0, <1>5, <2>1, ReadKeeps
<1> QED
  BY <1>1, <1>2, <1>3, <1>4, <1>5

\* The stages a step may reach that leaves the notifier alone.
Otherwise ==
    \/ stage' = stage
    \/ stage = "new" /\ stage' = "ready"
    \/ stage = "stopping" /\ stage' = "stopped"

\* What the server's steps do to the notifier, and when.
LEMMA NotifierMoves ==
    ASSUME Composed, F!Next
    PROVE  \/ UNCHANGED F!notifierVars /\ Otherwise
           \/ stage = "ready" /\ stage' = "started" /\ Parts!N!Start
           \/ stage = "started" /\ stage' = "stopping" /\ Parts!N!Stop
           \/ \E c \in Clients :
                 F!StoreProfile(c) /\ Parts!N!RegisterClient(c, {}) /\ UNCHANGED stage
           \/ \E s \in F!Senders : /\ Parts!N!SendStep(s) \/ \E T : Parts!N!BeginSend(s, T)
                                   /\ UNCHANGED stage
           \/ /\ Parts!N!LoopStep \/ Parts!N!StopClose \/ Parts!N!RegisterHandler("transport")
              /\ UNCHANGED stage
<1> DEFINE Apart == UNCHANGED F!notifierVars /\ Otherwise
           Stores == \E c \in Clients :
                        F!StoreProfile(c) /\ Parts!N!RegisterClient(c, {}) /\ UNCHANGED stage
           Sends == \E s \in F!Senders : /\ Parts!N!SendStep(s) \/ \E T : Parts!N!BeginSend(s, T)
                                         /\ UNCHANGED stage
           Works == /\ Parts!N!LoopStep \/ Parts!N!StopClose \/ Parts!N!RegisterHandler("transport")
                    /\ UNCHANGED stage
<1>1. /\ F!SetUp => Apart
      /\ F!StopSubscriptions => Apart
      /\ F!SubscriptionLoop => Apart
      /\ \A c, kind : F!BeginInitialize(c, kind) => Apart
      /\ \A c, prefix : F!ReadProfile(c, prefix) => Apart
      /\ \A c : F!ReadFallback(c) => Apart
      /\ \A id, c, u : F!HandleResourceSubscribe(id, c, u) => Apart
      /\ \A id : F!HandleUnsubscribe(id) => Apart
      /\ \A u : F!PublishEvent(u) => Apart
  <2>1. F!SetUp => Apart
    BY DEF F!SetUp, Otherwise, F!serverVars
  <2>2. F!StopSubscriptions => Apart
    BY DEF F!StopSubscriptions, Otherwise, F!serverVars
  <2>3. F!SubscriptionLoop => Apart
    BY DEF F!SubscriptionLoop, Otherwise, F!serverVars
  <2>4. \A c, kind : F!BeginInitialize(c, kind) => Apart
    BY DEF F!BeginInitialize, Otherwise, F!serverVars
  <2>5. \A c, prefix : F!ReadProfile(c, prefix) => Apart
    BY DEF F!ReadProfile, Otherwise, F!serverVars
  <2>6. \A c : F!ReadFallback(c) => Apart
    BY DEF F!ReadFallback, Otherwise, F!serverVars
  <2>7. \A id, c, u : F!HandleResourceSubscribe(id, c, u) => Apart
    BY DEF F!HandleResourceSubscribe, Otherwise, F!serverVars
  <2>8. \A id : F!HandleUnsubscribe(id) => Apart
    BY DEF F!HandleUnsubscribe, Otherwise, F!serverVars
  <2>9. \A u : F!PublishEvent(u) => Apart
    BY DEF F!PublishEvent, Otherwise, F!serverVars
  <2> QED
    BY <2>1, <2>2, <2>3, <2>4, <2>5, <2>6, <2>7, <2>8, <2>9
<1>2. F!StartServices => stage = "ready" /\ stage' = "started" /\ Parts!N!Start
  BY SameNotifier DEF F!StartServices
<1>3. F!StopNotifier => stage = "started" /\ stage' = "stopping" /\ Parts!N!Stop
  BY SameNotifier DEF F!StopNotifier
<1>4. \A c \in Clients : F!StoreProfile(c) => Stores
  BY SameNotifier DEF F!StoreProfile
<1>5. ASSUME NEW call \in spawned, F!NotifySubscriber(call) PROVE Sends
  <2>1. call.sub \in F!Senders
    BY DEF Composed, Parts!IInv, Parts!TypeOK, Parts!EventsTypeOK, Parts!Call, F!Senders
  <2> QED
    BY <1>5, <2>1, SameNotifier DEF F!NotifySubscriber, F!serverVars, Parts!N!SendToClient
<1>6. F!NotifyListChanged => Sends
  <2>1. "discovery" \in F!Senders
    BY DEF F!Senders
  <2> QED
    BY <2>1, SameNotifier DEF F!NotifyListChanged, F!serverVars, Parts!N!Broadcast
<1>7. F!NotifierStep => Works \/ Sends
  BY SameNotifier DEF F!NotifierStep, F!serverVars
<1> QED
  BY <1>1, <1>2, <1>3, <1>4, <1>5, <1>6, <1>7 DEF F!Next

LEMMA StagesKept ==
    ASSUME Composed, Staged, F!Next
    PROVE  Staged'
<1>0. /\ DOMAIN sends = F!Senders
      /\ \A s \in F!Senders : DOMAIN sends[s] = {"pc", "left"}
  BY DEF Composed, Parts!NotifierInv, Parts!Sending
<1> USE DEF Parts!N!tableVars, Parts!N!queueVars, Parts!N!loopVars
<1>1. CASE UNCHANGED F!notifierVars /\ Otherwise
  BY <1>1 DEF Staged, Otherwise, F!notifierVars
<1>2. CASE stage = "ready" /\ stage' = "started" /\ Parts!N!Start
  BY <1>2 DEF Staged, Parts!N!Start
<1>3. CASE stage = "started" /\ stage' = "stopping" /\ Parts!N!Stop
  BY <1>3 DEF Staged, Parts!N!Stop
<1>4. CASE \E c \in Clients : Parts!N!RegisterClient(c, {}) /\ UNCHANGED stage
  BY <1>4 DEF Staged, Parts!N!RegisterClient
<1>5. ASSUME NEW s \in F!Senders, UNCHANGED stage,
             Parts!N!SendStep(s) \/ \E T : Parts!N!BeginSend(s, T)
      PROVE  Staged'
  <2>1. UNCHANGED <<phase, closed>>
    BY <1>5 DEF Parts!N!SendStep, Parts!N!Enqueue, Parts!N!SendTimeout, Parts!N!SendPanics,
                Parts!N!BeginSend
  <2>2. /\ DOMAIN sends' = F!Senders
        /\ \A r \in F!Senders : r # s => sends'[r] = sends[r]
        /\ sends'[s].pc = "panicked" => closed
    <3>1. ASSUME NEW T, Parts!N!BeginSend(s, T)
          PROVE  /\ DOMAIN sends' = F!Senders
                 /\ \A r \in F!Senders : r # s => sends'[r] = sends[r]
                 /\ sends'[s].pc = "send"
      BY <1>0, <3>1 DEF Parts!N!BeginSend
    <3>2. ASSUME NEW to, NEW outcome \in {"idle", "full", "panicked"},
                 Parts!N!Sent(s, to, outcome)
          PROVE  /\ DOMAIN sends' = F!Senders
                 /\ \A r \in F!Senders : r # s => sends'[r] = sends[r]
                 /\ sends'[s].pc = "panicked" => outcome = "panicked"
      <4> DEFINE then == CASE outcome = "panicked" -> "panicked"
                           [] sends[s].left # {to} -> "send"
                           [] OTHER -> outcome
      <4>1. then = "panicked" => outcome = "panicked"
        BY <3>2
      <4>2. sends' = [sends EXCEPT ![s].left = @ \ {to}, ![s].pc = then]
        BY <3>2 DEF Parts!N!Sent
      <4> HIDE DEF then
      <4>3. DOMAIN sends' = F!Senders /\ sends'[s].pc = then
        BY <1>0, <4>2
      <4>4. \A r \in F!Senders : r # s => sends'[r] = sends[r]
        BY <1>0, <4>2
      <4> QED
        BY <4>1, <4>3, <4>4
    <3>3. \A to : /\ Parts!N!Enqueue(s, to) => Parts!N!Sent(s, to, "idle")
                  /\ Parts!N!SendTimeout(s, to) => Parts!N!Sent(s, to, "full")
                  /\ Parts!N!SendPanics(s, to) => Parts!N!Sent(s, to, "panicked") /\ closed
      BY DEF Parts!N!Enqueue, Parts!N!SendTimeout, Parts!N!SendPanics
    <3> QED
      BY <1>5, <3>1, <3>2, <3>3 DEF Parts!N!SendStep
  <2> QED
    BY <1>5, <2>1, <2>2 DEF Staged
<1>6. CASE /\ Parts!N!LoopStep \/ Parts!N!RegisterHandler("transport")
           /\ UNCHANGED stage
  <2>1. UNCHANGED <<phase, closed, sends>>
    BY <1>6 DEF Parts!N!LoopStep, Parts!N!RegisterHandler, Parts!N!ExitLoop, Parts!N!TakeMessage,
                Parts!N!LookUp, Parts!N!TouchClient, Parts!N!Undelivered,
                Parts!N!HandlerAccepts, Parts!N!HandlerFails
  <2> QED
    BY <1>6, <2>1 DEF Staged
<1>7. CASE Parts!N!StopClose /\ UNCHANGED stage
  BY <1>7 DEF Staged, Parts!N!StopClose
<1> QED
  BY <1>1, <1>2, <1>3, <1>4, <1>5, <1>6, <1>7, NotifierMoves

LEMMA AddressesKept ==
    ASSUME ServerOptions, ServerInv, F!Next
    PROVE  Addressed'
<1>0. /\ Addressed /\ Composed /\ Profiled /\ F!RefusalsJustified
      /\ DOMAIN profiles \subseteq DOMAIN profiles'
      /\ nDelivered \in Seq(Parts!Numbered)
  BY ProfilesKept DEF ServerInv, Composed, Parts!NotifierInv, Parts!Flow
<1> USE DEF Parts!N!tableVars, Parts!N!queueVars, Parts!N!loopVars, Parts!N!Registered
<1>1. CASE /\ UNCHANGED <<clientInfo, message, nDelivered>>
           /\ nLoop' \in {"touch", "try"} => nLoop \in {"touch", "try"}
  BY <1>0, <1>1 DEF Addressed
<1>2. CASE \/ UNCHANGED F!notifierVars \/ Parts!N!Start \/ Parts!N!Stop \/ Parts!N!StopClose
           \/ Parts!N!RegisterHandler("transport")
           \/ \E s \in F!Senders : Parts!N!SendStep(s) \/ \E T : Parts!N!BeginSend(s, T)
  <2>1. /\ UNCHANGED <<clientInfo, message, nDelivered>>
        /\ nLoop' \in {"touch", "try"} => nLoop \in {"touch", "try"}
    BY <1>2 DEF F!notifierVars, Parts!N!Start, Parts!N!Stop, Parts!N!StopClose,
                Parts!N!RegisterHandler, Parts!N!SendStep, Parts!N!Enqueue,
                Parts!N!SendTimeout, Parts!N!SendPanics, Parts!N!BeginSend
  <2> QED
    BY <1>1, <2>1
<1>3. ASSUME NEW c \in Clients, F!StoreProfile(c), Parts!N!RegisterClient(c, {})
      PROVE  Addressed'
  <2>1. DOMAIN profiles' = DOMAIN profiles \cup {c}
    BY <1>0, <1>3, StoreKeeps
  <2>2. /\ DOMAIN clientInfo' = DOMAIN clientInfo \cup {c}
        /\ UNCHANGED <<nLoop, message, nDelivered>>
    BY <1>3 DEF Parts!N!RegisterClient
  <2> QED
    BY <1>0, <2>1, <2>2 DEF Addressed
<1>4. CASE Parts!N!LoopStep
  <2>1. CASE Parts!N!ExitLoop \/ Parts!N!TakeMessage \/ Parts!N!Undelivered
    BY <1>0, <2>1 DEF Addressed, Parts!N!ExitLoop, Parts!N!TakeMessage, Parts!N!Undelivered
  <2>2. CASE Parts!N!LookUp
    <3>1. /\ UNCHANGED <<clientInfo, message, nDelivered>>
          /\ nLoop' \in {"touch", "try"} => message.to \in DOMAIN clientInfo
      BY <2>2 DEF Parts!N!LookUp
    <3> QED
      BY <1>0, <3>1 DEF Addressed
  <2>3. CASE Parts!N!TouchClient
    BY <1>1, <2>3 DEF Parts!N!TouchClient
  <2>4. ASSUME NEW h, Parts!N!HandlerAccepts(h)
        PROVE  Addressed'
    <3>1. /\ nLoop = "try" /\ nLoop' = "select" /\ UNCHANGED clientInfo
          /\ nDelivered' = Append(nDelivered, message)
      BY <2>4 DEF Parts!N!HandlerAccepts
    <3>2. message \in Parts!Numbered
      BY <1>0 DEF Composed, Parts!NotifierInv, Parts!Flow
    <3>3. /\ Len(nDelivered') = Len(nDelivered) + 1 /\ Len(nDelivered) \in Nat
          /\ \A i \in 1..Len(nDelivered) : nDelivered'[i] = nDelivered[i]
          /\ nDelivered'[Len(nDelivered) + 1] = message
      BY <1>0, <3>1, <3>2, AppendProperties
    <3>4. \A i \in 1..Len(nDelivered') : i \in 1..Len(nDelivered) \/ i = Len(nDelivered) + 1
      BY <3>3
    <3> QED
      BY <1>0, <3>1, <3>3, <3>4 DEF Addressed
  <2>5. ASSUME NEW h, Parts!N!HandlerFails(h)
        PROVE  Addressed'
    BY <1>1, <2>5 DEF Parts!N!HandlerFails
  <2> QED
    BY <1>4, <2>1, <2>2, <2>3, <2>4, <2>5 DEF Parts!N!LoopStep
<1> QED
  BY <1>0, <1>2, <1>3, <1>4, NotifierMoves

(* The parts of the full-featured server keep their promises when they are  *)
(* composed, and a client is refused only what an initialize did not name,  *)
(* for every set of clients, of subscriptions and of features asked for     *)
(* (server/full_featured.go).                                               *)
THEOREM ServerKeepsPromises ==
    ASSUME ServerOptions
    PROVE  F!Spec => []F!ServerKeepsItsPromises
<1>0. Parts!SubscriptionAssumption /\ Parts!NotifierOptions
  BY DEF ServerOptions, Parts!SubscriptionAssumption, Parts!NotifierOptions
<1>1. F!Init => ServerInv
  <2> SUFFICES ASSUME F!Init PROVE ServerInv
    OBVIOUS
  <2>1. Composed
    BY <1>0, SameSubscriptions, SameNotifier, Parts!InitIInv, Parts!NotifierBegins
       DEF F!Init, Composed
  <2>2. /\ Profiled /\ F!RefusalsJustified
    BY FS_EmptySet DEF F!Init, F!ServerInit, Profiled, F!RefusalsJustified, F!NoAnswer
  <2>3. /\ stage = "new" /\ phase = "new" /\ closed = FALSE /\ nLoop = "off"
        /\ DOMAIN clientInfo = {} /\ nDelivered = <<>>
        /\ \A s \in F!Senders : sends[s].pc = "idle"
    BY DEF F!Init, F!ServerInit, F!N!Init, F!N!Idle
  <2>4. Addressed /\ Staged
    BY <2>3 DEF Addressed, Staged
  <2> QED
    BY <2>1, <2>2, <2>4 DEF ServerInv
<1>2. ServerInv /\ F!Next => ServerInv'
  BY ComposedKept, ProfilesKept, StagesKept, AddressesKept DEF ServerInv
<1>3. ServerInv /\ UNCHANGED F!vars => ServerInv'
  <2> SUFFICES ASSUME ServerInv, UNCHANGED F!vars PROVE ServerInv'
    OBVIOUS
  <2>1. UNCHANGED <<F!serverVars, F!subscriptionVars, F!notifierVars, fatal>>
    BY DEF F!vars
  <2>2. UNCHANGED Parts!vars /\ UNCHANGED Parts!N!vars
    BY <2>1 DEF F!subscriptionVars, F!notifierVars, Parts!vars, Parts!indexVars,
         Parts!writerVars, Parts!envVars, Parts!eventVars, Parts!loopVars, Parts!queueVars,
         Parts!fanVars, Parts!callVars, Parts!N!vars, Parts!N!tableVars, Parts!N!queueVars,
         Parts!N!loopVars
  <2>3. Composed'
    BY <1>0, <2>2, Parts!NextIInv, Parts!NotifierSteps DEF ServerInv, Composed
  <2>4. Profiled' /\ F!RefusalsJustified'
    BY <2>1, ProfilesLeft DEF ServerInv, F!serverVars
  <2>5. Addressed' /\ Staged'
    BY <2>1 DEF ServerInv, Addressed, Staged, F!serverVars, F!notifierVars
  <2> QED
    BY <2>3, <2>4, <2>5 DEF ServerInv
<1>4. ServerInv => F!ServerKeepsItsPromises
  <2> SUFFICES ASSUME ServerInv PROVE F!ServerKeepsItsPromises
    OBVIOUS
  <2>1. Composed /\ Addressed /\ Staged
    BY DEF ServerInv
  <2>2. F!S!DeliverySound
    <3>1. Parts!DeliverySound
      BY <1>0, <2>1, Parts!SoundFromSightings DEF Composed
    <3> QED
      BY <3>1 DEF Parts!DeliverySound, F!S!DeliverySound, Parts!EventTypeToMethod,
         F!S!EventTypeToMethod, Parts!MatchesSubscription, F!S!MatchesSubscription,
         Parts!ResourceMethod, F!S!ResourceMethod
  <2>3. F!N!DeliveredOnceInOrder
    BY <1>0, <2>1, SameNotifier, Parts!NotifierMeans DEF Composed
  <2>4. \A i \in DOMAIN nDelivered : nDelivered[i].to \in DOMAIN profiles
    <3>1. nDelivered \in Seq(Parts!Numbered)
      BY <2>1 DEF Composed, Parts!NotifierInv, Parts!Flow
    <3>2. DOMAIN nDelivered = 1..Len(nDelivered)
      BY <3>1, LenProperties
    <3> QED
      BY <2>1, <3>2 DEF Addressed
  <2>5. (\E s \in F!Senders : sends[s].pc = "panicked") => stage \in {"stopping", "stopped"}
    BY <2>1 DEF Staged
  <2> QED
    BY <2>2, <2>3, <2>4, <2>5 DEF ServerInv, F!NotificationsJustified,
                                   F!ServerKeepsItsPromises
<1> QED
  BY <1>1, <1>2, <1>3, <1>4, PTL DEF F!Spec
=============================================================================
