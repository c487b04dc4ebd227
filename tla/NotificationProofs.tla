-------------------------- MODULE NotificationProofs --------------------------
(***************************************************************************)
(* Proofs about how events reach clients: SubscriptionManager, for every   *)
(* set of ids, clients, uris and methods, every limit and every queue; and *)
(* Notifier, for every set of clients and senders and every queue. The two *)
(* share no more than the clients' names.                                  *)
(*                                                                         *)
(* IndexConsistent is not inductive: it says nothing while a writer that   *)
(* loops holds the mutex. In between, the method index is right all the    *)
(* time, and the client index but for the one client whose slice           *)
(* UnsubscribeClient is about to drop; what that one lacks is exactly what *)
(* is still to do (Indices). What handlers are called with rests on what   *)
(* the loop has visited of an event while it holds the read lock.          *)
(***************************************************************************)
EXTENDS Notifications, SequenceTheorems, TLAPS

Indices ==
    /\ \A m \in Methods : IsIndex(byMethod[m], {id \in live : info[id].method = m})
    /\ \A c \in Clients :
          \/ mutex = "client" /\ c = target
          \/ IsIndex(byClient[c], {id \in live : info[id].client = c})
    /\ mutex = "client" => todo = {id \in live : info[id].client = target}
    /\ mutex = "cleanup" => todo \subseteq live

\* Events are numbered in the order they were published, and the loop holds
\* the read lock from the first subscription of an event to the last.
Numbering ==
    /\ Len(published) <= MaxEvents
    /\ \A i \in DOMAIN eventChan : eventChan[i] \in 1..Len(published)
    /\ loop \in {"rlock", "handle"} => current \in 1..Len(published)
    /\ loop = "handle" <=> mutex = "handle"
    /\ manager \in {"new", "stopped"} => loop = "off"

\* Subscription id is one that event n is for.
Matched(id, n) ==
    /\ id \in used
    /\ info[id].method = EventTypeToMethod(published[n].type)
    /\ MatchesSubscription(info[id], published[n])

\* What the loop has visited and has still to visit of the current event, and
\* what the variable of each event has held.
Sightings ==
    /\ loop = "handle" =>
          \A i \in DOMAIN route : route[i] \in used /\ info[route[i]].method = CurrentMethod
    /\ \A n \in 1..MaxEvents : seenId[n] # NoId => n <= Len(published) /\ Matched(seenId[n], n)
    /\ \A call \in spawned : seenId[call.event] # NoId
    /\ \A d \in delivered : d.call.event <= Len(published) /\ Matched(d.saw, d.call.event)

Started(id) ==
    LET call == [event |-> current, sub |-> id]
    IN  call \in spawned \/ \E d \in delivered : d.call = call

\* A live subscription that the current event matches is still to be visited,
\* or its handler was called.
NoneSkipped ==
    loop = "handle" =>
        \A id \in live :
            /\ info[id].method = CurrentMethod
            /\ MatchesSubscription(info[id], published[current])
            /\ CurrentMethod \in handlers
            => (\E i \in DOMAIN route : route[i] = id) \/ Started(id)

IInv == TypeOK /\ Indices /\ Numbering /\ Sightings /\ NoneSkipped

-----------------------------------------------------------------------------
\* Lemmas about slices of ids.

LEMMA IndexEmpty == IsIndex(<<>>, {})
  BY DEF IsIndex

LEMMA IndexAppend ==
    ASSUME NEW s \in Seq(Ids), NEW S, IsIndex(s, S), NEW id \in Ids, id \notin S
    PROVE  Append(s, id) \in Seq(Ids) /\ IsIndex(Append(s, id), S \cup {id})
<1> DEFINE t == Append(s, id)
<1>1. /\ t \in Seq(Ids) /\ DOMAIN t = DOMAIN s \cup {Len(s) + 1}
      /\ Len(s) + 1 \notin DOMAIN s
      /\ t[Len(s) + 1] = id /\ \A i \in DOMAIN s : t[i] = s[i]
  OBVIOUS
<1> HIDE DEF t
<1>2. {t[i] : i \in DOMAIN t} = S \cup {id}
  BY <1>1 DEF IsIndex
<1>3. \A i, j \in DOMAIN t : t[i] = t[j] => i = j
  BY <1>1 DEF IsIndex
<1> QED
  BY <1>1, <1>2, <1>3 DEF IsIndex, t

\* RemoveFirst on a slice without repetitions takes out its one occurrence.
LEMMA IndexRemove ==
    ASSUME NEW s \in Seq(Ids), NEW S, IsIndex(s, S), NEW id
    PROVE  RemoveFirst(s, id) \in Seq(Ids) /\ IsIndex(RemoveFirst(s, id), S \ {id})
<1>0. Len(s) \in Nat /\ DOMAIN s = 1..Len(s)
  OBVIOUS
<1>1. CASE ~\E i \in 1..Len(s) : s[i] = id
  <2>1. RemoveFirst(s, id) = s /\ id \notin S
    BY <1>0, <1>1 DEF RemoveFirst, IsIndex
  <2> QED
    BY <2>1 DEF IsIndex
<1>2. CASE \E i \in 1..Len(s) : s[i] = id
  <2>1. PICK k \in 1..Len(s) : s[k] = id
    BY <1>2
  <2>2. {i \in 1..Len(s) : s[i] = id} = {k}
    BY <1>0, <2>1 DEF IsIndex
  <2>3. SelectInSeq(s, LAMBDA v : v = id) = k
    <3>1. Min({k}) = k
      BY <1>0 DEF Min
    <3> QED
      BY <2>2, <3>1 DEF SelectInSeq
  <2> DEFINE a == SubSeq(s, 1, k - 1)
             b == SubSeq(s, k + 1, Len(s))
             t == a \o b
  <2>4. RemoveFirst(s, id) = t
    BY <1>2, <2>3 DEF RemoveFirst, RemoveAt
  <2>5. /\ a \in Seq(Ids) /\ Len(a) = k - 1 /\ \A i \in 1..(k - 1) : a[i] = s[i]
        /\ b \in Seq(Ids) /\ Len(b) = Len(s) - k /\ \A i \in 1..(Len(s) - k) : b[i] = s[k + i]
    <3>1. \A i \in 1..Len(s) : s[i] \in Ids
      BY <1>0
    <3>2. \A i \in 1..(k - 1) : s[i] \in Ids
      BY <1>0, <3>1
    <3>3. \A i \in (k + 1)..Len(s) : s[i] \in Ids
      BY <1>0, <3>1
    <3>4. a \in Seq(Ids) /\ Len(a) = k - 1 /\ \A i \in 1..(k - 1) : a[i] = s[i]
      BY <1>0, <3>2, SubSeqProperties
    <3>5. b \in Seq(Ids) /\ Len(b) = Len(s) - k /\ \A i \in 1..(Len(s) - k) : b[i] = s[k + i]
      <4>1. /\ b \in Seq(Ids)
            /\ Len(b) = IF k + 1 <= Len(s) THEN Len(s) - (k + 1) + 1 ELSE 0
            /\ \A i \in 1..(Len(s) - (k + 1) + 1) : b[i] = s[(k + 1) + i - 1]
        BY <1>0, <3>3, SubSeqProperties
      <4>2. /\ Len(s) - (k + 1) + 1 = Len(s) - k
            /\ ~(k + 1 <= Len(s)) => Len(s) - k = 0
        <5> HIDE DEF a, b, t
        <5>1. k \in Int /\ Len(s) \in Int /\ k <= Len(s)
          BY <1>0
        <5>2. Len(s) - (k + 1) + 1 = Len(s) - k
          BY <5>1
        <5>3. k + 1 <= Len(s) \/ k = Len(s)
          BY <5>1
        <5>4. k = Len(s) => Len(s) - k = 0
          BY <5>1
        <5> QED
          BY <5>2, <5>3, <5>4
      <4>3. \A i \in 1..(Len(s) - k) : (k + 1) + i - 1 = k + i
        BY <1>0
      <4> HIDE DEF b
      <4>4. Len(b) = Len(s) - k
        BY <4>1, <4>2
      <4>5. \A i \in 1..(Len(s) - k) : b[i] = s[k + i]
        BY <4>1, <4>2, <4>3
      <4> QED
        BY <4>1, <4>4, <4>5
    <3> QED
      BY <3>4, <3>5
  <2> HIDE DEF a, b
  <2>6. /\ t \in Seq(Ids) /\ DOMAIN t = 1..(Len(s) - 1)
        /\ \A i \in 1..(Len(s) - 1) : t[i] = IF i < k THEN s[i] ELSE s[i + 1]
    <3>1. /\ t \in Seq(Ids) /\ Len(t) = Len(s) - 1
          /\ \A i \in 1..(Len(s) - 1) : t[i] = IF i <= k - 1 THEN a[i] ELSE b[i - (k - 1)]
      <4>1. Len(a) + Len(b) = Len(s) - 1
        BY <1>0, <2>5
      <4>2. /\ t \in Seq(Ids) /\ Len(t) = Len(a) + Len(b)
            /\ \A i \in 1..(Len(a) + Len(b)) : t[i] = IF i <= Len(a) THEN a[i] ELSE b[i - Len(a)]
        BY <2>5, ConcatProperties
      <4> HIDE DEF t
      <4> QED
        BY <2>5, <4>1, <4>2
    <3>2. ASSUME NEW i \in 1..(Len(s) - 1), ~(i < k)
          PROVE  b[i - (k - 1)] = s[i + 1]
      <4>1. i - (k - 1) \in 1..(Len(s) - k) /\ k + (i - (k - 1)) = i + 1
        BY <1>0, <3>2
      <4> QED
        BY <2>5, <4>1
    <3>3. \A i \in 1..(Len(s) - 1) : i < k => a[i] = s[i]
      BY <1>0, <2>5
    <3>4. \A i \in 1..(Len(s) - 1) : i <= k - 1 <=> i < k
      BY <1>0
    <3>5. DOMAIN t = 1..(Len(s) - 1)
      BY <3>1
    <3> HIDE DEF t
    <3> QED
      BY <3>1, <3>2, <3>3, <3>4, <3>5
  <2> HIDE DEF t
  <2>7. {t[i] : i \in DOMAIN t} = S \ {id}
    <3>1. ASSUME NEW i \in DOMAIN t PROVE t[i] \in S \ {id}
      <4>1. \E j \in 1..Len(s) : j # k /\ t[i] = s[j]
        <5>1. CASE i < k
          BY <1>0, <2>6, <5>1
        <5>2. CASE ~(i < k)
          <6>1. i + 1 \in 1..Len(s) /\ i + 1 # k
            BY <1>0, <2>6, <5>2
          <6> QED
            BY <2>6, <5>2, <6>1
        <5> QED
          BY <5>1, <5>2
      <4> QED
        BY <1>0, <2>1, <4>1 DEF IsIndex
    <3>2. ASSUME NEW x \in S \ {id} PROVE \E i \in DOMAIN t : t[i] = x
      <4>1. PICK j \in 1..Len(s) : s[j] = x /\ j # k
        BY <1>0, <2>1 DEF IsIndex
      <4>2. CASE j < k
        BY <1>0, <2>6, <4>1, <4>2
      <4>3. CASE j > k
        <5>1. j - 1 \in 1..(Len(s) - 1) /\ ~(j - 1 < k) /\ (j - 1) + 1 = j
          BY <1>0, <4>3
        <5> QED
          BY <2>6, <4>1, <5>1
      <4> QED
        BY <1>0, <4>1, <4>2, <4>3
    <3> QED
      BY <3>1, <3>2
  <2>8. \A i, j \in DOMAIN t : t[i] = t[j] => i = j
    BY <1>0, <2>1, <2>6 DEF IsIndex
  <2> QED
    BY <2>4, <2>6, <2>7, <2>8 DEF IsIndex
<1> QED
  BY <1>1, <1>2

-----------------------------------------------------------------------------
\* The subscription an id stands for does not change once the id is in use.

SameKey(id) ==
    /\ info'[id].client = info[id].client
    /\ info'[id].method = info[id].method
    /\ info'[id].uri = info[id].uri

LEMMA InitIInv == Init => IInv
<1> SUFFICES ASSUME Init PROVE IInv
  OBVIOUS
<1>1. TypeOK
  <2>1. Subscription # {}
    <3>1. PICK c \in Clients, m \in Methods, u \in Uris : TRUE
      BY SubscriptionAssumption
    <3>2. 0 \in 0..MaxClock
      BY SubscriptionAssumption
    <3>3. [client |-> c, method |-> m, uri |-> u, lastActive |-> 0] \in Subscription
      BY <3>1, <3>2 DEF Subscription
    <3> QED
      BY <3>3
  <2>2. info \in [Ids -> Subscription]
    BY <2>1 DEF Init
  <2>3. target \in Clients /\ 0 \in 0..MaxClock /\ 0 \in 0..MaxEvents
    BY SubscriptionAssumption DEF Init
  <2>4. IndexTypeOK
    BY <2>2, <2>3, EmptySeq DEF Init, IndexTypeOK
  <2>5. EventsTypeOK
    BY <2>3, EmptySeq, SubscriptionAssumption DEF Init, EventsTypeOK
  <2> QED
    BY <2>4, <2>5 DEF TypeOK
<1>2. Indices
  BY IndexEmpty DEF Init, Indices
<1>3. Numbering /\ Sightings /\ NoneSkipped
  BY SubscriptionAssumption DEF Init, Numbering, Sightings, NoneSkipped
<1> QED
  BY <1>1, <1>2, <1>3 DEF IInv

-----------------------------------------------------------------------------
\* The operations on the table keep the indices.

LEMMA SubscribeIndices ==
    ASSUME IndexTypeOK, Indices, NEW id \in Ids, NEW c \in Clients, NEW m \in Methods,
           NEW u \in Uris, Subscribe(id, c, m, u)
    PROVE  IndexTypeOK' /\ Indices'
<1> DEFINE new == [client |-> c, method |-> m, uri |-> u, lastActive |-> clock]
<1>1. /\ mutex = "free" /\ id \notin used /\ id \notin live
      /\ live' = live \cup {id} /\ used' = used \cup {id}
      /\ info' = [info EXCEPT ![id] = new] /\ new \in Subscription
      /\ byClient' = [byClient EXCEPT ![c] = Append(byClient[c], id)]
      /\ byMethod' = [byMethod EXCEPT ![m] = Append(byMethod[m], id)]
      /\ UNCHANGED <<mutex, todo, target, handlers, clock>>
  BY DEF Subscribe, IndexTypeOK, Subscription, writerVars, envVars
<1> HIDE DEF new
<1>2. \A i \in live : info'[i] = info[i]
  BY <1>1 DEF IndexTypeOK
<1>3. info'[id] = new /\ new.client = c /\ new.method = m
  BY <1>1 DEF IndexTypeOK, new
<1>4. \A d \in Clients : {i \in live' : info'[i].client = d} =
          {i \in live : info[i].client = d} \cup (IF d = c THEN {id} ELSE {})
  BY <1>1, <1>2, <1>3
<1>5. \A n \in Methods : {i \in live' : info'[i].method = n} =
          {i \in live : info[i].method = n} \cup (IF n = m THEN {id} ELSE {})
  BY <1>1, <1>2, <1>3
<1>6. /\ byClient[c] \in Seq(Ids) /\ byMethod[m] \in Seq(Ids)
      /\ IsIndex(byClient[c], {i \in live : info[i].client = c})
      /\ IsIndex(byMethod[m], {i \in live : info[i].method = m})
  BY <1>1 DEF IndexTypeOK, Indices
<1>7. /\ Append(byClient[c], id) \in Seq(Ids) /\ Append(byMethod[m], id) \in Seq(Ids)
      /\ IsIndex(Append(byClient[c], id), {i \in live : info[i].client = c} \cup {id})
      /\ IsIndex(Append(byMethod[m], id), {i \in live : info[i].method = m} \cup {id})
  BY <1>1, <1>6, IndexAppend
<1>8. IndexTypeOK'
  BY <1>1, <1>7 DEF IndexTypeOK
<1>9. \A d \in Clients : IsIndex(byClient'[d], {i \in live' : info'[i].client = d})
  <2> TAKE d \in Clients
  <2>1. CASE d = c
    BY <1>1, <1>4, <1>7, <2>1 DEF IndexTypeOK
  <2>2. CASE d # c
    <3>1. {i \in live' : info'[i].client = d} = {i \in live : info[i].client = d}
      BY <1>4, <2>2
    <3> QED
      BY <1>1, <2>2, <3>1 DEF IndexTypeOK, Indices
  <2> QED
    BY <2>1, <2>2
<1>10. \A n \in Methods : IsIndex(byMethod'[n], {i \in live' : info'[i].method = n})
  <2> TAKE n \in Methods
  <2>1. CASE n = m
    BY <1>1, <1>5, <1>7, <2>1 DEF IndexTypeOK
  <2>2. CASE n # m
    <3>1. {i \in live' : info'[i].method = n} = {i \in live : info[i].method = n}
      BY <1>5, <2>2
    <3> QED
      BY <1>1, <2>2, <3>1 DEF IndexTypeOK, Indices
  <2> QED
    BY <2>1, <2>2
<1> QED
  BY <1>1, <1>8, <1>9, <1>10 DEF Indices

\* Removing a live id from the table and from the slice of its method, and
\* from that of its client unless the latter is dropped as a whole.
LEMMA RemoveMethod ==
    ASSUME IndexTypeOK, Indices, NEW id \in live, live' = live \ {id}, UNCHANGED info,
           byMethod' = [byMethod EXCEPT ![info[id].method] = RemoveFirst(@, id)]
    PROVE  /\ byMethod' \in [Methods -> Seq(Ids)]
           /\ \A m \in Methods : IsIndex(byMethod'[m], {i \in live' : info'[i].method = m})
<1> DEFINE n == info[id].method
           S(m) == {i \in live : info[i].method = m}
<1>1. n \in Methods /\ byMethod \in [Methods -> Seq(Ids)]
  BY DEF IndexTypeOK, Subscription
<1>2. \A m \in Methods : IsIndex(byMethod[m], S(m))
  BY DEF Indices
<1>3. RemoveFirst(byMethod[n], id) \in Seq(Ids) /\ IsIndex(RemoveFirst(byMethod[n], id), S(n) \ {id})
  BY <1>1, <1>2, IndexRemove
<1>4. ASSUME NEW m \in Methods
      PROVE  IsIndex(byMethod'[m], {i \in live' : info'[i].method = m})
  <2>1. {i \in live' : info'[i].method = m} = IF m = n THEN S(n) \ {id} ELSE S(m)
    OBVIOUS
  <2>2. byMethod'[m] = IF m = n THEN RemoveFirst(byMethod[n], id) ELSE byMethod[m]
    BY <1>1
  <2> HIDE DEF n, S
  <2> QED
    BY <1>2, <1>3, <2>1, <2>2
<1>5. byMethod' \in [Methods -> Seq(Ids)]
  BY <1>1, <1>3
<1> QED
  BY <1>4, <1>5

LEMMA RemoveClient ==
    ASSUME IndexTypeOK, Indices, mutex # "client", NEW id \in live, live' = live \ {id},
           UNCHANGED info,
           byClient' = [byClient EXCEPT ![info[id].client] = RemoveFirst(@, id)]
    PROVE  /\ byClient' \in [Clients -> Seq(Ids)]
           /\ \A c \in Clients : IsIndex(byClient'[c], {i \in live' : info'[i].client = c})
<1> DEFINE n == info[id].client
           S(c) == {i \in live : info[i].client = c}
<1>1. n \in Clients /\ byClient \in [Clients -> Seq(Ids)]
  BY DEF IndexTypeOK, Subscription
<1>2. \A c \in Clients : IsIndex(byClient[c], S(c))
  BY DEF Indices
<1>3. RemoveFirst(byClient[n], id) \in Seq(Ids) /\ IsIndex(RemoveFirst(byClient[n], id), S(n) \ {id})
  BY <1>1, <1>2, IndexRemove
<1>4. ASSUME NEW c \in Clients
      PROVE  IsIndex(byClient'[c], {i \in live' : info'[i].client = c})
  <2>1. {i \in live' : info'[i].client = c} = IF c = n THEN S(n) \ {id} ELSE S(c)
    OBVIOUS
  <2>2. byClient'[c] = IF c = n THEN RemoveFirst(byClient[n], id) ELSE byClient[c]
    BY <1>1
  <2> HIDE DEF n, S
  <2> QED
    BY <1>2, <1>3, <2>1, <2>2
<1>5. byClient' \in [Clients -> Seq(Ids)]
  BY <1>1, <1>3
<1> QED
  BY <1>4, <1>5

LEMMA UnsubscribeIndices ==
    ASSUME IndexTypeOK, Indices, NEW id \in Ids, Unsubscribe(id)
    PROVE  IndexTypeOK' /\ Indices'
<1>1. /\ mutex = "free" /\ id \in live /\ live' = live \ {id}
      /\ UNCHANGED <<info, used, mutex, todo, target, handlers, clock>>
  BY DEF Unsubscribe, writerVars, envVars
<1>2. /\ byMethod' \in [Methods -> Seq(Ids)]
      /\ \A m \in Methods : IsIndex(byMethod'[m], {i \in live' : info'[i].method = m})
  BY <1>1, RemoveMethod DEF Unsubscribe
<1>3. /\ byClient' \in [Clients -> Seq(Ids)]
      /\ \A c \in Clients : IsIndex(byClient'[c], {i \in live' : info'[i].client = c})
  BY <1>1, RemoveClient DEF Unsubscribe
<1>4. IndexTypeOK'
  BY <1>1, <1>2, <1>3 DEF IndexTypeOK
<1> QED
  BY <1>1, <1>2, <1>3, <1>4 DEF Indices

LEMMA UnsubscribeClientIndices ==
    ASSUME IndexTypeOK, Indices, NEW c \in Clients, UnsubscribeClient(c)
    PROVE  IndexTypeOK' /\ Indices'
<1>1. /\ mutex = "free" /\ mutex' = "client" /\ target' = c
      /\ todo' = {byClient[c][i] : i \in DOMAIN byClient[c]}
      /\ UNCHANGED <<live, info, used, byClient, byMethod, handlers, clock>>
  BY DEF UnsubscribeClient, indexVars, envVars
<1>2. todo' = {id \in live : info[id].client = c}
  BY <1>1 DEF Indices, IsIndex
<1>3. IndexTypeOK'
  BY <1>1, <1>2 DEF IndexTypeOK
<1> QED
  BY <1>1, <1>2, <1>3 DEF Indices

LEMMA UnsubscribeClientNextIndices ==
    ASSUME IndexTypeOK, Indices, NEW id \in Ids, UnsubscribeClientNext(id)
    PROVE  IndexTypeOK' /\ Indices'
<1>1. /\ mutex = "client" /\ id \in todo /\ todo' = todo \ {id}
      /\ todo = {i \in live : info[i].client = target}
      /\ id \in live /\ live' = live \ {id} /\ info[id].client = target
      /\ UNCHANGED <<info, used, byClient, mutex, target, handlers, clock>>
  BY DEF UnsubscribeClientNext, Indices, envVars
<1>2. /\ byMethod' \in [Methods -> Seq(Ids)]
      /\ \A m \in Methods : IsIndex(byMethod'[m], {i \in live' : info'[i].method = m})
  BY <1>1, RemoveMethod DEF UnsubscribeClientNext
<1>3. ASSUME NEW c \in Clients, c # target
      PROVE  IsIndex(byClient'[c], {i \in live' : info'[i].client = c})
  <2>1. {i \in live' : info'[i].client = c} = {i \in live : info[i].client = c}
    BY <1>1, <1>3
  <2> QED
    BY <1>1, <1>3, <2>1 DEF Indices
<1>4. todo' = {i \in live' : info'[i].client = target'}
  BY <1>1
<1>5. IndexTypeOK'
  BY <1>1, <1>2 DEF IndexTypeOK
<1> QED
  BY <1>1, <1>2, <1>3, <1>4, <1>5 DEF Indices

LEMMA UnsubscribeClientDoneIndices ==
    ASSUME IndexTypeOK, Indices, UnsubscribeClientDone
    PROVE  IndexTypeOK' /\ Indices'
<1>1. /\ mutex = "client" /\ todo = {} /\ mutex' = "free"
      /\ byClient' = [byClient EXCEPT ![target] = <<>>]
      /\ UNCHANGED <<live, info, used, byMethod, todo, target, handlers, clock>>
  BY DEF UnsubscribeClientDone, envVars
<1>2. IndexTypeOK'
  BY <1>1, EmptySeq DEF IndexTypeOK
<1>3. ASSUME NEW c \in Clients
      PROVE  IsIndex(byClient'[c], {i \in live' : info'[i].client = c})
  <2>1. CASE c = target
    <3>1. byClient'[c] = <<>> /\ {i \in live' : info'[i].client = c} = {}
      BY <1>1, <2>1 DEF IndexTypeOK, Indices
    <3> QED
      BY <3>1, IndexEmpty
  <2>2. CASE c # target
    <3>1. byClient'[c] = byClient[c]
      BY <1>1, <2>2 DEF IndexTypeOK
    <3> QED
      BY <1>1, <2>2, <3>1 DEF Indices
  <2> QED
    BY <2>1, <2>2
<1> QED
  BY <1>1, <1>2, <1>3 DEF Indices

LEMMA TouchIndices ==
    ASSUME IndexTypeOK, Indices, NEW id \in Ids, TouchSubscription(id)
    PROVE  IndexTypeOK' /\ Indices'
<1>1. /\ mutex = "free" /\ info' = [info EXCEPT ![id].lastActive = clock]
      /\ UNCHANGED <<live, used, byClient, byMethod, mutex, todo, target, handlers, clock>>
  BY DEF TouchSubscription, writerVars, envVars
<1>2. info' \in [Ids -> Subscription]
  BY <1>1 DEF IndexTypeOK, Subscription
<1>3. \A i \in Ids : info'[i].client = info[i].client /\ info'[i].method = info[i].method
  BY <1>1 DEF IndexTypeOK, Subscription
<1>4. /\ \A c \in Clients : {i \in live' : info'[i].client = c} = {i \in live : info[i].client = c}
      /\ \A m \in Methods : {i \in live' : info'[i].method = m} = {i \in live : info[i].method = m}
  BY <1>1, <1>3 DEF IndexTypeOK
<1>5. IndexTypeOK'
  BY <1>1, <1>2 DEF IndexTypeOK
<1> QED
  BY <1>1, <1>4, <1>5 DEF Indices

LEMMA CleanupIndices ==
    ASSUME IndexTypeOK, Indices,
           \/ \E d \in 0..MaxClock : CleanupInactive(d)
           \/ \E id \in Ids : CleanupNext(id)
           \/ CleanupDone
    PROVE  IndexTypeOK' /\ Indices'
<1>1. ASSUME NEW d \in 0..MaxClock, CleanupInactive(d)
      PROVE  IndexTypeOK' /\ Indices'
  <2>1. /\ mutex = "free" /\ mutex' = "cleanup" /\ todo' \subseteq live
        /\ UNCHANGED <<live, info, used, byClient, byMethod, target, handlers, clock>>
    BY <1>1 DEF CleanupInactive, indexVars, envVars
  <2>2. IndexTypeOK'
    BY <2>1 DEF IndexTypeOK
  <2> QED
    BY <2>1, <2>2 DEF Indices
<1>2. ASSUME NEW id \in Ids, CleanupNext(id)
      PROVE  IndexTypeOK' /\ Indices'
  <2>1. /\ mutex = "cleanup" /\ id \in todo /\ id \in live
        /\ todo' = todo \ {id} /\ live' = live \ {id} /\ todo \subseteq live
        /\ UNCHANGED <<info, used, mutex, target, handlers, clock>>
    BY <1>2 DEF CleanupNext, Indices, envVars
  <2>2. /\ byMethod' \in [Methods -> Seq(Ids)]
        /\ \A m \in Methods : IsIndex(byMethod'[m], {i \in live' : info'[i].method = m})
    BY <1>2, <2>1, RemoveMethod DEF CleanupNext
  <2>3. /\ byClient' \in [Clients -> Seq(Ids)]
        /\ \A c \in Clients : IsIndex(byClient'[c], {i \in live' : info'[i].client = c})
    BY <1>2, <2>1, RemoveClient DEF CleanupNext
  <2>4. IndexTypeOK'
    BY <2>1, <2>2, <2>3 DEF IndexTypeOK
  <2> QED
    BY <2>1, <2>2, <2>3, <2>4 DEF Indices
<1>3. CASE CleanupDone
  <2>1. /\ mutex = "cleanup" /\ mutex' = "free"
        /\ UNCHANGED <<live, info, used, byClient, byMethod, todo, target, handlers, clock>>
    BY <1>3 DEF CleanupDone, indexVars, envVars
  <2>2. IndexTypeOK'
    BY <2>1 DEF IndexTypeOK
  <2> QED
    BY <2>1, <2>2 DEF Indices
<1> QED
  BY <1>1, <1>2, <1>3

-----------------------------------------------------------------------------
\* The operations on the table leave alone what was seen of ids in use.

TableStep ==
    \/ \E id \in Ids, c \in Clients, m \in Methods, u \in Uris : Subscribe(id, c, m, u)
    \/ \E id \in Ids : Unsubscribe(id) \/ TouchSubscription(id)
    \/ \E c \in Clients : UnsubscribeClient(c)
    \/ \E d \in 0..MaxClock : CleanupInactive(d)
    \/ WriterStep

LEMMA TableStepIndices ==
    ASSUME IndexTypeOK, Indices, TableStep
    PROVE  IndexTypeOK' /\ Indices'
<1>1. CASE WriterStep
  BY <1>1, UnsubscribeClientNextIndices, UnsubscribeClientDoneIndices, CleanupIndices
     DEF WriterStep
<1> QED
  BY <1>1, SubscribeIndices, UnsubscribeIndices, TouchIndices, UnsubscribeClientIndices,
     CleanupIndices DEF TableStep

LEMMA TableStepKeeps ==
    ASSUME IndexTypeOK, TableStep
    PROVE  /\ UNCHANGED <<eventVars, envVars>>
           /\ mutex # "handle" /\ mutex' # "handle"
           /\ used \subseteq used' /\ \A id \in used : SameKey(id)
<1>1. CASE \E id \in Ids, c \in Clients, m \in Methods, u \in Uris : Subscribe(id, c, m, u)
  BY <1>1 DEF Subscribe, SameKey, IndexTypeOK, writerVars
<1>2. CASE \E id \in Ids : TouchSubscription(id)
  BY <1>2 DEF TouchSubscription, SameKey, IndexTypeOK, Subscription, writerVars
<1>3. CASE \/ \E id \in Ids : Unsubscribe(id)
           \/ \E c \in Clients : UnsubscribeClient(c)
           \/ \E d \in 0..MaxClock : CleanupInactive(d)
           \/ WriterStep
  BY <1>3 DEF Unsubscribe, UnsubscribeClient, CleanupInactive, WriterStep,
              UnsubscribeClientNext, CleanupNext, UnsubscribeClientDone, CleanupDone,
              SameKey, writerVars, indexVars
<1> QED
  BY <1>1, <1>2, <1>3 DEF TableStep

LEMMA MatchedStays ==
    ASSUME Numbering, EventsTypeOK, used \subseteq used',
           \A id \in used : SameKey(id),
           Len(published) <= Len(published'),
           \A n \in 1..Len(published) : published'[n] = published[n],
           NEW id, NEW n \in 1..Len(published), Matched(id, n)
    PROVE  Matched(id, n)'
  BY DEF Matched, SameKey, MatchesSubscription

LEMMA TableStepIInv == IInv /\ TableStep => IInv'
<1> SUFFICES ASSUME IInv, TableStep PROVE IInv'
  OBVIOUS
<1>1. IndexTypeOK' /\ Indices'
  BY TableStepIndices DEF IInv, TypeOK
<1>2. /\ UNCHANGED <<manager, loop, published, eventChan, current, route, seenId,
                     spawned, delivered, handlers>>
      /\ mutex # "handle" /\ mutex' # "handle" /\ used \subseteq used'
      /\ \A id \in used : SameKey(id)
  BY TableStepKeeps DEF IInv, TypeOK, eventVars, loopVars, queueVars, fanVars, callVars, envVars
<1>3. EventsTypeOK'
  BY <1>2 DEF IInv, TypeOK, EventsTypeOK
<1>4. Numbering'
  BY <1>2 DEF IInv, Numbering
<1>5. loop' # "handle"
  BY <1>2 DEF IInv, Numbering
<1>6. Sightings'
  <2>1. EventsTypeOK /\ Numbering /\ Sightings
    BY DEF IInv, TypeOK
  <2>2. ASSUME NEW n \in 1..MaxEvents, seenId[n] # NoId
        PROVE  n <= Len(published) /\ Matched(seenId[n], n)'
    <3>1. n \in 1..Len(published) /\ Matched(seenId[n], n)
      BY <2>1, <2>2 DEF Sightings, EventsTypeOK
    <3> QED
      BY <1>2, <2>1, <3>1, MatchedStays
  <2>3. ASSUME NEW d \in delivered
        PROVE  d.call.event <= Len(published) /\ Matched(d.saw, d.call.event)'
    <3>1. d.call.event \in 1..Len(published) /\ Matched(d.saw, d.call.event)
      BY <2>1, <2>3 DEF Sightings, EventsTypeOK, Call
    <3> QED
      BY <1>2, <2>1, <3>1, MatchedStays
  <2> QED
    BY <1>2, <1>5, <2>1, <2>2, <2>3 DEF Sightings
<1>7. NoneSkipped'
  BY <1>5 DEF NoneSkipped
<1> QED
  BY <1>1, <1>3, <1>4, <1>6, <1>7 DEF IInv, TypeOK

LEMMA EnvironmentIInv ==
    ASSUME IInv, Tick \/ \E m \in Methods : RegisterHandler(m)
    PROVE  IInv'
<1>1. /\ UNCHANGED <<indexVars, writerVars, eventVars>>
      /\ clock' \in 0..MaxClock /\ handlers' \in SUBSET Methods
      /\ mutex # "free" => UNCHANGED handlers
  BY SubscriptionAssumption DEF IInv, TypeOK, IndexTypeOK, Tick, RegisterHandler, envVars
<1>2. TypeOK'
  BY <1>1 DEF IInv, TypeOK, IndexTypeOK, EventsTypeOK, indexVars, writerVars, eventVars,
              loopVars, queueVars, fanVars, callVars
<1>3. Indices' /\ Numbering'
  BY <1>1 DEF IInv, Indices, Numbering, indexVars, writerVars, eventVars, loopVars, queueVars,
              fanVars
<1>4. Sightings' /\ NoneSkipped'
  BY <1>1 DEF IInv, Sightings, NoneSkipped, Numbering, Matched, Started, CurrentMethod,
              indexVars, writerVars, eventVars, loopVars, queueVars, fanVars, callVars
<1> QED
  BY <1>2, <1>3, <1>4 DEF IInv

-----------------------------------------------------------------------------
\* Publishing, Start and Stop

LEMMA PublishIInv ==
    ASSUME IInv, NEW type \in EventTypes, NEW u \in Uris, PublishEvent(type, u)
    PROVE  IInv'
<1> DEFINE e == [type |-> type, uri |-> u]
<1>1. /\ UNCHANGED <<live, info, used, byClient, byMethod, mutex, todo, target, handlers,
                     clock, manager, loop, current, route, seenId, spawned, delivered>>
      /\ Len(published) < MaxEvents /\ published' = Append(published, e) /\ e \in Event
      /\ eventChan' = IF Len(eventChan) < QueueCap THEN Append(eventChan, Len(published'))
                      ELSE eventChan
  BY DEF PublishEvent, indexVars, writerVars, envVars, loopVars, fanVars, callVars, Event
<1> HIDE DEF e
<1>2. /\ published \in Seq(Event) /\ eventChan \in Seq(1..MaxEvents)
      /\ Len(eventChan) <= QueueCap /\ Len(published) \in Nat
  BY DEF IInv, TypeOK, EventsTypeOK
<1>3. /\ published' \in Seq(Event) /\ Len(published') = Len(published) + 1
      /\ \A n \in 1..Len(published) : published'[n] = published[n]
  BY <1>1, <1>2, AppendProperties
<1>4. Len(published') \in 1..MaxEvents
  BY <1>1, <1>2, <1>3, SubscriptionAssumption
<1>5. /\ eventChan' \in Seq(1..MaxEvents) /\ Len(eventChan') <= QueueCap
      /\ \A i \in DOMAIN eventChan' : eventChan'[i] \in 1..Len(published')
  <2>1. \A i \in DOMAIN eventChan : eventChan[i] \in 1..Len(published')
    BY <1>2, <1>3 DEF IInv, Numbering
  <2>2. CASE Len(eventChan) < QueueCap
    <3>1. /\ eventChan' \in Seq(1..MaxEvents) /\ Len(eventChan') = Len(eventChan) + 1
          /\ \A i \in 1..Len(eventChan) : eventChan'[i] = eventChan[i]
          /\ eventChan'[Len(eventChan) + 1] = Len(published')
      BY <1>1, <1>2, <1>4, <2>2, AppendProperties
    <3>2. Len(eventChan) \in Nat /\ DOMAIN eventChan = 1..Len(eventChan)
          /\ DOMAIN eventChan' = 1..Len(eventChan')
      BY <1>2, <3>1
    <3>3. Len(eventChan') <= QueueCap
      BY <2>2, <3>1, <3>2, SubscriptionAssumption
    <3> QED
      BY <1>2, <1>4, <2>1, <3>1, <3>2, <3>3
  <2>3. CASE ~(Len(eventChan) < QueueCap)
    BY <1>1, <1>2, <2>1, <2>3
  <2> QED
    BY <2>2, <2>3
<1>6. TypeOK'
  BY <1>1, <1>3, <1>5 DEF IInv, TypeOK, IndexTypeOK, EventsTypeOK
<1>7. Indices'
  BY <1>1 DEF IInv, Indices
<1>8. Numbering'
  BY <1>1, <1>2, <1>3, <1>4, <1>5 DEF IInv, Numbering
<1>9. loop = "handle" => CurrentMethod' = CurrentMethod /\ published'[current'] = published[current]
  BY <1>1, <1>3 DEF IInv, Numbering, CurrentMethod
<1>10. Sightings'
  <2>1. EventsTypeOK /\ Numbering /\ Sightings
    BY DEF IInv, TypeOK
  <2>2. /\ used \subseteq used' /\ \A id \in used : SameKey(id)
        /\ Len(published) <= Len(published')
    BY <1>1, <1>2, <1>3 DEF SameKey
  <2>3. ASSUME NEW n \in 1..MaxEvents, seenId[n] # NoId
        PROVE  n <= Len(published') /\ Matched(seenId[n], n)'
    <3>1. n \in 1..Len(published) /\ Matched(seenId[n], n)
      BY <2>1, <2>3 DEF Sightings, EventsTypeOK
    <3>2. Matched(seenId[n], n)'
      BY <1>1, <1>3, <2>1, <2>2, <3>1, MatchedStays
    <3> QED
      BY <1>2, <1>3, <3>1, <3>2
  <2>4. ASSUME NEW d \in delivered
        PROVE  d.call.event <= Len(published') /\ Matched(d.saw, d.call.event)'
    <3>1. d.call.event \in 1..Len(published) /\ Matched(d.saw, d.call.event)
      BY <2>1, <2>4 DEF Sightings, EventsTypeOK, Call
    <3>2. Matched(d.saw, d.call.event)'
      BY <1>1, <1>3, <2>1, <2>2, <3>1, MatchedStays
    <3> QED
      BY <1>2, <1>3, <3>1, <3>2
  <2> QED
    BY <1>1, <1>9, <2>1, <2>3, <2>4 DEF Sightings
<1>11. NoneSkipped'
  BY <1>1, <1>9 DEF IInv, NoneSkipped, Started
<1> QED
  BY <1>6, <1>7, <1>8, <1>10, <1>11 DEF IInv

\* What neither the table nor the records of calls can tell from a stutter.
LEMMA OnlyReads ==
    ASSUME IndexTypeOK, Indices,
           UNCHANGED <<indexVars, todo, target, envVars>>,
           \/ mutex' = mutex
           \/ mutex \in {"free", "handle"} /\ mutex' \in {"free", "handle"}
    PROVE  /\ IndexTypeOK' /\ Indices'
           /\ UNCHANGED <<live, info, used, byClient, byMethod, handlers>>
<1>1. UNCHANGED <<live, info, used, byClient, byMethod, todo, target, handlers, clock>>
  BY DEF indexVars, envVars
<1>2. IndexTypeOK'
  BY <1>1 DEF IndexTypeOK
<1>3. Indices'
  BY <1>1 DEF Indices
<1> QED
  BY <1>1, <1>2, <1>3

LEMMA ManagerIInv ==
    ASSUME IInv, Start \/ StopCancel \/ StopReturn \/ ExitLoop
    PROVE  IInv'
<1>1. /\ UNCHANGED <<indexVars, writerVars, envVars, queueVars, fanVars, callVars>>
      /\ manager' \in {"new", "running", "stopping", "stopped"}
      /\ loop' = loop \/ (loop # "handle" /\ loop' \in {"off", "select"})
      /\ manager' \in {"new", "stopped"} => loop' = "off"
  <2>1. CASE Start
    BY <2>1 DEF Start, IInv, Numbering
  <2>2. CASE StopCancel
    BY <2>2 DEF StopCancel
  <2>3. CASE StopReturn
    BY <2>3 DEF StopReturn
  <2>4. CASE ExitLoop
    BY <2>4 DEF ExitLoop, IInv, TypeOK, EventsTypeOK
  <2> QED
    BY <2>1, <2>2, <2>3, <2>4
<1>2. /\ UNCHANGED <<published, eventChan, current, route, seenId, spawned, delivered>>
      /\ UNCHANGED <<indexVars, todo, target, envVars, mutex>>
  BY <1>1 DEF writerVars, queueVars, fanVars, callVars
<1>3. /\ IndexTypeOK' /\ Indices'
      /\ UNCHANGED <<live, info, used, byClient, byMethod, handlers>>
  BY <1>2, OnlyReads DEF IInv, TypeOK
<1>4. TypeOK'
  BY <1>1, <1>2, <1>3 DEF IInv, TypeOK, EventsTypeOK
<1>5. Numbering'
  BY <1>1, <1>2 DEF IInv, Numbering
<1>6. Sightings' /\ NoneSkipped'
  BY <1>1, <1>2, <1>3 DEF IInv, Sightings, NoneSkipped, Matched, Started, CurrentMethod
<1> QED
  BY <1>3, <1>4, <1>5, <1>6 DEF IInv

-----------------------------------------------------------------------------
\* The loop and the goroutines it starts.

LEMMA TakeEventIInv == IInv /\ TakeEvent => IInv'
<1> SUFFICES ASSUME IInv, TakeEvent PROVE IInv'
  OBVIOUS
<1>1. /\ loop = "select" /\ loop' = "rlock" /\ eventChan # <<>>
      /\ current' = Head(eventChan) /\ eventChan' = Tail(eventChan)
      /\ UNCHANGED <<manager, published, route, seenId, spawned, delivered>>
      /\ UNCHANGED <<indexVars, todo, target, envVars, mutex>>
  BY DEF TakeEvent, writerVars, callVars
<1>2. /\ IndexTypeOK' /\ Indices'
      /\ UNCHANGED <<live, info, used, byClient, byMethod, handlers>>
  BY <1>1, OnlyReads DEF IInv, TypeOK
<1>3. /\ eventChan \in Seq(1..MaxEvents) /\ Len(eventChan) <= QueueCap
      /\ \A i \in DOMAIN eventChan : eventChan[i] \in 1..Len(published)
  BY DEF IInv, TypeOK, EventsTypeOK, Numbering
<1>4. /\ eventChan' \in Seq(1..MaxEvents) /\ Len(eventChan') = Len(eventChan) - 1
      /\ \A i \in 1..(Len(eventChan) - 1) : eventChan'[i] = eventChan[i + 1]
      /\ current' = eventChan[1]
  BY <1>1, <1>3, HeadTailProperties
<1>5. Len(eventChan) \in Nat \ {0} /\ DOMAIN eventChan = 1..Len(eventChan)
  BY <1>1, <1>3, EmptySeq
<1>6. current' \in 1..Len(published) /\ current' \in 0..MaxEvents
  <2>1. 1 \in DOMAIN eventChan
    BY <1>5
  <2>2. eventChan[1] \in 1..Len(published) /\ Len(published) \in Nat
    BY <1>3, <2>1 DEF IInv, TypeOK, EventsTypeOK
  <2>3. Len(published) <= MaxEvents
    BY DEF IInv, Numbering
  <2> QED
    BY <1>4, <2>2, <2>3, SubscriptionAssumption
<1>7. \A i \in DOMAIN eventChan' : eventChan'[i] \in 1..Len(published)
  <2> SUFFICES ASSUME NEW i \in DOMAIN eventChan'
               PROVE  eventChan'[i] \in 1..Len(published)
    OBVIOUS
  <2>1. i \in 1..(Len(eventChan) - 1)
    BY <1>4
  <2>2. i + 1 \in DOMAIN eventChan
    BY <1>5, <2>1
  <2> QED
    BY <1>3, <1>4, <2>1, <2>2
<1>8. Len(eventChan') <= QueueCap
  BY <1>3, <1>4, <1>5, SubscriptionAssumption
<1>9. TypeOK'
  BY <1>1, <1>2, <1>4, <1>6, <1>8 DEF IInv, TypeOK, EventsTypeOK
<1>10. Numbering'
  BY <1>1, <1>6, <1>7 DEF IInv, Numbering
<1>11. Sightings' /\ NoneSkipped'
  BY <1>1, <1>2 DEF IInv, Sightings, NoneSkipped, Matched
<1> QED
  BY <1>2, <1>9, <1>10, <1>11 DEF IInv

LEMMA BeginHandleIInv == IInv /\ BeginHandle => IInv'
<1> SUFFICES ASSUME IInv, BeginHandle PROVE IInv'
  OBVIOUS
<1>1. /\ loop = "rlock" /\ mutex = "free" /\ mutex' = "handle" /\ loop' = "handle"
      /\ route' = IF CurrentMethod \in Methods THEN byMethod[CurrentMethod] ELSE <<>>
      /\ UNCHANGED <<manager, published, eventChan, current, seenId, spawned, delivered>>
      /\ UNCHANGED <<indexVars, todo, target, envVars>>
  BY DEF BeginHandle, queueVars, callVars
<1>2. /\ IndexTypeOK' /\ Indices'
      /\ UNCHANGED <<live, info, used, byClient, byMethod, handlers>>
  BY <1>1, OnlyReads DEF IInv, TypeOK
<1>3. CurrentMethod' = CurrentMethod
  BY <1>1 DEF CurrentMethod
<1>4. /\ route' \in Seq(Ids)
      /\ \A i \in DOMAIN route' : route'[i] \in used /\ info[route'[i]].method = CurrentMethod
      /\ \A id \in live : info[id].method = CurrentMethod => \E i \in DOMAIN route' : route'[i] = id
  <2>1. CASE CurrentMethod \in Methods
    <3>1. /\ route' \in Seq(Ids)
          /\ IsIndex(route', {id \in live : info[id].method = CurrentMethod})
          /\ live \subseteq used
      BY <1>1, <2>1 DEF IInv, TypeOK, IndexTypeOK, Indices
    <3> QED
      BY <3>1 DEF IsIndex
  <2>2. CASE CurrentMethod \notin Methods
    <3>1. route' = <<>> /\ \A id \in live : info[id].method \in Methods
      BY <1>1, <2>2 DEF IInv, TypeOK, IndexTypeOK, Subscription
    <3> QED
      BY <2>2, <3>1, EmptySeq
  <2> QED
    BY <2>1, <2>2
<1>5. TypeOK'
  BY <1>1, <1>2, <1>4 DEF IInv, TypeOK, EventsTypeOK
<1>6. Numbering'
  BY <1>1 DEF IInv, Numbering
<1>7. Sightings'
  BY <1>1, <1>2, <1>3, <1>4 DEF IInv, Sightings, Matched
<1>8. NoneSkipped'
  BY <1>1, <1>2, <1>3, <1>4 DEF NoneSkipped
<1> QED
  BY <1>2, <1>5, <1>6, <1>7, <1>8 DEF IInv

LEMMA HandleNextIInv == IInv /\ HandleNext => IInv'
<1> SUFFICES ASSUME IInv, HandleNext PROVE IInv'
  OBVIOUS
<1> DEFINE id == Head(route)
           hit == id \in live /\ MatchesSubscription(info[id], published[current])
           call == [event |-> current, sub |-> id]
<1>1. /\ loop = "handle" /\ route # <<>> /\ route' = Tail(route)
      /\ seenId' = IF hit THEN [seenId EXCEPT ![current] = id] ELSE seenId
      /\ spawned' = IF hit /\ CurrentMethod \in handlers THEN spawned \cup {call} ELSE spawned
      /\ UNCHANGED <<manager, loop, published, eventChan, current, delivered>>
      /\ UNCHANGED <<indexVars, todo, target, envVars, mutex>>
  BY DEF HandleNext, writerVars, loopVars, queueVars
<1>2. /\ IndexTypeOK' /\ Indices'
      /\ UNCHANGED <<live, info, used, byClient, byMethod, handlers>>
  BY <1>1, OnlyReads DEF IInv, TypeOK
<1>3. /\ route \in Seq(Ids) /\ route' \in Seq(Ids) /\ Len(route') = Len(route) - 1
      /\ \A i \in 1..(Len(route) - 1) : route'[i] = route[i + 1]
      /\ Len(route) \in Nat \ {0} /\ DOMAIN route = 1..Len(route)
      /\ id = route[1] /\ id \in Ids
  <2>1. route \in Seq(Ids) /\ route # <<>>
    BY <1>1 DEF IInv, TypeOK, EventsTypeOK
  <2>2. Len(route) \in Nat \ {0} /\ DOMAIN route = 1..Len(route)
    BY <2>1, EmptySeq
  <2> QED
    BY <1>1, <2>1, <2>2, HeadTailProperties
<1>4. current \in 1..Len(published) /\ current \in 1..MaxEvents /\ id \in used
      /\ info[id].method = CurrentMethod
  <2>1. /\ current \in 1..Len(published) /\ Len(published) \in Nat
        /\ Len(published) <= MaxEvents
    BY <1>1 DEF IInv, Numbering, TypeOK, EventsTypeOK
  <2>2. 1 \in DOMAIN route
    BY <1>3
  <2> QED
    BY <1>1, <1>3, <2>1, <2>2, SubscriptionAssumption DEF IInv, Sightings
<1> HIDE DEF id, hit, call
<1>5. hit => Matched(id, current)
  BY <1>4 DEF hit, Matched, CurrentMethod
<1>6. CurrentMethod' = CurrentMethod
  BY <1>1 DEF CurrentMethod
<1>7. /\ seenId' \in [1..MaxEvents -> Ids \cup {NoId}]
      /\ \A n \in 1..MaxEvents : seenId'[n] = IF hit /\ n = current THEN id ELSE seenId[n]
  BY <1>1, <1>3, <1>4 DEF IInv, TypeOK, EventsTypeOK
<1>8. /\ spawned' \in SUBSET Call /\ spawned \subseteq spawned'
      /\ (hit /\ CurrentMethod \in handlers) => call \in spawned'
  BY <1>1, <1>3, <1>4 DEF IInv, TypeOK, EventsTypeOK, Call, call
<1>9. \A i \in DOMAIN route' : i + 1 \in DOMAIN route /\ route'[i] = route[i + 1]
  BY <1>3
<1>10. TypeOK'
  BY <1>1, <1>2, <1>3, <1>7, <1>8 DEF IInv, TypeOK, EventsTypeOK
<1>11. Numbering'
  BY <1>1 DEF IInv, Numbering
<1>12. Sightings'
  <2>1. \A i \in DOMAIN route' : route'[i] \in used /\ info[route'[i]].method = CurrentMethod
    BY <1>1, <1>9 DEF IInv, Sightings
  <2>2. \A n \in 1..MaxEvents :
           seenId'[n] # NoId => n <= Len(published) /\ Matched(seenId'[n], n)
    BY <1>4, <1>5, <1>7 DEF IInv, Sightings
  <2>3. \A c \in spawned' : seenId'[c.event] # NoId
    <3> SUFFICES ASSUME NEW c \in spawned' PROVE seenId'[c.event] # NoId
      OBVIOUS
    <3>1. id # NoId
      BY <1>3, SubscriptionAssumption
    <3>2. c.event \in 1..MaxEvents
      BY <1>8 DEF Call
    <3>3. CASE c \in spawned
      BY <1>7, <3>1, <3>2, <3>3 DEF IInv, Sightings
    <3>4. CASE c \notin spawned
      <4>1. hit /\ c.event = current
        BY <1>1, <3>4 DEF call
      <4> QED
        BY <1>4, <1>7, <3>1, <4>1
    <3> QED
      BY <3>3, <3>4
  <2> QED
    BY <1>1, <1>2, <1>6, <2>1, <2>2, <2>3 DEF IInv, Sightings, Matched
<1>13. NoneSkipped'
  <2> SUFFICES ASSUME NEW x \in live, info[x].method = CurrentMethod,
                      MatchesSubscription(info[x], published[current]),
                      CurrentMethod \in handlers
               PROVE  (\E i \in DOMAIN route' : route'[i] = x) \/ Started(x)'
    BY <1>1, <1>2, <1>6 DEF NoneSkipped
  <2>1. Started(x) => Started(x)'
    BY <1>1, <1>8 DEF Started
  <2>2. CASE x = id
    <3>1. call \in spawned'
      BY <1>8, <2>2 DEF hit
    <3> QED
      BY <1>1, <2>2, <3>1 DEF Started, call
  <2>3. ASSUME NEW i \in DOMAIN route, route[i] = x, x # id
        PROVE  \E j \in DOMAIN route' : route'[j] = x
    <3>1. i \in 1..Len(route) /\ i # 1
      BY <1>3, <2>3
    <3>2. i - 1 \in 1..(Len(route) - 1) /\ (i - 1) + 1 = i
      BY <1>3, <3>1
    <3>3. i - 1 \in DOMAIN route'
      BY <1>3, <3>2
    <3> QED
      BY <1>9, <2>3, <3>2, <3>3
  <2> QED
    BY <1>1, <2>1, <2>2, <2>3 DEF IInv, NoneSkipped
<1> QED
  BY <1>2, <1>10, <1>11, <1>12, <1>13 DEF IInv

LEMMA EndHandleIInv == IInv /\ EndHandle => IInv'
<1> SUFFICES ASSUME IInv, EndHandle PROVE IInv'
  OBVIOUS
<1>1. /\ loop = "handle" /\ mutex' = "free" /\ loop' = "select" /\ current' = 0
      /\ UNCHANGED <<manager, published, eventChan, route, seenId, spawned, delivered>>
      /\ UNCHANGED <<indexVars, todo, target, envVars>>
  BY DEF EndHandle, queueVars, callVars
<1>2. mutex = "handle"
  BY <1>1 DEF IInv, Numbering
<1>3. /\ IndexTypeOK' /\ Indices'
      /\ UNCHANGED <<live, info, used, byClient, byMethod, handlers>>
  BY <1>1, <1>2, OnlyReads DEF IInv, TypeOK
<1>4. TypeOK'
  BY <1>1, <1>3, SubscriptionAssumption DEF IInv, TypeOK, EventsTypeOK
<1>5. Numbering'
  BY <1>1 DEF IInv, Numbering
<1>6. Sightings' /\ NoneSkipped'
  BY <1>1, <1>3 DEF IInv, Sightings, NoneSkipped, Matched
<1> QED
  BY <1>3, <1>4, <1>5, <1>6 DEF IInv

LEMMA CallHandlerIInv ==
    ASSUME IInv, NEW call \in spawned, CallHandler(call)
    PROVE  IInv'
<1> DEFINE d == [call |-> call, saw |-> seenId[call.event]]
<1>1. /\ spawned' = spawned \ {call} /\ delivered' = delivered \cup {d}
      /\ UNCHANGED <<manager, loop, published, eventChan, current, route, seenId>>
      /\ UNCHANGED <<indexVars, todo, target, envVars, mutex>>
  BY DEF CallHandler, writerVars, loopVars, queueVars, fanVars
<1>2. /\ IndexTypeOK' /\ Indices'
      /\ UNCHANGED <<live, info, used, byClient, byMethod, handlers>>
  BY <1>1, OnlyReads DEF IInv, TypeOK
<1>3. call \in Call /\ call.event \in 1..MaxEvents /\ seenId[call.event] \in Ids \cup {NoId}
  BY DEF IInv, TypeOK, EventsTypeOK, Call
<1>4. call.event <= Len(published) /\ Matched(seenId[call.event], call.event)
  BY <1>3 DEF IInv, Sightings
<1>5. TypeOK'
  BY <1>1, <1>2, <1>3 DEF IInv, TypeOK, EventsTypeOK
<1>6. Numbering'
  BY <1>1 DEF IInv, Numbering
<1>7. Sightings'
  BY <1>1, <1>2, <1>4 DEF IInv, Sightings, Matched, CurrentMethod
<1>8. ASSUME NEW id, Started(id) PROVE Started(id)'
  <2> DEFINE c == [event |-> current, sub |-> id]
  <2>1. c \in spawned \/ \E e \in delivered : e.call = c
    BY <1>8 DEF Started
  <2>2. c = call => d \in delivered' /\ d.call = c
    BY <1>1
  <2> HIDE DEF c, d
  <2>3. c \in spawned' \/ \E e \in delivered' : e.call = c
    BY <1>1, <2>1, <2>2
  <2> QED
    BY <1>1, <2>3 DEF Started, c
<1>9. NoneSkipped'
  BY <1>1, <1>2, <1>8 DEF IInv, NoneSkipped, CurrentMethod
<1> QED
  BY <1>2, <1>5, <1>6, <1>7, <1>9 DEF IInv

LEMMA StutterIInv == IInv /\ UNCHANGED vars => IInv'
<1> SUFFICES ASSUME IInv, UNCHANGED vars PROVE IInv'
  OBVIOUS
<1>1. /\ UNCHANGED <<manager, loop, published, eventChan, current, route, seenId, spawned,
                     delivered>>
      /\ UNCHANGED <<indexVars, todo, target, envVars, mutex>>
  BY DEF vars, writerVars, eventVars, loopVars, queueVars, fanVars, callVars
<1>2. /\ IndexTypeOK' /\ Indices'
      /\ UNCHANGED <<live, info, used, byClient, byMethod, handlers>>
  BY <1>1, OnlyReads DEF IInv, TypeOK
<1>3. TypeOK' /\ Numbering'
  BY <1>1, <1>2 DEF IInv, TypeOK, EventsTypeOK, Numbering
<1>4. Sightings' /\ NoneSkipped'
  BY <1>1, <1>2 DEF IInv, Sightings, NoneSkipped, Matched, Started, CurrentMethod
<1> QED
  BY <1>2, <1>3, <1>4 DEF IInv

LEMMA NextIInv == IInv /\ [Next]_vars => IInv'
<1> SUFFICES ASSUME IInv, Next PROVE IInv'
  BY StutterIInv
<1>1. CASE TableStep
  BY <1>1, TableStepIInv
<1>2. CASE LoopStep
  BY <1>2, ManagerIInv, TakeEventIInv, BeginHandleIInv, HandleNextIInv, EndHandleIInv
     DEF LoopStep
<1> QED
  BY <1>1, <1>2, EnvironmentIInv, PublishIInv, ManagerIInv, CallHandlerIInv
     DEF Next, TableStep

-----------------------------------------------------------------------------
\* The theorems.

THEOREM Invariance == Spec => []IInv
  BY InitIInv, NextIInv, PTL DEF Spec

(* Every variable keeps its type; the channel of events never exceeds its   *)
(* capacity.                                                                *)
THEOREM TypeCorrect == Spec => []TypeOK
  BY Invariance, PTL DEF IInv

(* Whenever no writer holds the mutex, the table of subscriptions and the   *)
(* indices by client and by method agree (subscriptions/manager.go).        *)
THEOREM IndicesAgree == Spec => []IndexConsistent
<1>1. IInv => IndexConsistent
  BY DEF IInv, Indices, IndexConsistent
<1> QED
  BY <1>1, Invariance, PTL

LEMMA SoundFromSightings == IInv => DeliverySound
  BY DEF IInv, Sightings, Matched, DeliverySound

LEMMA EveryMatchStarted ==
    ASSUME IInv, EndHandle, NEW id \in live,
           info[id].method = CurrentMethod,
           MatchesSubscription(info[id], published[current]),
           CurrentMethod \in handlers
    PROVE  Started(id)
<1>1. loop = "handle" /\ route = <<>>
  BY DEF EndHandle
<1>2. (\E i \in DOMAIN route : route[i] = id) \/ Started(id)
  BY <1>1 DEF IInv, NoneSkipped
<1>3. DOMAIN route = {}
  BY <1>1
<1> QED
  BY <1>2, <1>3

(* Handlers are called for every live subscription an event matches, and    *)
(* whatever the race on the captured event does, they only see ids of       *)
(* subscriptions it matches (subscriptions/manager.go, handleEvent).        *)
THEOREM EventsReach == Spec => EventsReachSubscribers
<1> DEFINE Reaches ==
        EndHandle =>
            \A id \in live :
                /\ info[id].method = CurrentMethod
                /\ MatchesSubscription(info[id], published[current])
                /\ CurrentMethod \in handlers
                => LET call == [event |-> current, sub |-> id]
                   IN  call \in spawned \/ \E d \in delivered : d.call = call
<1>1. IInv => TypeOK /\ DeliverySound
  BY SoundFromSightings DEF IInv
<1>2. IInv => Reaches
  BY EveryMatchStarted DEF Started
<1> HIDE DEF Reaches
<1>3. Spec => [][Reaches]_vars
  BY <1>2, Invariance, PTL
<1>4. Spec => []TypeOK /\ []DeliverySound
  BY <1>1, Invariance, PTL
<1> QED
  BY <1>3, <1>4, PTL DEF EventsReachSubscribers, EventReachesEveryMatch, Reaches

-----------------------------------------------------------------------------
(***************************************************************************)
(* The notifier.                                                           *)
(***************************************************************************)
NotifierOptions ==
    /\ NotifiedClients \subseteq Names /\ Names # {}
    /\ QueueSize \in Nat /\ MaxAccepted \in Nat /\ MaxHandlers \in Nat

Numbered == N!Message \cup {N!NoMessage}
Rises(s) == \A i, j \in 1..Len(s) : i < j => s[i].n < s[j].n

Table ==
    /\ DOMAIN clientInfo \subseteq NotifiedClients
    /\ clientInfo \in [DOMAIN clientInfo -> Features]
    /\ stale \subseteq DOMAIN clientInfo
    /\ handlerCount \in [Transports -> 0..MaxHandlers]

Control ==
    /\ phase \in {"new", "running", "stopping", "stopped", "panicked"}
    /\ nLoop \in {"off", "select", "lookup", "touch", "try"}
    /\ closed \in BOOLEAN /\ held \in BOOLEAN /\ fatal \in BOOLEAN
    /\ untried \subseteq Transports \X (1..MaxHandlers)

Sending ==
    sends \in [Senders -> [pc : {"idle", "send", "full", "panicked"}, left : SUBSET Names]]

\* Messages are numbered as they are accepted: those in the queue rise from
\* above the one the loop has, and those delivered to it.
Flow ==
    /\ queue \in Seq(N!Message) /\ Len(queue) <= QueueSize
    /\ accepted \in Nat /\ accepted <= MaxAccepted
    /\ message \in Numbered /\ message.n <= accepted
    /\ nDelivered \in Seq(Numbered)
    /\ Rises(queue) /\ Rises(nDelivered)
    /\ \A i \in 1..Len(queue) : message.n < queue[i].n /\ queue[i].n <= accepted
    /\ \A i \in 1..Len(nDelivered) :
          /\ nDelivered[i].n <= message.n
          /\ nLoop \in {"lookup", "touch", "try"} => nDelivered[i].n < message.n

NotifierInv == Table /\ Control /\ Sending /\ Flow

LEMMA Numbers ==
    ASSUME NotifierOptions
    PROVE  \A m \in Numbered : m.n \in Nat
  BY DEF NotifierOptions, Numbered, N!Message, N!NoMessage

LEMMA RisesAppend ==
    ASSUME NEW S, NEW s \in Seq(S), NEW x \in S, \A y \in S : y.n \in Nat,
           Rises(s), \A i \in 1..Len(s) : s[i].n < x.n
    PROVE  /\ Append(s, x) \in Seq(S) /\ Len(Append(s, x)) = Len(s) + 1
           /\ Rises(Append(s, x))
           /\ \A i \in 1..Len(s) + 1 : \/ i \in 1..Len(s) /\ Append(s, x)[i] = s[i]
                                       \/ Append(s, x)[i] = x
<1>1. /\ Append(s, x) \in Seq(S) /\ Len(Append(s, x)) = Len(s) + 1 /\ Len(s) \in Nat
      /\ \A i \in 1..Len(s) : Append(s, x)[i] = s[i]
      /\ Append(s, x)[Len(s) + 1] = x
  BY AppendProperties
<1> DEFINE t == Append(s, x)
<1> HIDE DEF t
<1>2. \A i \in 1..Len(s) + 1 : i \in 1..Len(s) \/ i = Len(s) + 1
  BY <1>1
<1>3. \A i, j \in 1..Len(s) + 1 : i < j => t[i].n < t[j].n
  <2> SUFFICES ASSUME NEW i \in 1..Len(s) + 1, NEW j \in 1..Len(s) + 1, i < j
               PROVE  t[i].n < t[j].n
    OBVIOUS
  <2>1. i \in 1..Len(s) /\ t[i] = s[i]
    BY <1>1 DEF t
  <2>2. CASE j = Len(s) + 1
    BY <1>1, <2>1, <2>2 DEF t
  <2>3. CASE j \in 1..Len(s)
    BY <1>1, <2>1, <2>3 DEF t, Rises
  <2> QED
    BY <1>2, <2>2, <2>3
<1>4. Rises(t)
  BY <1>1, <1>3 DEF Rises, t
<1> QED
  BY <1>1, <1>2, <1>4 DEF t

\* Steps that leave the messages alone and take none up.
LEMMA FlowKept ==
    ASSUME Flow, queue' = queue, accepted' = accepted, message' = message,
           nDelivered' = nDelivered,
           nLoop' \in {"lookup", "touch", "try"} => nLoop \in {"lookup", "touch", "try"}
    PROVE  Flow'
  BY DEF Flow, Rises

LEMMA EnqueueKeeps ==
    ASSUME NotifierOptions, NotifierInv, NEW s \in Senders, NEW to, N!Enqueue(s, to)
    PROVE  Flow'
<1>0. Flow /\ Sending
  BY DEF NotifierInv
<1>1. PICK n \in Nat : n = accepted + 1
  BY <1>0 DEF Flow
<1> DEFINE m == [to |-> to, n |-> n]
<1>2. /\ accepted < MaxAccepted /\ accepted' = n /\ Len(queue) < QueueSize
      /\ queue' = Append(queue, m)
      /\ message' = message /\ nDelivered' = nDelivered /\ nLoop' = nLoop
      /\ to \in sends[s].left
  BY <1>1 DEF N!Enqueue, N!loopVars
<1>3. MaxAccepted \in Nat /\ QueueSize \in Nat /\ accepted \in Nat
  BY <1>0 DEF NotifierOptions, Flow
<1>4. n \in 1..MaxAccepted /\ accepted < n /\ n <= MaxAccepted
  BY <1>1, <1>2, <1>3
<1>5. m \in N!Message /\ m.n = n
  BY <1>0, <1>2, <1>4 DEF Sending, N!Message
<1>6. \A y \in N!Message : y.n \in Nat
  BY Numbers DEF Numbered
<1> HIDE DEF m
<1>7. \A i \in 1..Len(queue) : queue[i] \in N!Message /\ queue[i].n < m.n /\ queue[i].n <= n
  BY <1>0, <1>3, <1>4, <1>5, <1>6 DEF Flow
<1>8. /\ queue' \in Seq(N!Message) /\ Len(queue') = Len(queue) + 1 /\ Rises(queue')
      /\ \A i \in 1..Len(queue) + 1 : \/ i \in 1..Len(queue) /\ queue'[i] = queue[i]
                                      \/ queue'[i] = m
  BY <1>0, <1>2, <1>5, <1>6, <1>7, RisesAppend DEF Flow
<1>9. message \in Numbered /\ message.n \in Nat /\ message.n <= accepted /\ Len(queue) \in Nat
  BY <1>0, Numbers DEF Flow
<1>10. message.n < n
  BY <1>3, <1>4, <1>9
<1>11. \A i \in 1..Len(queue') : message'.n < queue'[i].n /\ queue'[i].n <= accepted'
  <2> SUFFICES ASSUME NEW i \in 1..Len(queue) + 1
               PROVE  message.n < queue'[i].n /\ queue'[i].n <= n
    BY <1>2, <1>8
  <2>1. CASE i \in 1..Len(queue) /\ queue'[i] = queue[i]
    BY <1>0, <1>7, <2>1 DEF Flow
  <2>2. CASE queue'[i] = m
    BY <1>1, <1>5, <1>10, <2>2
  <2> QED
    BY <1>8, <2>1, <2>2
<1>12. message'.n <= accepted' /\ Len(queue') <= QueueSize
  BY <1>1, <1>2, <1>3, <1>8, <1>9, <1>10
<1> QED
  BY <1>0, <1>1, <1>2, <1>4, <1>8, <1>11, <1>12 DEF Flow, Rises

LEMMA TakeKeeps ==
    ASSUME NotifierOptions, Flow, N!TakeMessage
    PROVE  Flow'
<1>1. /\ queue # <<>> /\ message' = Head(queue) /\ queue' = Tail(queue)
      /\ accepted' = accepted /\ nDelivered' = nDelivered
  BY DEF N!TakeMessage
<1>2. queue \in Seq(N!Message) /\ Len(queue) \in Nat /\ Len(queue) # 0
  BY <1>1, EmptySeq DEF Flow
<1>3. /\ queue' \in Seq(N!Message) /\ Len(queue') = Len(queue) - 1
      /\ \A i \in 1..Len(queue') : queue'[i] = queue[i + 1]
      /\ message' = queue[1] /\ message' \in N!Message
  BY <1>1, <1>2, HeadTailProperties
<1>4. \A i \in 1..Len(queue') : i + 1 \in 1..Len(queue) /\ 1 < i + 1
  BY <1>2, <1>3
<1>5. 1 \in 1..Len(queue)
  BY <1>2
<1>6. Rises(queue')
  <2> SUFFICES ASSUME NEW i \in 1..Len(queue'), NEW j \in 1..Len(queue'), i < j
               PROVE  queue'[i].n < queue'[j].n
    BY DEF Rises
  <2>1. i + 1 \in 1..Len(queue) /\ j + 1 \in 1..Len(queue) /\ i + 1 < j + 1
    BY <1>4
  <2>2. queue[i + 1].n < queue[j + 1].n
    BY <2>1 DEF Flow, Rises
  <2> QED
    BY <1>3, <2>2
<1>7. \A i \in 1..Len(queue') : message'.n < queue'[i].n /\ queue'[i].n <= accepted'
  BY <1>1, <1>3, <1>4, <1>5 DEF Flow, Rises
<1>8. message' \in Numbered /\ message'.n <= accepted' /\ message.n < message'.n
  BY <1>1, <1>3, <1>5 DEF Flow, Numbered
<1>9. message.n \in Nat /\ message'.n \in Nat
        /\ \A i \in 1..Len(nDelivered) : nDelivered[i] \in Numbered /\ nDelivered[i].n \in Nat
  BY <1>8, Numbers DEF Flow
<1>10. \A i \in 1..Len(nDelivered) : nDelivered[i].n < message'.n
  BY <1>8, <1>9 DEF Flow
<1>11. Len(queue') <= QueueSize
  BY <1>2, <1>3 DEF Flow, NotifierOptions
<1> QED
  BY <1>1, <1>3, <1>6, <1>7, <1>8, <1>9, <1>10, <1>11 DEF Flow, Rises

LEMMA AcceptsKeeps ==
    ASSUME NotifierOptions, Flow, NEW h, N!HandlerAccepts(h)
    PROVE  Flow'
<1>1. /\ nLoop = "try" /\ nLoop' = "select" /\ nDelivered' = Append(nDelivered, message)
      /\ queue' = queue /\ accepted' = accepted /\ message' = message
  BY DEF N!HandlerAccepts, N!queueVars
<1>2. \A m \in Numbered : m.n \in Nat
  BY Numbers
<1>3. /\ nDelivered \in Seq(Numbered) /\ message \in Numbered /\ Rises(nDelivered)
      /\ \A i \in 1..Len(nDelivered) : nDelivered[i].n < message.n /\ nDelivered[i].n <= message.n
  BY <1>1 DEF Flow
<1>4. /\ nDelivered' \in Seq(Numbered) /\ Len(nDelivered') = Len(nDelivered) + 1
      /\ Rises(nDelivered')
      /\ \A i \in 1..Len(nDelivered) + 1 :
            \/ i \in 1..Len(nDelivered) /\ nDelivered'[i] = nDelivered[i]
            \/ nDelivered'[i] = message
  BY <1>1, <1>2, <1>3, RisesAppend
<1>5. \A i \in 1..Len(nDelivered') : nDelivered'[i].n <= message.n
  BY <1>2, <1>3, <1>4
<1> QED
  BY <1>1, <1>4, <1>5 DEF Flow, Rises

LEMMA RegistrationKeeps ==
    ASSUME NotifierOptions, NotifierInv, N!TableStep
    PROVE  NotifierInv'
<1>0. Table /\ Control /\ Sending /\ Flow
  BY DEF NotifierInv
<1>1. ASSUME NEW c \in NotifiedClients, NEW f \in Features, N!RegisterClient(c, f)
      PROVE  NotifierInv'
  <2>1. /\ clientInfo' = [d \in DOMAIN clientInfo \cup {c} |-> IF d = c THEN f ELSE clientInfo[d]]
        /\ stale' = stale \ {c} /\ handlerCount' = handlerCount
        /\ held' = (held /\ message.to # c)
    BY <1>1 DEF N!RegisterClient, N!Registered
  <2>2. Table'
    BY <1>0, <1>1, <2>1 DEF Table
  <2>3. phase' = phase /\ nLoop' = nLoop /\ closed' = closed /\ fatal' = fatal
          /\ untried' = untried /\ sends' = sends
    BY <1>1 DEF N!RegisterClient
  <2>4. Control'
    BY <1>0, <2>1, <2>3 DEF Control
  <2>5. Sending' /\ Flow'
    BY <1>0, <1>1, FlowKept DEF N!RegisterClient, N!queueVars, Sending
  <2> QED
    BY <2>2, <2>4, <2>5 DEF NotifierInv
<1>2. ASSUME NEW gone, N!UnregisterClients(gone)
      PROVE  NotifierInv'
  <2>1. /\ clientInfo' = [d \in DOMAIN clientInfo \ gone |-> clientInfo[d]]
        /\ stale' = stale \ gone /\ handlerCount' = handlerCount
        /\ held' = (held /\ message.to \notin gone)
    BY <1>2 DEF N!UnregisterClients, N!Registered, N!Restrict
  <2>2. Table'
    BY <1>0, <2>1 DEF Table
  <2>3. phase' = phase /\ nLoop' = nLoop /\ closed' = closed /\ fatal' = fatal
          /\ untried' = untried /\ sends' = sends
    BY <1>2 DEF N!UnregisterClients
  <2>4. Control'
    BY <1>0, <2>1, <2>3 DEF Control
  <2>5. Sending' /\ Flow'
    BY <1>0, <1>2, FlowKept DEF N!UnregisterClients, N!queueVars, Sending
  <2> QED
    BY <2>2, <2>4, <2>5 DEF NotifierInv
<1>3. ASSUME NEW c \in NotifiedClients, N!GrowStale(c)
      PROVE  NotifierInv'
  <2> USE <1>3 DEF N!GrowStale, N!queueVars, N!loopVars, N!Registered
  <2>1. Table'
    BY <1>0 DEF Table
  <2>2. Control' /\ Sending'
    BY <1>0 DEF Control, Sending
  <2>3. Flow'
    BY <1>0, FlowKept
  <2> QED
    BY <2>1, <2>2, <2>3 DEF NotifierInv
<1>4. ASSUME NEW t \in Transports, N!RegisterHandler(t)
      PROVE  NotifierInv'
  <2> USE <1>4 DEF N!RegisterHandler, N!tableVars, N!queueVars, N!loopVars
  <2>1. Table'
    <3>1. /\ handlerCount[t] < MaxHandlers /\ handlerCount[t] \in 0..MaxHandlers
          /\ MaxHandlers \in Nat
          /\ handlerCount' = [handlerCount EXCEPT ![t] = handlerCount[t] + 1]
      BY <1>0 DEF Table, NotifierOptions
    <3>2. handlerCount[t] + 1 \in 0..MaxHandlers
      BY <3>1
    <3>3. handlerCount' \in [Transports -> 0..MaxHandlers]
      BY <1>0, <3>1, <3>2 DEF Table
    <3> QED
      BY <1>0, <3>3 DEF Table
  <2>2. Control'
    BY <1>0 DEF Control
  <2>3. Sending'
    BY <1>0 DEF Sending
  <2>4. Flow'
    BY <1>0, FlowKept
  <2> QED
    BY <2>1, <2>2, <2>3, <2>4 DEF NotifierInv
<1> QED
  BY <1>1, <1>2, <1>3, <1>4
     DEF N!TableStep, N!UnregisterClient, N!CleanupInactiveClients

LEMMA SenderKeeps ==
    ASSUME NotifierOptions, NotifierInv, NEW s \in Senders, N!CallStep(s) \/ N!SendStep(s)
    PROVE  NotifierInv'
<1>0. Table /\ Control /\ Sending /\ Flow
  BY DEF NotifierInv
<1>1. ASSUME NEW targets, targets \subseteq Names, N!BeginSend(s, targets)
      PROVE  NotifierInv'
  <2> USE <1>1 DEF N!BeginSend, N!tableVars, N!queueVars, N!loopVars
  <2>1. Table' /\ Control'
    BY <1>0 DEF Table, Control
  <2>2. Sending'
    BY <1>0 DEF Sending
  <2>3. Flow'
    BY <1>0, FlowKept
  <2> QED
    BY <2>1, <2>2, <2>3 DEF NotifierInv
<1>2. DOMAIN clientInfo \subseteq Names /\ NotifiedClients \subseteq Names
  BY <1>0 DEF Table, NotifierOptions
<1>3. CASE N!CallStep(s)
  <2>1. /\ \A to \in Names : N!SendToClient(s, to) => NotifierInv'
        /\ \A c \in NotifiedClients : N!SendProgress(s, c) => NotifierInv'
    BY <1>1, <1>2 DEF N!SendToClient, N!SendProgress
  <2>2. CASE N!Broadcast(s)
    BY <1>1, <1>2, <2>2 DEF N!Broadcast, N!Registered
  <2>3. CASE N!SendLogMessage(s)
    <3> DEFINE them == {c \in N!Registered : "logging" \in clientInfo[c]}
    <3>1. them \subseteq Names /\ N!BeginSend(s, them)
      BY <1>2, <2>3 DEF N!SendLogMessage, N!Registered
    <3> QED
      BY <1>1, <3>1
  <2> QED
    BY <1>3, <2>1, <2>2, <2>3 DEF N!CallStep
<1>4. ASSUME NEW to, NEW outcome \in {"idle", "full", "panicked"}, N!Sent(s, to, outcome)
      PROVE  Sending'
  <2> DEFINE then == CASE outcome = "panicked" -> "panicked"
                       [] sends[s].left # {to} -> "send"
                       [] OTHER -> outcome
  <2>1. then \in {"idle", "send", "full", "panicked"}
    OBVIOUS
  <2>2. sends' = [sends EXCEPT ![s].left = @ \ {to}, ![s].pc = then]
    BY <1>4 DEF N!Sent
  <2> HIDE DEF then
  <2>3. sends' = [sends EXCEPT ![s] = [sends[s] EXCEPT !.left = sends[s].left \ {to},
                                                       !.pc = then]]
    BY <1>0, <2>2 DEF Sending
  <2>4. sends[s] \in [pc : {"idle", "send", "full", "panicked"}, left : SUBSET Names]
    BY <1>0 DEF Sending
  <2>5. [sends[s] EXCEPT !.left = sends[s].left \ {to}, !.pc = then]
            \in [pc : {"idle", "send", "full", "panicked"}, left : SUBSET Names]
    BY <2>1, <2>4
  <2> QED
    BY <1>0, <2>3, <2>5 DEF Sending
<1>5. ASSUME NEW to, N!Enqueue(s, to)
      PROVE  NotifierInv'
  <2> USE <1>5 DEF N!Enqueue, N!tableVars, N!loopVars
  <2>1. Table' /\ Control'
    BY <1>0 DEF Table, Control
  <2>2. Sending'
    BY <1>4
  <2>3. Flow'
    BY EnqueueKeeps
  <2> QED
    BY <2>1, <2>2, <2>3 DEF NotifierInv
<1>6. ASSUME NEW to, N!SendTimeout(s, to) \/ N!SendPanics(s, to)
      PROVE  NotifierInv'
  <2> USE <1>6 DEF N!SendTimeout, N!SendPanics, N!tableVars, N!queueVars, N!loopVars
  <2>1. Table' /\ Control'
    BY <1>0 DEF Table, Control
  <2>2. Sending'
    BY <1>4
  <2>3. Flow'
    BY <1>0, FlowKept
  <2> QED
    BY <2>1, <2>2, <2>3 DEF NotifierInv
<1> QED
  BY <1>3, <1>5, <1>6 DEF N!SendStep

LEMMA StartStopKeeps ==
    ASSUME NotifierInv, N!Start \/ N!Stop \/ N!StopClose \/ UNCHANGED N!vars
    PROVE  NotifierInv'
<1>0. Table /\ Control /\ Sending /\ Flow
  BY DEF NotifierInv
<1> USE DEF N!Start, N!Stop, N!StopClose, N!vars, N!tableVars, N!queueVars, N!loopVars
<1>1. Table' /\ Sending'
  BY <1>0 DEF Table, Sending
<1>2. /\ held' = held /\ fatal' = fatal /\ untried' = untried
      /\ nLoop' \in {nLoop, "select"} /\ closed' \in {closed, TRUE}
      /\ phase' \in {phase, "running", "stopping", "stopped", "panicked"}
  OBVIOUS
<1>3. Control'
  BY <1>0, <1>2 DEF Control
<1>4. Flow'
  BY <1>0, FlowKept
<1> QED
  BY <1>1, <1>3, <1>4 DEF NotifierInv

LEMMA LoopKeeps ==
    ASSUME NotifierOptions, NotifierInv, N!LoopStep
    PROVE  NotifierInv'
<1>0. Table /\ Control /\ Sending /\ Flow
  BY DEF NotifierInv
<1> USE DEF N!tableVars, N!queueVars
<1>1. CASE N!ExitLoop \/ N!Undelivered \/ N!LookUp
  <2> USE <1>1 DEF N!ExitLoop, N!Undelivered, N!LookUp
  <2>1. Table' /\ Sending'
    BY <1>0 DEF Table, Sending
  <2>2. /\ nLoop' \in {"off", "select", "touch"}
        /\ phase' = phase /\ closed' = closed /\ fatal' = fatal /\ untried' = untried
    OBVIOUS
  <2>3. held' \in BOOLEAN
    <3>1. CASE held' = held
      BY <1>0, <3>1 DEF Control
    <3>2. CASE held' = (message.to \in N!Registered)
      BY ONLY <3>2
    <3> QED
      BY <3>1, <3>2
  <2>4. Control'
    BY <1>0, <2>2, <2>3 DEF Control
  <2>5. Flow'
    BY <1>0, FlowKept
  <2> QED
    BY <2>1, <2>4, <2>5 DEF NotifierInv
<1>2. CASE N!TakeMessage
  <2> USE <1>2 DEF N!TakeMessage
  <2>1. Table' /\ Sending' /\ Control'
    BY <1>0 DEF Table, Sending, Control
  <2>2. Flow'
    BY <1>0, TakeKeeps
  <2> QED
    BY <2>1, <2>2 DEF NotifierInv
<1>3. CASE N!TouchClient
  <2> USE <1>3 DEF N!TouchClient
  <2>1. Table'
    BY <1>0 DEF Table
  <2>2. Sending' /\ Control'
    BY <1>0 DEF Sending, Control
  <2>3. Flow'
    BY <1>0, FlowKept
  <2> QED
    BY <2>1, <2>2, <2>3 DEF NotifierInv
<1>4. ASSUME NEW h, N!HandlerAccepts(h)
      PROVE  NotifierInv'
  <2> USE <1>4 DEF N!HandlerAccepts
  <2>1. Table' /\ Sending' /\ Control'
    BY <1>0 DEF Table, Sending, Control
  <2>2. Flow'
    BY <1>0, AcceptsKeeps
  <2> QED
    BY <2>1, <2>2 DEF NotifierInv
<1>5. ASSUME NEW h, N!HandlerFails(h)
      PROVE  NotifierInv'
  <2> USE <1>5 DEF N!HandlerFails
  <2>1. Table' /\ Sending' /\ Control'
    BY <1>0 DEF Table, Sending, Control
  <2>2. Flow'
    BY <1>0, FlowKept
  <2> QED
    BY <2>1, <2>2 DEF NotifierInv
<1> QED
  BY <1>1, <1>2, <1>3, <1>4, <1>5 DEF N!LoopStep

LEMMA NotifierBegins == ASSUME NotifierOptions PROVE N!Init => NotifierInv
<1> SUFFICES ASSUME N!Init PROVE NotifierInv
  OBVIOUS
<1>1. /\ DOMAIN clientInfo = {} /\ clientInfo \in [DOMAIN clientInfo -> Features]
      /\ stale = {}
  BY DEF N!Init
<1>2. Table
  BY <1>1 DEF N!Init, Table, NotifierOptions
<1>3. Control /\ Sending
  BY DEF N!Init, Control, Sending, N!Idle
<1>4. Len(queue) = 0 /\ Len(nDelivered) = 0 /\ 1..0 = {}
        /\ queue \in Seq(N!Message) /\ nDelivered \in Seq(Numbered)
  BY EmptySeq DEF N!Init
<1>5. message \in Numbered /\ message.n = 0 /\ accepted = 0
  BY DEF N!Init, Numbered, N!NoMessage
<1>6. Flow
  BY <1>4, <1>5 DEF Flow, Rises, NotifierOptions
<1> QED
  BY <1>2, <1>3, <1>6 DEF NotifierInv

LEMMA NotifierSteps ==
    ASSUME NotifierOptions
    PROVE  NotifierInv /\ [N!Next]_(N!vars) => NotifierInv'
  BY RegistrationKeeps, SenderKeeps, StartStopKeeps, LoopKeeps DEF N!Next

\* The end of the process, whoever sees it, is no matter of the notifier's.
LEMMA FatalApart ==
    ASSUME NotifierInv, fatal' \in BOOLEAN,
           clientInfo' = clientInfo, stale' = stale, handlerCount' = handlerCount, phase' = phase,
           closed' = closed, queue' = queue, accepted' = accepted, nLoop' = nLoop,
           message' = message, held' = held, untried' = untried, sends' = sends,
           nDelivered' = nDelivered
    PROVE  NotifierInv'
<1>0. Table /\ Control /\ Sending /\ Flow
  BY DEF NotifierInv
<1>1. Table' /\ Control' /\ Sending'
  BY <1>0 DEF Table, Control, Sending
<1>2. Flow'
  BY <1>0, FlowKept
<1> QED
  BY <1>1, <1>2 DEF NotifierInv

LEMMA NotifierMeans == NotifierInv => N!TypeOK /\ N!DeliveredOnceInOrder
<1> SUFFICES ASSUME NotifierInv PROVE N!TypeOK /\ N!DeliveredOnceInOrder
  OBVIOUS
<1>0. Table /\ Control /\ Sending /\ Flow
  BY DEF NotifierInv
<1>1. N!TypeOK
  BY <1>0 DEF N!TypeOK, N!Registered, Table, Control, Sending, Flow, Numbered
<1>2. DOMAIN nDelivered = 1..Len(nDelivered)
  BY <1>0, LenProperties DEF Flow
<1>3. N!DeliveredOnceInOrder
  BY <1>0, <1>2 DEF Flow, Rises, N!DeliveredOnceInOrder
<1> QED
  BY <1>1, <1>3

LEMMA NotifierInvariance == ASSUME NotifierOptions PROVE N!Spec => []NotifierInv
  BY NotifierBegins, NotifierSteps, PTL DEF N!Spec

(* Handlers see messages in the order of the queue, each accepted by one,   *)
(* for every number of clients, senders, transports and handlers and every  *)
(* queue, while clients, handlers and the notifier itself come and go       *)
(* (notifications/notifier.go, processQueue).                               *)
THEOREM MessagesDeliveredOnce == N!Spec => []DeliveredOnceInOrder
<1>1. N!Spec => []NotifierInv
  BY NotifierInvariance, NotifierAssumption DEF NotifierOptions
<1> QED
  BY <1>1, NotifierMeans, PTL DEF DeliveredOnceInOrder
=============================================================================
