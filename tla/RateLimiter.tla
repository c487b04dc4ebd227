---------------------------- MODULE RateLimiter ----------------------------
(***************************************************************************)
(* middleware.RateLimitMiddleware and TokenBucket                          *)
(* (middleware/ratelimit.go): a map from identifiers to token buckets      *)
(* under an RWMutex, created on demand and removed when idle, and the      *)
(* bucket's operations Allow, Wait, Reserve and Cancel under its own lock. *)
(*                                                                         *)
(* Time is a bounded clock and tokens are integers: Rate tokens a tick.    *)
(* Between its lookup and its use of a bucket a request takes no time that *)
(* the clock shows, but any other request and the cleanup may come first.  *)
(***************************************************************************)
EXTENDS Integers, Sequences, FiniteSets, Functions

CONSTANTS Requests, Users,
          NoUser,             \* a request without an identifier
          Rate, Burst,
          TTL,                \* Rate * TTL >= Burst: an idle bucket is full before it goes
          MaxClock            \* bound

VARIABLES hasGlobal,          \* config.Global
          bucketOf, lastAccess, \* m.limiters, from users to buckets
          tokens, lastUpdate, \* of every bucket made so far, by number
          pc, mode, user, bucket, \* of each request
          due,                \* when a waiting or reserved request may go on
          now,
          log                 \* the middleware's admissions: time, user, and if the
                              \* bucket was the map's

mapVars == <<bucketOf, lastAccess>>
bucketVars == <<tokens, lastUpdate>>
vars == <<hasGlobal, mapVars, bucketVars, pc, mode, user, bucket, due, now, log>>

Global == 1                   \* the global limiter is the first bucket
Modes == {"process", "wait", "reserve"}

TypeOK ==
    /\ DOMAIN bucketOf \subseteq Users /\ DOMAIN lastAccess = DOMAIN bucketOf
    /\ Range(bucketOf) \subseteq DOMAIN tokens
    /\ DOMAIN lastUpdate = DOMAIN tokens
    /\ \A b \in DOMAIN tokens : tokens[b] <= Burst /\ lastUpdate[b] \in 0..now
    /\ \A r \in Requests : /\ user[r] \in Users \cup {NoUser}
                           /\ bucket[r] \in 0..Len(tokens) /\ due[r] \in Nat
    /\ now \in 0..MaxClock

Init ==
    /\ bucketOf = <<>> /\ lastAccess = <<>>
    /\ hasGlobal \in BOOLEAN
    /\ tokens = IF hasGlobal THEN <<Burst>> ELSE <<>>
    /\ lastUpdate = IF hasGlobal THEN <<0>> ELSE <<>>
    /\ pc = [r \in Requests |-> "new"]
    /\ mode = [r \in Requests |-> "process"]
    /\ user = [r \in Requests |-> NoUser]
    /\ bucket = [r \in Requests |-> 0]
    /\ due = [r \in Requests |-> 0]
    /\ now = 0 /\ log = {}

To(r, l) == pc' = [pc EXCEPT ![r] = l]

-----------------------------------------------------------------------------
\* TokenBucket

Refilled(b) == LET t == tokens[b] + Rate * (now - lastUpdate[b])
               IN  IF t > Burst THEN Burst ELSE t

\* Mutant of AllowN: the cap at Burst comes before the refill.
AllowNUncapped(b, ok) ==
    LET t == tokens[b] + Rate * (now - lastUpdate[b])
    IN  /\ ok = (t >= 1)
        /\ tokens' = [tokens EXCEPT ![b] = IF ok THEN t - 1 ELSE t]
        /\ lastUpdate' = [lastUpdate EXCEPT ![b] = now]

AllowN(b, ok) ==
    /\ ok = (Refilled(b) >= 1)
    /\ tokens' = [tokens EXCEPT ![b] = Refilled(b) - (IF ok THEN 1 ELSE 0)]
    /\ lastUpdate' = [lastUpdate EXCEPT ![b] = now]

\* Ticks until a token is there, rounded up.
WaitTime(b) == (1 - Refilled(b) + Rate - 1) \div Rate

Current(u, b) == u \in DOMAIN bucketOf /\ bucketOf[u] = b
Admit(r) ==
    log' = IF mode[r] = "process"
           THEN log \cup {[at |-> now, user |-> user[r], by |-> r,
                           current |-> Current(user[r], bucket[r])]}
           ELSE log

-----------------------------------------------------------------------------
\* getLimiter

\* Process: a token of the global bucket first, then the identifier.
Begin(r, u, m) ==
    /\ pc[r] = "new"
    /\ m # "process" => u \in Users
    /\ IF m = "process" /\ hasGlobal
       THEN \E ok \in BOOLEAN :
               /\ AllowN(Global, ok)
               /\ To(r, CASE ~ok -> "rejected"
                          [] ok /\ u = NoUser -> "passed"
                          [] OTHER -> "find")
       ELSE /\ To(r, IF u = NoUser THEN "passed" ELSE "find")
            /\ UNCHANGED bucketVars
    /\ user' = [user EXCEPT ![r] = u] /\ mode' = [mode EXCEPT ![r] = m]
    /\ UNCHANGED <<hasGlobal, mapVars, bucket, due, now, log>>

\* The read lock: the bucket, if there is one.
FindLimiter(r) ==
    /\ pc[r] = "find"
    /\ IF user[r] \in DOMAIN bucketOf
       THEN /\ bucket' = [bucket EXCEPT ![r] = bucketOf[user[r]]]
            /\ To(r, "touch")
       ELSE To(r, "create") /\ UNCHANGED bucket
    /\ UNCHANGED <<hasGlobal, mapVars, bucketVars, mode, user, due, now, log>>

\* The write lock: lastAccess, if the entry is still there.
TouchLimiter(r) ==
    /\ pc[r] = "touch"
    /\ lastAccess' = IF user[r] \in DOMAIN bucketOf
                     THEN [lastAccess EXCEPT ![user[r]] = now] ELSE lastAccess
    /\ To(r, mode[r])
    /\ UNCHANGED <<hasGlobal, bucketOf, bucketVars, mode, user, bucket, due, now, log>>

CreateLimiter(r) ==
    /\ pc[r] = "create"
    /\ IF user[r] \in DOMAIN bucketOf
       THEN /\ bucket' = [bucket EXCEPT ![r] = bucketOf[user[r]]]
            /\ UNCHANGED <<bucketOf, bucketVars>>
       ELSE /\ tokens' = Append(tokens, Burst) /\ lastUpdate' = Append(lastUpdate, now)
            /\ bucketOf' = [u \in DOMAIN bucketOf \cup {user[r]} |->
                               IF u = user[r] THEN Len(tokens') ELSE bucketOf[u]]
            /\ bucket' = [bucket EXCEPT ![r] = Len(tokens')]
    /\ lastAccess' = [u \in DOMAIN lastAccess \cup {user[r]} |->
                         IF u = user[r] THEN now ELSE lastAccess[u]]
    /\ To(r, mode[r])
    /\ UNCHANGED <<hasGlobal, mode, user, due, now, log>>

Cleanup ==
    LET expired == {u \in DOMAIN bucketOf : now - lastAccess[u] > TTL}
    IN  /\ expired # {}
        /\ bucketOf' = Restrict(bucketOf, DOMAIN bucketOf \ expired)
        /\ lastAccess' = Restrict(lastAccess, DOMAIN bucketOf \ expired)
        /\ UNCHANGED <<hasGlobal, bucketVars, pc, mode, user, bucket, due, now, log>>

-----------------------------------------------------------------------------
\* What a request does with its bucket

Allow(r, ok) ==
    /\ pc[r] \in {"process", "retry"}
    /\ AllowN(bucket[r], ok)
    /\ IF ok THEN To(r, "passed") /\ Admit(r)
             ELSE To(r, "rejected") /\ UNCHANGED log
    /\ UNCHANGED <<hasGlobal, mapVars, mode, user, bucket, due, now>>

\* Wait: a token now, or a sleep that reserves nothing, and one more attempt.
Wait(r, ok) ==
    /\ pc[r] = "wait"
    /\ AllowN(bucket[r], ok)
    /\ IF ok THEN To(r, "passed") /\ UNCHANGED due
             ELSE /\ To(r, "sleep")
                  /\ due' = [due EXCEPT ![r] = now + WaitTime(bucket[r])]
    /\ UNCHANGED <<hasGlobal, mapVars, mode, user, bucket, now, log>>

WakeUp(r) ==
    /\ pc[r] = "sleep" /\ now >= due[r]
    /\ To(r, "retry")
    /\ UNCHANGED <<hasGlobal, mapVars, bucketVars, mode, user, bucket, due, now, log>>

CancelWait(r) ==
    /\ pc[r] = "sleep"
    /\ To(r, "rejected")
    /\ UNCHANGED <<hasGlobal, mapVars, bucketVars, mode, user, bucket, due, now, log>>

\* Reserve takes a token at once, and runs into debt if there is none.
Reserve(r) ==
    /\ pc[r] = "reserve"
    /\ due' = [due EXCEPT ![r] = IF Refilled(bucket[r]) >= 1 THEN now
                                 ELSE now + WaitTime(bucket[r])]
    /\ tokens' = [tokens EXCEPT ![bucket[r]] = Refilled(bucket[r]) - 1]
    /\ lastUpdate' = [lastUpdate EXCEPT ![bucket[r]] = now]
    /\ To(r, "reserved")
    /\ UNCHANGED <<hasGlobal, mapVars, mode, user, bucket, now, log>>

\* The token goes back to the bucket as it was left, at whatever time.
Cancel(r) ==
    /\ pc[r] = "reserved"
    /\ tokens' = [tokens EXCEPT ![bucket[r]] = IF @ + 1 > Burst THEN Burst ELSE @ + 1]
    /\ To(r, "cancelled")
    /\ UNCHANGED <<hasGlobal, mapVars, lastUpdate, mode, user, bucket, due, now, log>>

Tick ==
    /\ now < MaxClock
    /\ \A r \in Requests : pc[r] \in {"new", "sleep", "reserved", "cancelled", "passed", "rejected"}
    /\ now' = now + 1
    /\ UNCHANGED <<hasGlobal, mapVars, bucketVars, pc, mode, user, bucket, due, log>>

-----------------------------------------------------------------------------

Next ==
    \/ \E r \in Requests :
          \/ \E u \in Users \cup {NoUser}, m \in Modes : Begin(r, u, m)
          \/ FindLimiter(r) \/ TouchLimiter(r) \/ CreateLimiter(r)
          \/ \E ok \in BOOLEAN : Allow(r, ok) \/ Wait(r, ok)
          \/ Reserve(r) \/ Cancel(r) \/ WakeUp(r) \/ CancelWait(r)
    \/ Cleanup
    \/ Tick

Spec == Init /\ [][Next]_vars

-----------------------------------------------------------------------------
\* Properties

\* A user who has cancelled a reservation.  Cancel gives back a token that the
\* refill, capped at Burst, may have paid for already.
Cancelled(u) == \E r \in Requests : pc[r] = "cancelled" /\ user[r] = u

\* What the middleware has admitted of a user in an interval.
Within(u, from, to) == {e \in log : e.current /\ e.user = u /\ e.at \in from..to}

(* In every interval the middleware admits at most Burst requests of a user *)
(* and Rate more for every tick, through all the buckets the user ever had, *)
(* not counting a request that the cleanup overtook between its lookup and  *)
(* its use of the bucket, for users who cancel no reservation.  WaitN and   *)
(* ReserveN are outside the promise: they use or owe tokens later than the  *)
(* access time the cleanup looks at, so a full bucket may take the place of *)
(* one that is empty or in debt.                                            *)
LimitHolds ==
    \A u \in Users, from, to \in 0..MaxClock :
        from <= to /\ ~Cancelled(u) =>
            Cardinality(Within(u, from, to)) <= Burst + Rate * (to - from)
=============================================================================
