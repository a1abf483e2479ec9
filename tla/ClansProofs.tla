----------------------------- MODULE ClansProofs -----------------------------
(***************************************************************************)
(* Theorems about Clans, for every number of slots, accounts, names and    *)
(* clans and every bound, with faults or without.                          *)
(***************************************************************************)
EXTENDS Clans, NumberFacts, SequenceTheorems

LoginResult == [slot : Slot, state : State, id : AccountId, clan : Number, lang : Number]
CreateResult == [slot : Slot, state : State, name : ClanName, clan : ClanId]
CountResult == [from : Slot, to : Slot, state : State, clan : ClanId, members : Nat]

\* The places of the jobs of a kind in a queue, from behind its place p on.
Jobs(q, kind, p) == {k \in (p + 1)..Len(q) : q[k].kind = kind}

\* The requests that are open belong to some jobs, one to one and in their order.
Matched(results, jobs, f) ==
    /\ f \in [Pending(results) -> jobs]
    /\ \A i, j \in Pending(results) : i < j => f[i] < f[j]
    /\ \A k \in jobs : \E i \in Pending(results) : f[i] = k

\* Until the list of clans has been read, what lies before the last job that
\* reads it is from before the change of the map.
Mark(p) ==
    /\ p \in 0..Len(queue)
    /\ p # 0 <=> load.state = "pending"
    /\ p # 0 => queue[p].kind = "load" /\ Jobs(queue, "load", p) = {}

Aligned(p) ==
    /\ Mark(p)
    /\ \E f \in [Pending(logins) -> Jobs(queue, "login", p)] :
          Matched(logins, Jobs(queue, "login", p), f)
    /\ \E f \in [Pending(creates) -> Jobs(queue, "create", p)] :
          /\ Matched(creates, Jobs(queue, "create", p), f)
          /\ \A k \in Pending(creates) : queue[f[k]].name = creates[k].name

\* The rows have their numbers, and nothing names a clan that has no row, but
\* for accounts whose row the save of an account has written.
Sane(i, c) == i \notin strays => c \in 0..Len(clans)
Rows ==
    /\ \A i \in 1..Len(clans) : clans[i].id = i
    /\ \A i \in AccountId : Sane(i, userClan[i])
    /\ \A s \in Slot : Sane(players[s].id, players[s].clan) /\ players[s].invite \in 0..Len(clans)
    /\ \A k \in 1..Len(logins) : Sane(logins[k].id, logins[k].clan)
    /\ \A k \in 1..Len(counts) : counts[k].clan \in 0..Len(clans)

\* The list on its way to the cache is the rows from the first one on.
ListOfRows ==
    /\ load.state # "done" => load.data = << >>
    /\ Len(load.data) <= Len(clans)
    /\ \A k \in 1..Len(load.data) : load.data[k].id = k /\ load.data[k].name = clans[k].name

\* A clan that has been created is a row, and comes to the cache only once.
Created == {k \in 1..Len(creates) : creates[k].state = "successful"}
CreatedOnce ==
    /\ \A k \in Created : creates[k].clan \in 1..Len(clans) /\ clans[creates[k].clan].name = creates[k].name
    /\ \A j, k \in Created : creates[j].clan = creates[k].clan => j = k
    /\ \A j \in 1..Len(cache), k \in Created : cache[j].id # creates[k].clan

\* Nobody is logged in, or asks anything of the clans, before the list is there.
ListFirst ==
    /\ \A s \in Slot : players[s].loggedIn \/ players[s].clan # 0 \/ players[s].invite # 0 => load.state = "none"
    /\ creates # << >> \/ counts # << >> => load.state = "none"
    /\ load.state = "pending" => \A k \in 1..Len(logins) : logins[k].state # "successful"
    /\ load.state # "none" => cache = << >>

Closed ==
    /\ \A s \in Slot : ~players[s].here => players[s] = Nobody
    /\ shutdown => /\ cache = << >> /\ load.state = "none"
                   /\ logins = << >> /\ creates = << >> /\ counts = << >>
                   /\ \A s \in Slot : ~players[s].here

\* No clan is forgotten as long as no job fails.
AllKnown ==
    faults = 0 /\ ~shutdown =>
        /\ load.state = "none" => \A i \in 1..Len(clans) : Known(i)
        /\ load.state = "done" => Len(load.data) = Len(clans)

IInv ==
    /\ TypeOK
    /\ Rows
    /\ UniqueClanNames
    /\ ListOfRows
    /\ CreatedOnce
    /\ CacheAgrees
    /\ ListFirst
    /\ Closed
    /\ ~shutdown => \E p \in 0..Len(queue) : Aligned(p)
    /\ AllKnown
-----------------------------------------------------------------------------
\* Elements picked from a sequence keep their order, and each comes once.
LEMMA PickProps ==
    ASSUME NEW S, NEW seq \in Seq(S), NEW at \in SUBSET (1..Len(seq))
    PROVE  /\ Pick(seq, at) \in Seq(S)
           /\ Len(Pick(seq, at)) \in Nat
           /\ \E up \in [1..Len(Pick(seq, at)) -> at] :
                 /\ \A i, j \in 1..Len(Pick(seq, at)) : i < j => up[i] < up[j]
                 /\ \A k \in at : \E i \in 1..Len(Pick(seq, at)) : up[i] = k
                 /\ \A i \in 1..Len(Pick(seq, at)) : Pick(seq, at)[i] = seq[up[i]]
<1> DEFINE c == Cardinality(at)
           up == CHOOSE f \in [1..c -> at] : \A i, j \in 1..c : i < j => f[i] < f[j]
           new == [i \in 1..c |-> seq[up[i]]]
<1>1. Len(seq) \in Nat
  BY LenProperties
<1>2. c \in Nat
  <2>1. IsFiniteSet(1..Len(seq))
    BY <1>1, FS_Interval
  <2>2. IsFiniteSet(at)
    BY <2>1, FS_Subset
  <2> QED
    BY <2>2, FS_CardinalityType
<1>3. up \in [1..c -> at] /\ \A i, j \in 1..c : i < j => up[i] < up[j]
  <2>1. \E f \in [1..c -> at] : \A i, j \in 1..c : i < j => f[i] < f[j]
    BY <1>1, Enumeration
  <2> HIDE DEF c
  <2> QED
    BY <2>1, Zenon
<1> HIDE DEF up
<1>4. \A k \in at : \E i \in 1..c : up[i] = k
  BY <1>1, <1>3, EnumerationOnto
<1> HIDE DEF c
<1>5. new \in [1..c -> S]
  <2>1. ASSUME NEW i \in 1..c PROVE seq[up[i]] \in S
    <3>1. up[i] \in 1..Len(seq)
      BY <1>3
    <3> QED
      BY <3>1, ElementOfSeq
  <2> QED
    BY <2>1
<1>6. new \in Seq(S) /\ Len(new) = c
  <2> HIDE DEF new
  <2> QED
    BY <1>2, <1>5, FunctionIsSeq
<1>7. Pick(seq, at) = new
  BY DEF Pick, c, up, new
<1>8. \A i \in 1..c : new[i] = seq[up[i]]
  OBVIOUS
<1> HIDE DEF new
<1> QED
  BY <1>2, <1>3, <1>4, <1>6, <1>7, <1>8

\* An answer changes one result at most.
LEMMA AnswerProps ==
    ASSUME NEW R, NEW results \in Seq(R), NEW kind, NEW change,
           \A r \in R : Answered(r, change) \in R
    PROVE  /\ Answer(results, kind, change) \in Seq(R)
           /\ Len(Answer(results, kind, change)) = Len(results)
           /\ \A k \in 1..Len(results) :
                 Answer(results, kind, change)[k] \in {results[k], Answered(results[k], change)}
           /\ results = << >> => Answer(results, kind, change) = << >>
<1> DEFINE open == Pending(results)
           first == CHOOSE k \in open : \A j \in open : k <= j
           new == [results EXCEPT ![first] = Answered(@, change)]
<1>1. Answer(results, kind, change) \in {new, results}
  BY DEF Answer
<1> HIDE DEF first
<1>2. new \in [1..Len(results) -> R]
  <2>1. results \in [1..Len(results) -> R]
    BY LenProperties
  <2>2. \A k \in 1..Len(results) : Answered(results[k], change) \in R
    BY <2>1
  <2> QED
    BY <2>1, <2>2
<1>3. new \in Seq(R) /\ Len(new) = Len(results)
  <2>1. Len(results) \in Nat
    BY LenProperties
  <2> HIDE DEF new
  <2> QED
    BY <1>2, <2>1, FunctionIsSeq
<1>4. \A k \in 1..Len(results) : new[k] \in {results[k], Answered(results[k], change)}
  <2>1. results \in [1..Len(results) -> R]
    BY LenProperties
  <2> QED
    BY <2>1
<1>5. results = << >> => new = << >>
  <2>1. results = << >> => Len(new) = 0
    BY <1>3
  <2> HIDE DEF new
  <2> QED
    BY <1>3, <2>1, EmptySeq
<1> HIDE DEF new
<1> QED
  BY <1>1, <1>3, <1>4, <1>5, Zenon

\* What a worker has taken from the queue no longer counts: the places move up.
LEMMA TailMatched ==
    ASSUME NEW q \in Seq(Job), q # << >>, NEW kind, NEW p \in 0..Len(q),
           NEW results, NEW new, NEW f, Matched(results, Jobs(q, kind, p), f),
           Pending(results) \subseteq Nat,
           Pending(new) = {k \in Pending(results) : f[k] # 1}
    PROVE  \E g : /\ Matched(new, Jobs(Tail(q), kind, IF p = 0 THEN 0 ELSE p - 1), g)
                  /\ \A k \in Pending(new) : g[k] = f[k] - 1
<1> DEFINE from == IF p = 0 THEN 0 ELSE p - 1
           g == [k \in Pending(new) |-> f[k] - 1]
           jobs == Jobs(q, kind, p)
           left == Jobs(Tail(q), kind, from)
<1>1. Len(q) \in Nat /\ Len(q) >= 1 /\ Len(Tail(q)) = Len(q) - 1
  BY LenProperties, EmptySeq, HeadTailProperties
<1>2. \A k \in 1..(Len(q) - 1) : Tail(q)[k] = q[k + 1]
  BY HeadTailProperties
<1>3. \A k \in jobs : k # 1 => k - 1 \in left
  BY <1>1, <1>2 DEF Jobs
<1>4. \A k \in left : k + 1 \in jobs /\ k + 1 # 1 /\ (k + 1) - 1 = k
  BY <1>1, <1>2 DEF Jobs
<1>5. jobs \subseteq Nat /\ left \subseteq Nat
  BY <1>1 DEF Jobs
<1> HIDE DEF jobs, left
<1>6. f \in [Pending(results) -> jobs] /\ \A i, j \in Pending(results) : i < j => f[i] < f[j]
  BY DEF Matched, jobs
<1>7. \A k \in jobs : \E i \in Pending(results) : f[i] = k
  BY DEF Matched, jobs
<1>8. \A k \in Pending(new) : k \in Pending(results) /\ f[k] \in jobs /\ f[k] # 1
  BY <1>6
<1>9. g \in [Pending(new) -> left]
  BY <1>3, <1>8
<1>10. ASSUME NEW i \in Pending(new), NEW j \in Pending(new), i < j
       PROVE  g[i] < g[j]
  <2>1. f[i] < f[j] /\ f[i] \in Nat /\ f[j] \in Nat
    BY <1>5, <1>6, <1>8, <1>10
  <2> QED
    BY <2>1
<1>11. ASSUME NEW k \in left
       PROVE  \E i \in Pending(new) : g[i] = k
  <2>1. PICK i \in Pending(results) : f[i] = k + 1
    BY <1>4, <1>7
  <2>2. i \in Pending(new)
    BY <1>4, <2>1
  <2>3. g[i] = k
    BY <1>4, <2>1, <2>2
  <2> QED
    BY <2>2, <2>3
<1>12. \A k \in Pending(new) : g[k] = f[k] - 1
  OBVIOUS
<1> HIDE DEF g
<1>13. Matched(new, left, g)
  BY <1>9, <1>10, <1>11 DEF Matched
<1> QED
  BY <1>12, <1>13 DEF left

LEMMA JobsFinite ==
    ASSUME NEW q \in Seq(Job), NEW kind, NEW p \in Nat
    PROVE  IsFiniteSet(Jobs(q, kind, p)) /\ Jobs(q, kind, p) \subseteq 1..Len(q)
<1>1. Len(q) \in Nat
  BY LenProperties
<1>2. Jobs(q, kind, p) \subseteq 1..Len(q)
  BY <1>1 DEF Jobs
<1>3. IsFiniteSet(1..Len(q))
  BY <1>1, FS_Interval
<1> QED
  BY <1>2, <1>3, FS_Subset

LEMMA MatchedCount ==
    ASSUME NEW results, Pending(results) \subseteq Nat, NEW jobs \in SUBSET Nat, IsFiniteSet(jobs),
           NEW f, Matched(results, jobs, f)
    PROVE  Cardinality(Pending(results)) = Cardinality(jobs)
<1> DEFINE open == Pending(results)
<1>1. f \in [open -> jobs] /\ (\A i, j \in open : i < j => f[i] < f[j]) /\ open \subseteq Nat
  BY DEF Matched
<1>2. \A k \in jobs : \E i \in open : f[i] = k
  BY DEF Matched
<1> HIDE DEF open
<1>3. ASSUME NEW i \in open, NEW j \in open, f[i] = f[j] PROVE i = j
  <2>1. f[i] \in Nat /\ i \in Nat /\ j \in Nat
    BY <1>1
  <2>2. ~(f[i] < f[j]) /\ ~(f[j] < f[i])
    BY <2>1, <1>3
  <2>3. ~(i < j) /\ ~(j < i)
    BY <2>2, <1>1
  <2> QED
    BY <2>1, <2>3
<1>4. f \in Injection(open, jobs)
  <2>1. DOMAIN f = open
    BY <1>1
  <2>2. IsInjective(f)
    BY <1>3, <2>1, Zenon DEF IsInjective
  <2> QED
    BY <1>1, <2>2, Zenon DEF Injection
<1>5. f \in Surjection(open, jobs)
  BY <1>1, <1>2, Zenon DEF Surjection
<1> QED
  BY <1>4, <1>5, FS_Injection DEF open

\* The end of a job whose requests are matched: the first of them is answered
\* if the job is not from before the mark, and the rest stays matched.
FirstAnswered(results, new, kind, p, f, change) ==
    /\ \A k \in 1..Len(results) :
          \/ new[k] = results[k]
          \/ /\ p = 0 /\ Head(queue).kind = kind
             /\ k \in Pending(results) /\ f[k] = 1
             /\ new[k] = Answered(results[k], change)
    /\ p = 0 /\ Head(queue).kind = kind =>
          \E k \in Pending(results) : f[k] = 1 /\ new[k] = Answered(results[k], change)
    /\ \E g : /\ Matched(new, Jobs(Tail(queue), kind, IF p = 0 THEN 0 ELSE p - 1), g)
              /\ \A k \in Pending(new) : k \in Pending(results) /\ g[k] = f[k] - 1

LEMMA AnswerMatched ==
    ASSUME queue \in Seq(Job), queue # << >>, NEW kind,
           NEW p \in 0..Len(queue), p # 0 => queue[p].kind # kind,
           NEW R, NEW results \in Seq(R), NEW f, Matched(results, Jobs(queue, kind, p), f),
           NEW change, \A r \in R : Answered(r, change).state # "pending",
           NEW new, new = IF Head(queue).kind = kind THEN Answer(results, kind, change) ELSE results
    PROVE  FirstAnswered(results, new, kind, p, f, change)
<1> DEFINE open == Pending(results)
           jobs == Jobs(queue, kind, p)
<1>1. Len(queue) \in Nat /\ Len(queue) >= 1 /\ Head(queue) = queue[1]
  BY LenProperties, EmptySeq, HeadTailProperties
<1>2. open \subseteq Nat /\ open \subseteq 1..Len(results) /\ Len(results) \in Nat
  BY LenProperties DEF Pending
<1>3. IsFiniteSet(jobs) /\ jobs \subseteq Nat
  BY JobsFinite
<1>4. Cardinality(open) = Cardinality(jobs)
  BY <1>2, <1>3, MatchedCount
<1>5. Kinds(kind) = Cardinality(Jobs(queue, kind, 0))
  <2>1. Jobs(queue, kind, 0) = {k \in 1..Len(queue) : queue[k].kind = kind}
    BY <1>1 DEF Jobs
  <2> QED
    BY <2>1, Zenon DEF Kinds
<1>6. f \in [open -> jobs] /\ (\A i, j \in open : i < j => f[i] < f[j])
  BY DEF Matched
<1>7. \A k \in jobs : \E i \in open : f[i] = k
  BY DEF Matched
<1>8. CASE Head(queue).kind = kind /\ p = 0
  <2>1. 1 \in jobs
    BY <1>1, <1>8 DEF Jobs
  <2>2. PICK first \in open : f[first] = 1
    BY <1>7, <2>1
  <2>3. \A k \in open : f[k] \in Nat /\ f[k] >= 1
    <3>1. \A j \in jobs : j \in Nat /\ j >= 1
      BY <1>1, <1>8 DEF Jobs
    <3> HIDE DEF open, jobs
    <3> QED
      BY <3>1, <1>6
  <2>4. \A k \in open : first <= k
    <3> HIDE DEF open, jobs
    <3>1. ASSUME NEW k \in open, k < first PROVE FALSE
      BY <3>1, <1>6, <2>2, <2>3
    <3> QED
      BY <3>1, <1>2
  <2>5. \A k \in open : f[k] = 1 => k = first
    <3> HIDE DEF open, jobs
    <3>1. ASSUME NEW k \in open, f[k] = 1, k # first PROVE FALSE
      <4>1. first < k
        BY <3>1, <2>4, <1>2
      <4> QED
        BY <4>1, <3>1, <2>2, <1>6
    <3> QED
      BY <3>1
  <2>6. first = CHOOSE k \in open : \A j \in open : k <= j
    <3> HIDE DEF open
    <3>1. \A k \in open : (\A j \in open : k <= j) => k = first
      BY <2>4, <1>2
    <3> QED
      BY <2>4, <3>1
  <2>7. Kinds(kind) = Cardinality(open)
    BY <1>4, <1>5, <1>8
  <2>8. new = [results EXCEPT ![first] = Answered(results[first], change)]
    BY <1>8, <2>6, <2>7 DEF Answer
  <2>9. results \in [1..Len(results) -> R] /\ first \in 1..Len(results)
    BY <1>2, LenProperties
  <2>10. /\ new \in [1..Len(results) -> R \cup {Answered(results[first], change)}]
         /\ new[first] = Answered(results[first], change)
         /\ \A k \in 1..Len(results) : k # first => new[k] = results[k]
    BY <2>8, <2>9
  <2>11. new[first].state # "pending"
    BY <2>9, <2>10
  <2>12. Len(new) = Len(results)
    BY <1>2, <2>10, FunctionIsSeq
  <2>13. Pending(new) = {k \in open : f[k] # 1}
    BY <2>2, <2>5, <2>10, <2>11, <2>12 DEF Pending
  <2>14. PICK g : /\ Matched(new, Jobs(Tail(queue), kind, IF p = 0 THEN 0 ELSE p - 1), g)
                  /\ \A k \in Pending(new) : g[k] = f[k] - 1
    <3> HIDE DEF open
    <3>1. Pending(new) = {k \in Pending(results) : f[k] # 1} /\ Pending(results) \subseteq Nat
      BY <1>2, <2>13 DEF open
    <3> QED
      BY <3>1, TailMatched
  <2> HIDE DEF open
  <2> QED
    BY <1>8, <2>2, <2>10, <2>13, <2>14 DEF open, FirstAnswered
<1>9. CASE ~(Head(queue).kind = kind /\ p = 0)
  <2>1. \A k \in open : f[k] # 1
    <3>1. \A j \in jobs : j # 1
      BY <1>1, <1>9 DEF Jobs
    <3> HIDE DEF open, jobs
    <3> QED
      BY <3>1, <1>6
  <2>2. new = results
    <3>1. CASE Head(queue).kind # kind
      BY <3>1
    <3>2. CASE Head(queue).kind = kind
      <4>1. p # 0
        BY <1>9, <3>2
      <4>2. 1 \in Jobs(queue, kind, 0) /\ 1 \notin jobs /\ jobs \subseteq Jobs(queue, kind, 0)
        BY <1>1, <3>2, <4>1 DEF Jobs
      <4>3. IsFiniteSet(Jobs(queue, kind, 0))
        BY JobsFinite
      <4>4. Cardinality(Jobs(queue, kind, 0)) # Cardinality(jobs)
        <5> HIDE DEF jobs
        <5> QED
          BY <4>2, <4>3, FS_Subset
      <4>5. Kinds(kind) # Cardinality(open)
        BY <1>4, <1>5, <4>4
      <4> QED
        BY <4>5 DEF Answer
    <3> QED
      BY <3>1, <3>2
  <2>3. Pending(new) = {k \in Pending(results) : f[k] # 1}
    BY <2>1, <2>2
  <2>4. PICK g : /\ Matched(new, Jobs(Tail(queue), kind, IF p = 0 THEN 0 ELSE p - 1), g)
                 /\ \A k \in Pending(new) : g[k] = f[k] - 1
    BY <1>2, <2>3, TailMatched
  <2> QED
    BY <1>9, <2>2, <2>4 DEF FirstAnswered
<1> QED
  BY <1>8, <1>9

\* A job at the end of the queue, with its request or without one.
LEMMA AppendJobs ==
    ASSUME NEW q \in Seq(Job), NEW job \in Job, NEW kind, NEW p \in 0..Len(q)
    PROVE  /\ Append(q, job) \in Seq(Job) /\ Len(Append(q, job)) = Len(q) + 1
           /\ \A k \in 1..Len(q) : Append(q, job)[k] = q[k]
           /\ Append(q, job)[Len(q) + 1] = job
           /\ Jobs(Append(q, job), kind, p) =
                Jobs(q, kind, p) \cup (IF job.kind = kind THEN {Len(q) + 1} ELSE {})
<1>1. Len(q) \in Nat
  BY LenProperties
<1>2. /\ Append(q, job) \in Seq(Job) /\ Len(Append(q, job)) = Len(q) + 1
      /\ \A k \in 1..Len(q) : Append(q, job)[k] = q[k]
      /\ Append(q, job)[Len(q) + 1] = job
  BY AppendProperties
<1> DEFINE r == Append(q, job)
<1> HIDE DEF r
<1>3. Len(r) = Len(q) + 1 /\ (\A k \in 1..Len(q) : r[k] = q[k]) /\ r[Len(q) + 1] = job
  BY <1>2 DEF r
<1>4. \A k : k \in (p + 1)..Len(r) <=> k \in (p + 1)..Len(q) \/ k = Len(q) + 1
  BY <1>1, <1>3
<1>5. \A k \in (p + 1)..Len(q) : r[k] = q[k]
  BY <1>1, <1>3
<1>6. \A k : k \in Jobs(r, kind, p) <=> k \in Jobs(q, kind, p) \/ (k = Len(q) + 1 /\ job.kind = kind)
  BY <1>3, <1>4, <1>5 DEF Jobs
<1> QED
  BY <1>2, <1>6 DEF r

LEMMA AppendMatched ==
    ASSUME NEW q \in Seq(Job), NEW job \in Job, NEW p \in 0..Len(q),
           NEW R, NEW results \in Seq(R), NEW r \in R, r.state = "pending",
           NEW f, Matched(results, Jobs(q, job.kind, p), f)
    PROVE  \E g : /\ Matched(Append(results, r), Jobs(Append(q, job), job.kind, p), g)
                  /\ g[Len(results) + 1] = Len(q) + 1
                  /\ \A k \in Pending(results) : g[k] = f[k] /\ f[k] \in 1..Len(q)
<1> DEFINE n == Len(results) + 1
           m == Len(q) + 1
           open == Pending(results)
           jobs == Jobs(q, job.kind, p)
           g == [k \in open \cup {n} |-> IF k = n THEN m ELSE f[k]]
<1>1. Len(results) \in Nat /\ Len(q) \in Nat
  BY LenProperties
<1>2. Pending(Append(results, r)) = open \cup {n}
  <2>1. /\ Len(Append(results, r)) = n /\ Append(results, r)[n] = r
        /\ \A k \in 1..Len(results) : Append(results, r)[k] = results[k]
    BY AppendProperties
  <2>2. \A k : k \in 1..n <=> k \in 1..Len(results) \/ k = n
    BY <1>1
  <2> DEFINE new == Append(results, r)
  <2> HIDE DEF new, n
  <2>3. \A k : k \in Pending(new) <=> k \in open \/ k = n
    BY <2>1, <2>2 DEF Pending, new
  <2> QED
    BY <2>3 DEF new
<1>3. Jobs(Append(q, job), job.kind, p) = jobs \cup {m}
  BY AppendJobs
<1>4. f \in [open -> jobs] /\ \A i, j \in open : i < j => f[i] < f[j]
  BY DEF Matched
<1>5. \A k \in jobs : \E i \in open : f[i] = k
  BY DEF Matched
<1>6. (\A k \in open : k \in Nat /\ k < n) /\ n \in Nat /\ m \in Nat
  BY <1>1 DEF Pending
<1>7. \A k \in jobs : k \in 1..Len(q) /\ k < m
  BY <1>1 DEF Jobs
<1> HIDE DEF n, m, open, jobs
<1>8. g \in [open \cup {n} -> jobs \cup {m}]
  BY <1>4
<1>9. ASSUME NEW i \in open \cup {n}, NEW j \in open \cup {n}, i < j
      PROVE  g[i] < g[j]
  <2>1. i # n
    BY <1>6, <1>9
  <2>2. i \in open /\ g[i] = f[i] /\ f[i] \in jobs
    BY <1>4, <2>1
  <2>3. CASE j = n
    BY <1>7, <2>2, <2>3
  <2>4. CASE j # n
    BY <1>4, <1>9, <2>2, <2>4
  <2> QED
    BY <2>3, <2>4
<1>10. ASSUME NEW k \in jobs \cup {m}
       PROVE  \E i \in open \cup {n} : g[i] = k
  <2>1. CASE k \in jobs
    <3>1. PICK i \in open : f[i] = k
      BY <1>5, <2>1
    <3>2. i # n
      BY <1>6
    <3> QED
      BY <3>1, <3>2
  <2>2. CASE k = m
    BY <2>2
  <2> QED
    BY <2>1, <2>2
<1>11. g[n] = m /\ \A k \in open : g[k] = f[k] /\ f[k] \in jobs
  BY <1>4, <1>6
<1> HIDE DEF g
<1>12. Matched(Append(results, r), Jobs(Append(q, job), job.kind, p), g)
  <2>1. /\ \A i, j \in open \cup {n} : i < j => g[i] < g[j]
        /\ \A k \in jobs \cup {m} : \E i \in open \cup {n} : g[i] = k
    BY <1>9, <1>10
  <2> QED
    BY <1>2, <1>3, <1>8, <2>1, Zenon DEF Matched
<1> QED
  BY <1>7, <1>11, <1>12 DEF n, m, open

\* OnTick takes results that are answered.
LEMMA RestMatched ==
    ASSUME NEW R, NEW results \in Seq(R), NEW at \in SUBSET (1..Len(results)),
           at \cap Pending(results) = {}, NEW jobs, NEW f, Matched(results, jobs, f)
    PROVE  \E g : /\ Matched(Rest(results, at), jobs, g)
                  /\ \A k \in Pending(Rest(results, at)) : \E j \in Pending(results) :
                        Rest(results, at)[k] = results[j] /\ g[k] = f[j]
<1> DEFINE left == (1..Len(results)) \ at
           new == Rest(results, at)
           open == Pending(results)
           kept == Pending(new)
<1>1. PICK up \in [1..Len(new) -> left] :
        /\ \A i, j \in 1..Len(new) : i < j => up[i] < up[j]
        /\ \A k \in left : \E i \in 1..Len(new) : up[i] = k
        /\ \A i \in 1..Len(new) : new[i] = results[up[i]]
  <2>1. new = Pick(results, left) /\ left \in SUBSET (1..Len(results))
    BY DEF Rest
  <2> HIDE DEF new, left
  <2> QED
    BY <2>1, PickProps
<1>2. \A k \in kept : k \in 1..Len(new) /\ new[k] = results[up[k]] /\ up[k] \in open
  <2>1. ASSUME NEW k \in kept PROVE k \in 1..Len(new) /\ new[k] = results[up[k]] /\ up[k] \in open
    <3>1. k \in 1..Len(new) /\ new[k].state = "pending"
      BY DEF Pending
    <3> HIDE DEF new
    <3>2. new[k] = results[up[k]] /\ up[k] \in 1..Len(results)
      BY <3>1, <1>1
    <3>3. up[k] \in open
      BY <3>1, <3>2 DEF Pending
    <3> QED
      BY <3>1, <3>2, <3>3
  <2> QED
    BY <2>1
<1>3. \A k \in 1..Len(new) : up[k] \in open => k \in kept
  <2> HIDE DEF new
  <2> QED
    BY <1>1 DEF Pending
<1>4. open \subseteq left
  BY DEF Pending
<1>5. /\ f \in [open -> jobs] /\ \A i, j \in open : i < j => f[i] < f[j]
      /\ \A k \in jobs : \E i \in open : f[i] = k
  BY DEF Matched
<1> DEFINE g == [k \in kept |-> f[up[k]]]
<1> HIDE DEF new, open, kept, left
<1>6. g \in [kept -> jobs]
  BY <1>2, <1>5
<1>7. ASSUME NEW i \in kept, NEW j \in kept, i < j
      PROVE  g[i] < g[j]
  <2>1. up[i] < up[j]
    BY <1>1, <1>2, <1>7
  <2> QED
    BY <2>1, <1>2, <1>5
<1>8. ASSUME NEW k \in jobs
      PROVE  \E i \in kept : g[i] = k
  <2>1. PICK i \in open : f[i] = k
    BY <1>5
  <2>2. PICK j \in 1..Len(new) : up[j] = i
    BY <1>1, <1>4
  <2>3. j \in kept
    BY <1>3, <2>2
  <2> QED
    BY <2>1, <2>2, <2>3
<1>9. \A k \in kept : new[k] = results[up[k]] /\ g[k] = f[up[k]] /\ up[k] \in open
  BY <1>2
<1> HIDE DEF g
<1>10. Matched(new, jobs, g)
  <2>1. (\A i, j \in kept : i < j => g[i] < g[j]) /\ \A k \in jobs : \E i \in kept : g[i] = k
    BY <1>7, <1>8
  <2> QED
    BY <1>6, <2>1, Zenon DEF Matched, kept
<1> QED
  BY <1>9, <1>10 DEF new, open, kept
-----------------------------------------------------------------------------
LEMMA GetClanProps ==
    ASSUME NEW seq \in Seq(Clan), NEW i
    PROVE  /\ GetClan(seq, i) # 0 <=> \E k \in 1..Len(seq) : seq[k].id = i
           /\ GetClan(seq, i) # 0 => /\ GetClan(seq, i) \in 1..Len(seq)
                                     /\ seq[GetClan(seq, i)].id = i
<1> DEFINE at == {k \in 1..Len(seq) : seq[k].id = i}
<1>1. at \subseteq Nat /\ 0 \notin at
  BY LenProperties
<1>2. at # {} => (CHOOSE k \in at : \A j \in at : k <= j) \in at
  <2> HIDE DEF at
  <2>1. at # {} => \E k \in at : \A j \in at : k <= j
    BY <1>1, Smallest
  <2> QED
    BY <2>1, Zenon
<1>3. GetClan(seq, i) = IF at = {} THEN 0 ELSE CHOOSE k \in at : \A j \in at : k <= j
  BY DEF GetClan
<1>4. GetClan(seq, i) # 0 <=> at # {}
  <2> HIDE DEF at
  <2> QED
    BY <1>1, <1>2, <1>3
<1>5. GetClan(seq, i) # 0 => GetClan(seq, i) \in at
  <2> HIDE DEF at
  <2> QED
    BY <1>2, <1>3
<1> QED
  BY <1>4, <1>5

\* What an answer makes of a result.
LEMMA AnsweredProps ==
    /\ \A r \in LoginResult :
          /\ Answered(r, Failed) \in LoginResult
          /\ Answered(r, Failed).state = "failed" /\ Answered(r, Failed).clan = r.clan /\ Answered(r, Failed).id = r.id
    /\ \A r \in CreateResult :
          /\ Answered(r, Failed) \in CreateResult
          /\ Answered(r, Failed).state = "failed" /\ Answered(r, Failed).name = r.name
    /\ \A r \in CountResult :
          /\ Answered(r, Failed) \in CountResult
          /\ Answered(r, Failed).clan = r.clan
    /\ \A r \in LoginResult, i \in AccountId, c \in Number, l \in Number :
          LET a == Answered(r, [state |-> "successful", id |-> i, clan |-> c, lang |-> l])
          IN  a \in LoginResult /\ a.state = "successful" /\ a.id = i /\ a.clan = c
    /\ \A r \in CreateResult, c \in ClanId :
          LET a == Answered(r, [state |-> "successful", clan |-> c])
          IN  a \in CreateResult /\ a.state = "successful" /\ a.clan = c /\ a.name = r.name
    /\ \A r \in CountResult, m \in Nat :
          LET a == Answered(r, [state |-> "successful", members |-> m])
          IN  a \in CountResult /\ a.clan = r.clan
<1>1. \A r \in LoginResult :
          /\ Answered(r, Failed) \in LoginResult
          /\ Answered(r, Failed).state = "failed" /\ Answered(r, Failed).clan = r.clan /\ Answered(r, Failed).id = r.id
  BY DEF Answered, Failed, LoginResult, State
<1>2. \A r \in CreateResult :
          /\ Answered(r, Failed) \in CreateResult
          /\ Answered(r, Failed).state = "failed" /\ Answered(r, Failed).name = r.name
  BY DEF Answered, Failed, CreateResult, State
<1>3. \A r \in CountResult :
          /\ Answered(r, Failed) \in CountResult
          /\ Answered(r, Failed).clan = r.clan
  BY DEF Answered, Failed, CountResult, State
<1>4. \A r \in LoginResult, i \in AccountId, c \in Number, l \in Number :
          LET a == Answered(r, [state |-> "successful", id |-> i, clan |-> c, lang |-> l])
          IN  a \in LoginResult /\ a.state = "successful" /\ a.id = i /\ a.clan = c
  BY DEF Answered, LoginResult, State
<1>5. \A r \in CreateResult, c \in ClanId :
          LET a == Answered(r, [state |-> "successful", clan |-> c])
          IN  a \in CreateResult /\ a.state = "successful" /\ a.clan = c /\ a.name = r.name
  BY DEF Answered, CreateResult, State
<1>6. \A r \in CountResult, m \in Nat :
          LET a == Answered(r, [state |-> "successful", members |-> m])
          IN  a \in CountResult /\ a.clan = r.clan
  BY DEF Answered, CountResult, State
<1> QED
  BY <1>1, <1>2, <1>3, <1>4, <1>5, <1>6, Zenon

\* A step may only add saves of accounts to the queue.
Grows ==
    /\ queue' \in Seq(Job) /\ Len(queue') <= MaxJobs /\ Len(queue) <= Len(queue')
    /\ \A k \in 1..Len(queue) : queue'[k] = queue[k]
    /\ \A k \in (Len(queue) + 1)..Len(queue') : queue'[k].kind = "account"

LEMMA SameGrows ==
    ASSUME queue \in Seq(Job), Len(queue) <= MaxJobs, queue' = queue
    PROVE  Grows
<1>1. Len(queue) \in Nat
  BY LenProperties
<1> QED
  BY <1>1 DEF Grows

LEMMA SaveGrows ==
    ASSUME queue \in Seq(Job), NEW p \in [Slot -> Player], NEW S \in SUBSET Slot, Save(p, S)
    PROVE  Grows
<1> DEFINE felt == {s \in S : p[s].lang \in Account}
           n == Cardinality(felt)
<1>1. PICK f \in Orders(felt) :
         queue' = queue \o [k \in 1..n |-> AccountJob(p[f[k]])]
  BY DEF Save
<1>2. Len(queue) + n <= MaxJobs
  BY DEF Save
<1>3. n \in Nat
  <2>1. felt \in SUBSET Slot
    OBVIOUS
  <2>2. IsFiniteSet(felt)
    BY <2>1, ClansAssumption, FS_Subset
  <2> QED
    BY <2>2, FS_CardinalityType
<1>4. f \in [1..n -> felt]
  BY DEF Orders
<1>5. \A s \in felt : s \in Slot /\ p[s].lang \in Account
  OBVIOUS
<1> DEFINE saves == [k \in 1..n |-> AccountJob(p[f[k]])]
<1> HIDE DEF felt, n
<1>6. \A k \in 1..n : AccountJob(p[f[k]]) \in Job /\ AccountJob(p[f[k]]).kind = "account"
  <2>1. ASSUME NEW k \in 1..n PROVE AccountJob(p[f[k]]) \in Job /\ AccountJob(p[f[k]]).kind = "account"
    <3>1. f[k] \in felt
      BY <1>4
    <3>2. p[f[k]] \in Player /\ p[f[k]].lang \in Account
      BY <1>5, <3>1
    <3> QED
      BY <3>2 DEF Player, AccountJob, Job
  <2> QED
    BY <2>1
<1>7. saves \in Seq(Job) /\ Len(saves) = n /\ \A k \in 1..n : saves[k].kind = "account"
  <2>1. saves \in [1..n -> Job] /\ DOMAIN saves = 1..n
    BY <1>6
  <2>2. saves \in Seq(Job) /\ Len(saves) = n
    BY <1>3, <2>1, FunctionIsSeq
  <2> QED
    BY <1>6, <2>2
<1>8. queue' = queue \o saves /\ Len(queue) \in Nat
  BY <1>1, LenProperties
<1> HIDE DEF saves
<1>9. /\ queue' \in Seq(Job) /\ Len(queue') = Len(queue) + n
      /\ \A k \in 1..(Len(queue) + n) :
            queue'[k] = IF k <= Len(queue) THEN queue[k] ELSE saves[k - Len(queue)]
  BY <1>7, <1>8, ConcatProperties
<1>10. \A k \in (Len(queue) + 1)..Len(queue') : queue'[k].kind = "account"
  <2>1. ASSUME NEW k \in (Len(queue) + 1)..Len(queue') PROVE queue'[k].kind = "account"
    <3>1. k - Len(queue) \in 1..n /\ k \in 1..(Len(queue) + n) /\ ~(k <= Len(queue))
      BY <1>3, <1>8, <1>9
    <3> QED
      BY <1>7, <1>9, <3>1
  <2> QED
    BY <2>1
<1> QED
  BY <1>2, <1>3, <1>8, <1>9, <1>10 DEF Grows

\* What only adds such saves adds no other job.
LEMMA GrownJobs ==
    ASSUME queue \in Seq(Job), Grows, NEW kind, kind # "account", NEW p \in Nat
    PROVE  Jobs(queue', kind, p) = Jobs(queue, kind, p)
<1>1. Len(queue) \in Nat /\ Len(queue') \in Nat
  BY LenProperties DEF Grows
<1>2. \A k \in (p + 1)..Len(queue') :
         queue'[k].kind = kind => k \in (p + 1)..Len(queue) /\ queue[k].kind = kind
  BY <1>1 DEF Grows
<1>3. \A k \in (p + 1)..Len(queue) :
         k \in (p + 1)..Len(queue') /\ queue'[k] = queue[k]
  BY <1>1 DEF Grows
<1> QED
  BY <1>2, <1>3 DEF Jobs

LEMMA GrownMark ==
    ASSUME queue \in Seq(Job), Grows, (load'.state = "pending") = (load.state = "pending"),
           NEW p \in 0..Len(queue), Mark(p)
    PROVE  p \in 0..Len(queue') /\ Mark(p)'
<1>1. Len(queue) \in Nat /\ Len(queue') \in Nat /\ p \in Nat
  BY LenProperties DEF Grows
<1>2. p \in 0..Len(queue') /\ (p # 0 => queue'[p] = queue[p])
  BY <1>1 DEF Grows
<1>3. Jobs(queue', "load", p) = Jobs(queue, "load", p)
  BY <1>1, GrownJobs
<1> QED
  BY <1>2, <1>3 DEF Mark

LEMMA AlignedSame ==
    ASSUME IInv, ~shutdown, load' = load, logins' = logins, creates' = creates, Grows
    PROVE  \E p \in 0..Len(queue') : Aligned(p)'
<1>1. PICK p \in 0..Len(queue) : Aligned(p)
  BY DEF IInv
<1>2. queue \in Seq(Job) /\ Len(queue) \in Nat /\ p \in Nat
  BY LenProperties DEF IInv, TypeOK
<1>3. p \in 0..Len(queue') /\ Mark(p)'
  BY <1>1, <1>2, GrownMark DEF Aligned
<1>4. Pending(logins)' = Pending(logins) /\ Pending(creates)' = Pending(creates)
  BY Zenon
<1>5. /\ Jobs(queue', "login", p) = Jobs(queue, "login", p)
      /\ Jobs(queue', "create", p) = Jobs(queue, "create", p)
  BY <1>2, GrownJobs
<1>6. PICK f \in [Pending(creates) -> Jobs(queue, "create", p)] :
         /\ Matched(creates, Jobs(queue, "create", p), f)
         /\ \A k \in Pending(creates) : queue[f[k]].name = creates[k].name
  BY <1>1 DEF Aligned
<1>7. \A k \in Pending(creates) : queue'[f[k]].name = creates[k].name
  <2>1. \A k \in Pending(creates) : f[k] \in 1..Len(queue)
    BY <1>2, JobsFinite
  <2> QED
    BY <1>6, <2>1 DEF Grows
<1>8. \E g \in [Pending(logins) -> Jobs(queue, "login", p)] :
         Matched(logins, Jobs(queue, "login", p), g)
  BY <1>1 DEF Aligned
<1>9. Aligned(p)'
  <2>1. Matched(creates, Jobs(queue, "create", p), f)
    BY <1>6
  <2> QED
    BY <1>3, <1>4, <1>5, <1>7, <1>8, <2>1, Zenon DEF Aligned
<1> QED
  BY <1>3, <1>9

\* A step of one player.
LEMMA PlayerKeepsIInv ==
    ASSUME IInv, ~shutdown, NEW s \in Slot, NEW q \in Player, players' = [players EXCEPT ![s] = q],
           Grows, UNCHANGED <<cache, requests, tables, shutdown, faults>>,
           Sane(q.id, q.clan), q.invite \in 0..Len(clans),
           q.loggedIn \/ q.clan # 0 \/ q.invite # 0 => load.state = "none",
           ~q.here => q = Nobody
    PROVE  IInv'
<1> USE DEF IInv
<1>0. /\ cache' = cache /\ load' = load /\ logins' = logins /\ creates' = creates /\ counts' = counts
      /\ clans' = clans /\ userClan' = userClan /\ userLang' = userLang /\ strays' = strays
      /\ shutdown' = shutdown /\ faults' = faults
  BY DEF requests, tables
<1>1. players \in [Slot -> Player]
  BY DEF TypeOK
<1>2. /\ players' \in [Slot -> Player] /\ players'[s] = q
      /\ \A t \in Slot : t # s => players'[t] = players[t]
  BY <1>1
<1>3. TypeOK'
  BY <1>0, <1>2, Zenon DEF TypeOK, Grows
<1>4. Rows'
  <2>1. \A t \in Slot : Sane(players'[t].id, players'[t].clan) /\ players'[t].invite \in 0..Len(clans)
    BY <1>2 DEF Rows
  <2> QED
    BY <1>0, <2>1, Zenon DEF Rows, Sane
<1>5. UniqueClanNames' /\ ListOfRows' /\ CreatedOnce' /\ CacheAgrees'
  <2>1. UniqueClanNames'
    BY <1>0, Zenon DEF UniqueClanNames
  <2>2. ListOfRows'
    BY <1>0, Zenon DEF ListOfRows
  <2>3. CreatedOnce'
    <3>1. Created' = Created
      BY <1>0 DEF Created
    <3> QED
      BY <1>0, <3>1, Zenon DEF CreatedOnce
  <2>4. CacheAgrees'
    BY <1>0, Zenon DEF CacheAgrees
  <2> QED
    BY <2>1, <2>2, <2>3, <2>4
<1>6. ListFirst'
  <2>1. \A t \in Slot : players'[t].loggedIn \/ players'[t].clan # 0 \/ players'[t].invite # 0 => load.state = "none"
    BY <1>2 DEF ListFirst
  <2> QED
    BY <1>0, <2>1, Zenon DEF ListFirst
<1>7. Closed'
  <2>1. \A t \in Slot : ~players'[t].here => players'[t] = Nobody
    BY <1>2 DEF Closed
  <2> QED
    BY <1>0, <2>1 DEF Closed
<1>8. (~shutdown => \E p \in 0..Len(queue) : Aligned(p))'
  BY <1>0, AlignedSame
<1>9. AllKnown'
  BY <1>0, Zenon DEF AllKnown, Known
<1> QED
  BY <1>3, <1>4, <1>5, <1>6, <1>7, <1>8, <1>9

\* What a clan owns changes in the cache.
LEMMA CacheKeepsIInv ==
    ASSUME IInv, ~shutdown, NEW k \in 1..Len(cache), NEW c \in Clan, cache' = [cache EXCEPT ![k] = c],
           UNCHANGED <<players, requests, queue, tables, shutdown, faults>>,
           c.id = cache[k].id, c.name = cache[k].name
    PROVE  IInv'
<1> USE DEF IInv
<1>0. /\ players' = players /\ load' = load /\ logins' = logins /\ creates' = creates /\ counts' = counts
      /\ queue' = queue /\ clans' = clans /\ userClan' = userClan /\ userLang' = userLang /\ strays' = strays
      /\ shutdown' = shutdown /\ faults' = faults
  BY DEF requests, tables
<1>1. cache \in Seq(Clan) /\ Len(cache) \in Nat
  BY LenProperties DEF TypeOK
<1>2. cache \in [1..Len(cache) -> Clan]
  BY <1>1, LenProperties
<1>3. cache' \in [1..Len(cache) -> Clan] /\ DOMAIN cache' = 1..Len(cache)
  BY <1>2
<1>4. cache' \in Seq(Clan) /\ Len(cache') = Len(cache)
  BY <1>1, <1>3, FunctionIsSeq
<1>5. \A j \in 1..Len(cache) : cache'[j].id = cache[j].id /\ cache'[j].name = cache[j].name
  BY <1>2
<1>6. TypeOK'
  BY <1>0, <1>4, Zenon DEF TypeOK
<1>7. Rows' /\ UniqueClanNames' /\ ListOfRows'
  BY <1>0, Zenon DEF Rows, Sane, UniqueClanNames, ListOfRows
<1>8. CreatedOnce' /\ CacheAgrees'
  <2>1. CreatedOnce'
    <3>1. Created' = Created
      BY <1>0 DEF Created
    <3>2. \A j \in 1..Len(cache'), m \in Created : cache'[j].id # creates[m].clan
      BY <1>4, <1>5 DEF CreatedOnce
    <3>3. /\ \A m \in Created' : creates'[m].clan \in 1..Len(clans')
                               /\ clans'[creates'[m].clan].name = creates'[m].name
          /\ \A i, m \in Created' : creates'[i].clan = creates'[m].clan => i = m
      BY <1>0, <3>1 DEF CreatedOnce
    <3>4. \A j \in 1..Len(cache'), m \in Created' : cache'[j].id # creates'[m].clan
      BY <1>0, <3>1, <3>2
    <3> QED
      BY <3>3, <3>4, Zenon DEF CreatedOnce
  <2>2. CacheAgrees'
    BY <1>0, <1>4, <1>5 DEF CacheAgrees
  <2> QED
    BY <2>1, <2>2
<1>9. load.state = "none" /\ cache # << >>
  <2>1. cache # << >>
    BY <1>1
  <2> QED
    BY <2>1 DEF ListFirst
<1>10. ListFirst'
  BY <1>0, <1>9, Zenon DEF ListFirst
<1>11. Closed' /\ (~shutdown => \E p \in 0..Len(queue) : Aligned(p))'
  <2>1. Grows
    BY <1>0, SameGrows DEF TypeOK
  <2> QED
    BY <1>0, <2>1, AlignedSame DEF Closed
<1>12. AllKnown'
  <2>1. ASSUME NEW i PROVE Known(i) => Known(i)'
    <3>1. GetClan(cache, i) # 0 <=> \E j \in 1..Len(cache) : cache[j].id = i
      BY <1>1, GetClanProps
    <3>2. GetClan(cache', i) # 0 <=> \E j \in 1..Len(cache') : cache'[j].id = i
      BY <1>4, GetClanProps
    <3>3. GetClan(cache, i) # 0 => GetClan(cache', i) # 0
      BY <1>4, <1>5, <3>1, <3>2, Zenon
    <3> QED
      BY <1>0, <3>3, Zenon DEF Known
  <2> QED
    BY <1>0, <2>1, Zenon DEF AllKnown
<1> QED
  BY <1>6, <1>7, <1>8, <1>10, <1>11, <1>12

\* What a step asks of the database: a job, and a request that waits for it.
AsksLogin(job) ==
    /\ job.kind = "login"
    /\ \E r \in LoginResult : r.state = "pending" /\ r.clan = 0 /\ logins' = Append(logins, r)
    /\ creates' = creates /\ counts' = counts

AsksCreate(job) ==
    /\ job.kind = "create" /\ load.state = "none"
    /\ \E r \in CreateResult :
          r.state = "pending" /\ r.name = job.name /\ creates' = Append(creates, r)
    /\ logins' = logins /\ counts' = counts

AsksOther(job) ==
    /\ job.kind \in {"count", "save"}
    /\ logins' = logins /\ creates' = creates
    /\ \/ counts' = counts
       \/ load.state = "none" /\ \E r \in CountResult : r.clan \in 0..Len(clans) /\ counts' = Append(counts, r)

LEMMA AskKeepsAligned ==
    ASSUME IInv, ~shutdown, NEW job \in Job, queue' = Append(queue, job), load' = load,
           AsksLogin(job) \/ AsksCreate(job) \/ AsksOther(job)
    PROVE  \E p \in 0..Len(queue') : Aligned(p)'
<1>1. PICK p \in 0..Len(queue) : Aligned(p)
  BY DEF IInv
<1>2. queue \in Seq(Job) /\ logins \in Seq(LoginResult) /\ creates \in Seq(CreateResult)
  BY DEF IInv, TypeOK, LoginResult, CreateResult
<1>3. /\ Len(queue) \in Nat /\ queue' \in Seq(Job) /\ Len(queue') = Len(queue) + 1
      /\ \A k \in 1..Len(queue) : queue'[k] = queue[k]
      /\ queue'[Len(queue) + 1] = job
  BY <1>2, AppendJobs, LenProperties
<1>4. ASSUME NEW kind, job.kind # kind
      PROVE  Jobs(queue', kind, p) = Jobs(queue, kind, p)
  <2>1. Jobs(Append(queue, job), kind, p) =
          Jobs(queue, kind, p) \cup (IF job.kind = kind THEN {Len(queue) + 1} ELSE {})
    BY ONLY <1>1, <1>2, job \in Job, AppendJobs
  <2>2. Jobs(Append(queue, job), kind, p) = Jobs(queue, kind, p)
    BY <1>4, <2>1
  <2> QED
    BY <2>2, Zenon
<1>5. job.kind # "load"
  BY DEF AsksLogin, AsksCreate, AsksOther
<1>6. Mark(p)'
  <2>1. Jobs(queue', "load", p) = Jobs(queue, "load", p)
    BY <1>4, <1>5
  <2>2. p # 0 => queue'[p] = queue[p]
    BY <1>3
  <2>3. p \in 0..Len(queue')
    BY <1>3
  <2> QED
    BY <1>1, <2>1, <2>2, <2>3 DEF Aligned, Mark
<1>7. \E f \in [Pending(logins') -> Jobs(queue', "login", p)] :
          Matched(logins', Jobs(queue', "login", p), f)
  <2>1. PICK f : Matched(logins, Jobs(queue, "login", p), f)
    BY <1>1 DEF Aligned
  <2>2. SUFFICES \E g : Matched(logins', Jobs(queue', "login", p), g)
    BY Zenon DEF Matched
  <2>3. CASE AsksLogin(job)
    <3>1. PICK r \in LoginResult : r.state = "pending" /\ logins' = Append(logins, r)
      BY <2>3 DEF AsksLogin
    <3>2. job.kind = "login"
      BY <2>3 DEF AsksLogin
    <3> QED
      BY <1>2, <2>1, <3>1, <3>2, AppendMatched
  <2>4. CASE AsksCreate(job) \/ AsksOther(job)
    <3>1. logins' = logins /\ job.kind # "login"
      BY <2>4 DEF AsksCreate, AsksOther
    <3>2. Jobs(queue', "login", p) = Jobs(queue, "login", p)
      BY <1>4, <3>1
    <3> QED
      BY <2>1, <3>1, <3>2, Zenon
  <2> QED
    BY <2>3, <2>4
<1>8. \E f \in [Pending(creates') -> Jobs(queue', "create", p)] :
          /\ Matched(creates', Jobs(queue', "create", p), f)
          /\ \A k \in Pending(creates') : queue'[f[k]].name = creates'[k].name
  <2>1. PICK f : /\ Matched(creates, Jobs(queue, "create", p), f)
                 /\ \A k \in Pending(creates) : queue[f[k]].name = creates[k].name
    BY <1>1 DEF Aligned
  <2>2. SUFFICES \E g : /\ Matched(creates', Jobs(queue', "create", p), g)
                        /\ \A k \in Pending(creates') : queue'[g[k]].name = creates'[k].name
    BY Zenon DEF Matched
  <2>3. CASE AsksCreate(job)
    <3>1. PICK r \in CreateResult :
             r.state = "pending" /\ r.name = job.name /\ creates' = Append(creates, r)
      BY <2>3 DEF AsksCreate
    <3>2. job.kind = "create"
      BY <2>3 DEF AsksCreate
    <3>3. PICK g : /\ Matched(creates', Jobs(queue', "create", p), g)
                   /\ g[Len(creates) + 1] = Len(queue) + 1
                   /\ \A k \in Pending(creates) : g[k] = f[k] /\ f[k] \in 1..Len(queue)
      <4>1. Matched(creates, Jobs(queue, job.kind, p), f)
        BY <2>1, <3>2
      <4>2. \E g : /\ Matched(Append(creates, r), Jobs(Append(queue, job), job.kind, p), g)
                   /\ g[Len(creates) + 1] = Len(queue) + 1
                   /\ \A k \in Pending(creates) : g[k] = f[k] /\ f[k] \in 1..Len(queue)
        <5>1. creates \in Seq(CreateResult) /\ queue \in Seq(Job) /\ r.state = "pending"
          BY <1>2, <3>1
        <5> QED
          BY ONLY <4>1, <5>1, AppendMatched, job \in Job, p \in 0..Len(queue), r \in CreateResult
      <4>3. PICK g : /\ Matched(Append(creates, r), Jobs(Append(queue, job), job.kind, p), g)
                     /\ g[Len(creates) + 1] = Len(queue) + 1
                     /\ \A k \in Pending(creates) : g[k] = f[k] /\ f[k] \in 1..Len(queue)
        BY <4>2, Zenon
      <4>4. Jobs(Append(queue, job), job.kind, p) = Jobs(queue', "create", p)
        BY <3>2, Zenon
      <4>5. Matched(creates', Jobs(queue', "create", p), g)
        BY <3>1, <4>3, <4>4, Zenon
      <4> QED
        BY <4>3, <4>5, Zenon
    <3>4. ASSUME NEW k \in Pending(creates')
          PROVE  queue'[g[k]].name = creates'[k].name
      <4>1. /\ Len(creates) \in Nat /\ Len(creates') = Len(creates) + 1
            /\ \A j \in 1..Len(creates) : creates'[j] = creates[j]
            /\ creates'[Len(creates) + 1] = r
        BY <1>2, <3>1, AppendProperties, LenProperties
      <4>2. CASE k = Len(creates) + 1
        BY <1>3, <3>1, <3>3, <4>1, <4>2
      <4>3. CASE k # Len(creates) + 1
        <5>1. k \in Pending(creates) /\ creates'[k] = creates[k]
          BY <4>1, <4>3 DEF Pending
        <5> QED
          BY <1>3, <2>1, <3>3, <5>1
      <4> QED
        BY <4>2, <4>3
    <3> QED
      BY <3>3, <3>4
  <2>4. CASE AsksLogin(job) \/ AsksOther(job)
    <3>1. creates' = creates /\ job.kind # "create"
      BY <2>4 DEF AsksLogin, AsksOther
    <3>2. Jobs(queue', "create", p) = Jobs(queue, "create", p)
      BY <1>4, <3>1
    <3>3. \A k \in Pending(creates) : f[k] \in 1..Len(queue)
      <4>1. Jobs(queue, "create", p) \subseteq 1..Len(queue)
        BY <1>2, JobsFinite
      <4> QED
        BY <2>1, <4>1 DEF Matched
    <3>4. \A k \in Pending(creates) : queue'[f[k]].name = creates[k].name
      BY <1>3, <2>1, <3>3
    <3> QED
      BY <2>1, <3>1, <3>2, <3>4, Zenon
  <2> QED
    BY <2>3, <2>4
<1>9. p \in 0..Len(queue')
  BY <1>3
<1> QED
  BY <1>6, <1>7, <1>8, <1>9, Zenon DEF Aligned

LEMMA AskKeepsIInv ==
    ASSUME IInv, ~shutdown, Room, NEW job \in Job, queue' = Append(queue, job),
           AsksLogin(job) \/ AsksCreate(job) \/ AsksOther(job),
           UNCHANGED <<players, cache, load, tables, shutdown, faults>>
    PROVE  IInv'
<1> USE DEF IInv
<1>0. /\ players' = players /\ cache' = cache /\ load' = load
      /\ clans' = clans /\ userClan' = userClan /\ userLang' = userLang /\ strays' = strays
      /\ shutdown' = shutdown /\ faults' = faults
  BY DEF tables
<1>1. /\ queue \in Seq(Job) /\ logins \in Seq(LoginResult) /\ creates \in Seq(CreateResult)
      /\ counts \in Seq(CountResult) /\ MaxJobs \in Nat
  BY ClansAssumption DEF TypeOK, LoginResult, CreateResult, CountResult
<1>2. queue' \in Seq(Job) /\ Len(queue') <= MaxJobs
  <2>1. Len(queue) \in Nat /\ Len(queue') = Len(queue) + 1
    BY <1>1, AppendJobs, LenProperties
  <2> QED
    BY <1>1, <2>1, AppendJobs DEF Room
<1>3. /\ logins' \in Seq(LoginResult)
      /\ \A k \in 1..Len(logins') :
            \/ k \in 1..Len(logins) /\ logins'[k] = logins[k]
            \/ logins'[k].clan = 0 /\ logins'[k].state = "pending"
  <2>1. CASE AsksLogin(job)
    <3>1. PICK r \in LoginResult : r.state = "pending" /\ r.clan = 0 /\ logins' = Append(logins, r)
      BY <2>1 DEF AsksLogin
    <3> QED
      BY <1>1, <3>1, AppendProperties
  <2>2. CASE AsksCreate(job) \/ AsksOther(job)
    BY <1>1, <2>2 DEF AsksCreate, AsksOther
  <2> QED
    BY <2>1, <2>2
<1>4. /\ creates' \in Seq(CreateResult)
      /\ Created' = Created /\ \A k \in Created : creates'[k] = creates[k]
      /\ creates' # creates => load.state = "none"
  <2>1. CASE AsksCreate(job)
    <3>1. PICK r \in CreateResult : r.state = "pending" /\ creates' = Append(creates, r)
      BY <2>1 DEF AsksCreate
    <3>2. /\ creates' \in Seq(CreateResult) /\ Len(creates) \in Nat /\ Len(creates') = Len(creates) + 1
          /\ \A j \in 1..Len(creates) : creates'[j] = creates[j]
          /\ creates'[Len(creates) + 1] = r
      BY <1>1, <3>1, AppendProperties, LenProperties
    <3>3. Created' = Created /\ \A k \in Created : creates'[k] = creates[k]
      BY <3>1, <3>2 DEF Created
    <3> QED
      BY <2>1, <3>2, <3>3 DEF AsksCreate
  <2>2. CASE creates' = creates
    BY <1>1, <2>2 DEF Created
  <2> QED
    BY <2>1, <2>2 DEF AsksLogin, AsksOther
<1>5. /\ counts' \in Seq(CountResult)
      /\ \A k \in 1..Len(counts') : counts'[k].clan \in 0..Len(clans)
      /\ counts' # counts => load.state = "none"
  <2>1. \A k \in 1..Len(counts) : counts[k].clan \in 0..Len(clans)
    BY DEF Rows
  <2>2. CASE counts' = counts
    BY <1>1, <2>1, <2>2
  <2>3. CASE counts' # counts
    <3>1. load.state = "none" /\ \E r \in CountResult : r.clan \in 0..Len(clans) /\ counts' = Append(counts, r)
      BY <2>3 DEF AsksLogin, AsksCreate, AsksOther
    <3>2. PICK r \in CountResult : r.clan \in 0..Len(clans) /\ counts' = Append(counts, r)
      BY <3>1
    <3> QED
      BY <1>1, <2>1, <3>1, <3>2, AppendProperties
  <2> QED
    BY <2>2, <2>3
<1>6. TypeOK'
  BY <1>0, <1>2, <1>3, <1>4, <1>5, Zenon DEF TypeOK, LoginResult, CreateResult, CountResult
<1>7. Rows'
  <2>1. \A k \in 1..Len(logins') : Sane(logins'[k].id, logins'[k].clan)
    <3>1. 0 \in 0..Len(clans)
      BY LenProperties DEF TypeOK
    <3>2. \A k \in 1..Len(logins) : Sane(logins[k].id, logins[k].clan)
      BY DEF Rows
    <3>3. ASSUME NEW k \in 1..Len(logins') PROVE Sane(logins'[k].id, logins'[k].clan)
      <4>1. CASE k \in 1..Len(logins) /\ logins'[k] = logins[k]
        <5>1. Sane(logins[k].id, logins[k].clan)
          BY <3>2, <4>1
        <5> QED
          BY <4>1, <5>1
      <4>2. CASE logins'[k].clan = 0
        BY <3>1, <4>2 DEF Sane
      <4> QED
        BY <1>3, <4>1, <4>2
    <3> QED
      BY <3>3
  <2> QED
    BY <1>0, <1>5, <2>1, Zenon DEF Rows, Sane
<1>8. UniqueClanNames' /\ ListOfRows' /\ CacheAgrees'
  <2>1. UniqueClanNames'
    BY <1>0, Zenon DEF UniqueClanNames
  <2>2. ListOfRows'
    BY <1>0, Zenon DEF ListOfRows
  <2>3. CacheAgrees'
    BY <1>0, Zenon DEF CacheAgrees
  <2> QED
    BY <2>1, <2>2, <2>3
<1>9. CreatedOnce'
  <2>1. /\ \A k \in Created : creates'[k].clan \in 1..Len(clans) /\ clans[creates'[k].clan].name = creates'[k].name
        /\ \A j, k \in Created : creates'[j].clan = creates'[k].clan => j = k
        /\ \A j \in 1..Len(cache), k \in Created : cache[j].id # creates'[k].clan
    BY <1>4 DEF CreatedOnce
  <2> QED
    BY <1>0, <1>4, <2>1 DEF CreatedOnce
<1>10. ListFirst'
  <2>1. load.state = "pending" => \A k \in 1..Len(logins') : logins'[k].state # "successful"
    BY <1>3 DEF ListFirst
  <2>2. creates' # << >> \/ counts' # << >> => load.state = "none"
    BY <1>4, <1>5 DEF ListFirst
  <2> QED
    BY <1>0, <2>1, <2>2, Zenon DEF ListFirst
<1>11. Closed'
  BY <1>0 DEF Closed
<1>12. \E p \in 0..Len(queue') : Aligned(p)'
  BY <1>0, AskKeepsAligned
<1>13. AllKnown'
  <2>1. ASSUME NEW i, Known(i) PROVE Known(i)'
    <3>1. (\E k \in Created : creates[k].clan = i) => \E k \in Created' : creates'[k].clan = i
      BY <1>4
    <3> QED
      BY <1>0, <2>1, <3>1 DEF Known, Created
  <2> QED
    BY <1>0, <2>1 DEF AllKnown
<1> QED
  BY <1>6, <1>7, <1>8, <1>9, <1>10, <1>11, <1>12, <1>13
-----------------------------------------------------------------------------
\* The mark moves up with the queue, and is gone with the job that it marks.
LEMMA TailKeepsMark ==
    ASSUME queue \in Seq(Job), queue # << >>, queue' = Tail(queue), NEW p, Mark(p), NEW data,
           load' = IF Head(queue).kind = "load" THEN LoadDone(data) ELSE load
    PROVE  /\ Mark(IF p = 0 THEN 0 ELSE p - 1)'
           /\ (IF p = 0 THEN 0 ELSE p - 1) \in 0..Len(queue')
<1>1. /\ Len(queue) \in Nat /\ Len(queue) >= 1 /\ Head(queue) = queue[1]
      /\ Len(queue') = Len(queue) - 1 /\ \A k \in 1..(Len(queue) - 1) : queue'[k] = queue[k + 1]
  BY LenProperties, EmptySeq, HeadTailProperties
<1>2. /\ p \in 0..Len(queue) /\ (p # 0 <=> load.state = "pending")
      /\ p # 0 => queue[p].kind = "load" /\ Jobs(queue, "load", p) = {}
  BY DEF Mark
<1> DEFINE loads == {k \in 1..Len(queue) : queue[k].kind = "load"}
<1>3. IsFiniteSet(loads) /\ Kinds("load") = Cardinality(loads)
  <2>1. IsFiniteSet(1..Len(queue))
    BY <1>1, FS_Interval
  <2> QED
    BY <2>1, FS_Subset DEF Kinds
<1>4. CASE p = 0
  <2>1. load'.state # "pending"
    BY <1>2, <1>4 DEF LoadDone
  <2> QED
    BY <1>1, <1>4, <2>1 DEF Mark
<1>5. CASE p = 1
  <2>1. loads = {1}
    BY <1>1, <1>2, <1>5 DEF Jobs
  <2>2. Kinds("load") = 1
    BY <1>3, <2>1, FS_Singleton
  <2>3. load'.state = "done"
    BY <1>1, <1>2, <1>5, <2>2 DEF LoadDone
  <2> QED
    BY <1>1, <1>5, <2>3 DEF Mark
<1>6. CASE p # 0 /\ p # 1
  <2>1. load' = load
    <3>1. CASE Head(queue).kind = "load"
      <4>1. 1 \in loads /\ p \in loads
        BY <1>1, <1>2, <1>6, <3>1
      <4>2. Cardinality(loads) # 1
        <5> HIDE DEF loads
        <5> QED
          BY <1>3, <1>6, <4>1, FS_Singleton
      <4> QED
        BY <1>3, <3>1, <4>2 DEF LoadDone
    <3> QED
      BY <3>1
  <2>2. queue'[p - 1].kind = "load" /\ p - 1 \in 0..Len(queue') /\ p - 1 # 0
    BY <1>1, <1>2, <1>6
  <2>3. Jobs(queue', "load", p - 1) = {}
    <3>1. ASSUME NEW k \in Jobs(queue', "load", p - 1) PROVE FALSE
      <4>1. k \in ((p - 1) + 1)..Len(queue') /\ queue'[k].kind = "load"
        BY <3>1 DEF Jobs
      <4>2. k + 1 \in (p + 1)..Len(queue) /\ queue[k + 1].kind = "load"
        BY <1>1, <1>2, <1>6, <4>1
      <4> QED
        BY <1>2, <1>6, <4>2 DEF Jobs
    <3> QED
      BY <3>1
  <2> QED
    BY <1>2, <1>6, <2>1, <2>2, <2>3 DEF Mark
<1> QED
  BY <1>2, <1>4, <1>5, <1>6

\* What is common to the ends of all jobs.
LEMMA JobMatched ==
    ASSUME IInv, ~shutdown, queue # << >>, queue' = Tail(queue),
           NEW data, load' = IF Head(queue).kind = "load" THEN LoadDone(data) ELSE load,
           NEW c1, \A r \in LoginResult : Answered(r, c1).state # "pending",
           NEW c2, \A r \in CreateResult : Answered(r, c2).state # "pending",
           logins' = IF Head(queue).kind = "login" THEN Answer(logins, "login", c1) ELSE logins,
           creates' = IF Head(queue).kind = "create" THEN Answer(creates, "create", c2) ELSE creates
    PROVE  /\ \E p \in 0..Len(queue') : Aligned(p)'
           /\ load'.state = "pending" => /\ load.state = "pending"
                                         /\ \A k \in 1..Len(logins) : logins'[k] = logins[k]
           /\ \E n \in 0..Len(creates) :
                 /\ \A k \in 1..Len(creates) : k # n => creates'[k] = creates[k]
                 /\ n # 0 => /\ Head(queue).kind = "create" /\ load.state # "pending"
                             /\ n \in Pending(creates) /\ creates[n].name = Head(queue).name
                             /\ creates'[n] = Answered(creates[n], c2)
                 /\ load.state # "pending" /\ Head(queue).kind = "create" => n # 0
<1>1. PICK p \in 0..Len(queue) : Aligned(p)
  BY DEF IInv
<1>2. queue \in Seq(Job) /\ logins \in Seq(LoginResult) /\ creates \in Seq(CreateResult)
  BY DEF IInv, TypeOK, LoginResult, CreateResult
<1>3. Mark(p) /\ (p # 0 <=> load.state = "pending") /\ (p # 0 => queue[p].kind = "load")
  BY <1>1 DEF Aligned, Mark
<1>4. /\ Len(queue) \in Nat /\ Len(queue) >= 1 /\ Head(queue) = queue[1]
      /\ Len(queue') = Len(queue) - 1 /\ \A k \in 1..(Len(queue) - 1) : queue'[k] = queue[k + 1]
  BY <1>2, LenProperties, EmptySeq, HeadTailProperties
<1> DEFINE o == IF p = 0 THEN 0 ELSE p - 1
<1>5. Mark(o)' /\ o \in 0..Len(queue')
  BY ONLY <1>2, <1>3, queue # << >>, queue' = Tail(queue), TailKeepsMark,
          load' = IF Head(queue).kind = "load" THEN LoadDone(data) ELSE load
<1>6. PICK f : Matched(logins, Jobs(queue, "login", p), f)
  BY <1>1 DEF Aligned
<1>7. PICK g : /\ Matched(creates, Jobs(queue, "create", p), g)
               /\ \A k \in Pending(creates) : queue[g[k]].name = creates[k].name
  BY <1>1 DEF Aligned
<1>8. /\ \A k \in 1..Len(logins) :
            \/ logins'[k] = logins[k]
            \/ p = 0
      /\ \E h : Matched(logins', Jobs(queue', "login", o), h)
  <2>1. p # 0 => queue[p].kind # "login"
    BY <1>3
  <2>2. Matched(logins, Jobs(queue, "login", p), f)
    BY <1>6
  <2>3. FirstAnswered(logins, logins', "login", p, f, c1)
    BY ONLY <1>2, <2>1, <2>2, AnswerMatched, p \in 0..Len(queue), queue # << >>,
            \A r \in LoginResult : Answered(r, c1).state # "pending",
            logins' = IF Head(queue).kind = "login" THEN Answer(logins, "login", c1) ELSE logins
  <2> QED
    BY <2>3 DEF FirstAnswered
<1>9. /\ \A k \in 1..Len(creates) :
            \/ creates'[k] = creates[k]
            \/ /\ p = 0 /\ Head(queue).kind = "create"
               /\ k \in Pending(creates) /\ g[k] = 1
               /\ creates'[k] = Answered(creates[k], c2)
      /\ p = 0 /\ Head(queue).kind = "create" =>
            \E k \in Pending(creates) : g[k] = 1 /\ creates'[k] = Answered(creates[k], c2)
      /\ \E h : /\ Matched(creates', Jobs(queue', "create", o), h)
                /\ \A k \in Pending(creates') : k \in Pending(creates) /\ h[k] = g[k] - 1
  <2>1. p # 0 => queue[p].kind # "create"
    BY <1>3
  <2>2. Matched(creates, Jobs(queue, "create", p), g)
    BY <1>7
  <2>3. FirstAnswered(creates, creates', "create", p, g, c2)
    BY ONLY <1>2, <2>1, <2>2, AnswerMatched, p \in 0..Len(queue), queue # << >>,
            \A r \in CreateResult : Answered(r, c2).state # "pending",
            creates' = IF Head(queue).kind = "create" THEN Answer(creates, "create", c2) ELSE creates
  <2> QED
    BY <2>3 DEF FirstAnswered
<1>10. \A k \in Pending(creates) : g[k] \in 1..Len(queue)
  <2>1. Jobs(queue, "create", p) \subseteq 1..Len(queue)
    BY <1>2, JobsFinite
  <2> QED
    BY <1>7, <2>1 DEF Matched
<1>11. \E p1 \in 0..Len(queue') : Aligned(p1)'
  <2>1. PICK h : /\ Matched(creates', Jobs(queue', "create", o), h)
                 /\ \A k \in Pending(creates') : k \in Pending(creates) /\ h[k] = g[k] - 1
    BY <1>9
  <2>2. ASSUME NEW k \in Pending(creates')
        PROVE  queue'[h[k]].name = creates'[k].name
    <3>1. k \in Pending(creates) /\ h[k] = g[k] - 1 /\ g[k] \in 1..Len(queue) /\ k \in 1..Len(creates)
      BY <1>10, <2>1 DEF Pending
    <3>2. creates'[k] = creates[k]
      <4>1. creates'[k].state = "pending"
        BY DEF Pending
      <4>2. creates[k] \in CreateResult
        BY <1>2, <3>1, ElementOfSeq
      <4> QED
        BY <1>9, <3>1, <4>1, <4>2
    <3>3. h[k] \in 1..(Len(queue) - 1) /\ h[k] + 1 = g[k]
      <4>1. h[k] \in Jobs(queue', "create", o)
        BY <2>1 DEF Matched
      <4>2. h[k] \in 1..Len(queue')
        BY <1>4, <1>5, <4>1 DEF Jobs
      <4> QED
        BY <1>4, <3>1, <4>2
    <3> QED
      BY <1>4, <1>7, <3>1, <3>2, <3>3
  <2>3. PICK e : Matched(logins', Jobs(queue', "login", o), e)
    BY <1>8
  <2>4. e \in [Pending(logins') -> Jobs(queue', "login", o)] /\ h \in [Pending(creates') -> Jobs(queue', "create", o)]
    BY <2>1, <2>3, Zenon DEF Matched
  <2>5. \A k \in Pending(creates') : queue'[h[k]].name = creates'[k].name
    BY <2>2
  <2> HIDE DEF o
  <2>6. Aligned(o)'
    BY <1>5, <2>1, <2>3, <2>4, <2>5, Zenon DEF Aligned
  <2> QED
    BY <1>5, <2>6
<1>12. load'.state = "pending" => load.state = "pending" /\ \A k \in 1..Len(logins) : logins'[k] = logins[k]
  <2>1. load'.state = "pending" => load.state = "pending"
    BY DEF LoadDone
  <2> QED
    BY <1>3, <1>8, <2>1
<1>13. \A j, k \in Pending(creates) : g[j] = 1 /\ g[k] = 1 => j = k
  <2>1. ASSUME NEW j \in Pending(creates), NEW k \in Pending(creates), g[j] = 1, g[k] = 1, j # k
        PROVE  FALSE
    <3>1. j \in Nat /\ k \in Nat
      BY <1>2, LenProperties DEF Pending
    <3>2. j < k \/ k < j
      BY <3>1, <2>1
    <3> QED
      BY <1>7, <2>1, <3>2 DEF Matched
  <2> QED
    BY <2>1
<1>14. \E n \in 0..Len(creates) :
                 /\ \A k \in 1..Len(creates) : k # n => creates'[k] = creates[k]
                 /\ n # 0 => /\ Head(queue).kind = "create" /\ load.state # "pending"
                             /\ n \in Pending(creates) /\ creates[n].name = Head(queue).name
                             /\ creates'[n] = Answered(creates[n], c2)
                 /\ load.state # "pending" /\ Head(queue).kind = "create" => n # 0
  <2>1. CASE p = 0 /\ Head(queue).kind = "create"
    <3>1. PICK n \in Pending(creates) : g[n] = 1 /\ creates'[n] = Answered(creates[n], c2)
      BY <1>9, <2>1
    <3>2. n \in 1..Len(creates) /\ n # 0 /\ Len(creates) \in Nat
      BY <1>2, LenProperties DEF Pending
    <3>3. creates[n].name = Head(queue).name
      BY <1>4, <1>7, <3>1
    <3>4. \A k \in 1..Len(creates) : k # n => creates'[k] = creates[k]
      BY <1>9, <1>13, <3>1
    <3>5. n \in 0..Len(creates)
      BY <3>2
    <3> QED
      BY <1>3, <2>1, <3>1, <3>2, <3>3, <3>4, <3>5
  <2>2. CASE ~(p = 0 /\ Head(queue).kind = "create")
    <3>1. \A k \in 1..Len(creates) : creates'[k] = creates[k]
      BY <1>9, <2>2
    <3>2. 0 \in 0..Len(creates)
      BY <1>2, LenProperties
    <3> QED
      BY <1>3, <2>2, <3>1, <3>2
  <2> QED
    BY <2>1, <2>2
<1> QED
  BY <1>11, <1>12, <1>14

\* The end of a job: rows are only added, and keep their names.
RowsGrow ==
    /\ clans' \in Seq(Clan) /\ Len(clans) <= Len(clans') /\ Len(clans') <= MaxClans
    /\ \A i \in 1..Len(clans') : clans'[i].id = i
    /\ \A i \in 1..Len(clans) : clans'[i].name = clans[i].name
    /\ UniqueClanNames'
    /\ userClan' \in [AccountId -> Number] /\ userLang' \in [AccountId -> Number]
    /\ strays \subseteq strays' /\ strays' \subseteq Account
    /\ \A i \in AccountId : Sane(i, userClan[i])'

LoadEnds(data) ==
    /\ data \in Seq(Clan) /\ Len(data) <= Len(clans')
    /\ \A k \in 1..Len(data) : data[k].id = k /\ data[k].name = clans'[k].name
    /\ faults' = 0 /\ Head(queue).kind = "load" => Len(data) = Len(clans')
    /\ load' = IF Head(queue).kind = "load" THEN LoadDone(data) ELSE load

LoginEnds(change) ==
    /\ \A r \in LoginResult :
          /\ Answered(r, change) \in LoginResult /\ Answered(r, change).state # "pending"
          /\ \/ Answered(r, change).clan = r.clan /\ Answered(r, change).id = r.id
             \/ Answered(r, change).id \notin strays' => Answered(r, change).clan \in 0..Len(clans')
    /\ logins' = IF Head(queue).kind = "login" THEN Answer(logins, "login", change) ELSE logins

\* Whoever is told that his clan has been created is told its new row, and
\* without a fault he is told.
CreateEnds(change) ==
    /\ \A r \in CreateResult :
          /\ Answered(r, change) \in CreateResult /\ Answered(r, change).state # "pending"
          /\ Answered(r, change).name = r.name
          /\ Head(queue).kind = "create" /\ Answered(r, change).state = "successful" =>
                /\ Answered(r, change).clan \in (Len(clans) + 1)..Len(clans')
                /\ clans'[Answered(r, change).clan].name = Head(queue).name
    /\ faults' = 0 /\ Len(clans') # Len(clans) =>
          /\ Len(clans') = Len(clans) + 1 /\ Head(queue).kind = "create"
          /\ \A r \in CreateResult : Answered(r, change).state = "successful"
    /\ creates' = IF Head(queue).kind = "create" THEN Answer(creates, "create", change) ELSE creates

CountEnds ==
    /\ counts' \in Seq(CountResult) /\ Len(counts') = Len(counts)
    /\ \A k \in 1..Len(counts) : counts'[k].clan = counts[k].clan

LEMMA JobKeepsIInv ==
    ASSUME IInv, ~shutdown, queue # << >>, queue' = Tail(queue), UNCHANGED <<players, cache, shutdown>>,
           faults' \in 0..MaxFaults, faults' = 0 => faults = 0,
           RowsGrow, NEW data, LoadEnds(data), NEW c1, LoginEnds(c1), NEW c2, CreateEnds(c2), CountEnds
    PROVE  IInv'
<1> USE DEF IInv
<1>0. players' = players /\ cache' = cache /\ shutdown' = shutdown
  OBVIOUS
<1>1. /\ queue \in Seq(Job) /\ logins \in Seq(LoginResult) /\ creates \in Seq(CreateResult)
      /\ counts \in Seq(CountResult) /\ clans \in Seq(Clan) /\ cache \in Seq(Clan) /\ Len(queue) <= MaxJobs
      /\ load \in [state : {"none", "pending", "done"}, data : Seq(Clan)] /\ MaxClans \in Nat /\ MaxJobs \in Nat
      /\ players \in [Slot -> Player]
  BY ClansAssumption DEF TypeOK, LoginResult, CreateResult, CountResult
<1>2. /\ Len(clans) \in Nat /\ Len(clans') \in Nat /\ Len(clans) <= Len(clans')
      /\ \A i \in 1..Len(clans) : clans'[i].name = clans[i].name
  BY <1>1, LenProperties DEF RowsGrow
<1>3. queue' \in Seq(Job) /\ Len(queue') <= MaxJobs
  <2>1. Len(queue) \in Nat /\ Len(queue') = Len(queue) - 1 /\ queue' \in Seq(Job)
    BY <1>1, LenProperties, EmptySeq, HeadTailProperties
  <2> QED
    BY <1>1, <2>1
<1>4. /\ logins' \in Seq(LoginResult) /\ Len(logins') = Len(logins)
      /\ \A k \in 1..Len(logins) : logins'[k] \in {logins[k], Answered(logins[k], c1)}
  <2>1. CASE Head(queue).kind = "login"
    BY <1>1, <2>1, AnswerProps DEF LoginEnds
  <2>2. CASE Head(queue).kind # "login"
    BY <1>1, <2>2 DEF LoginEnds
  <2> QED
    BY <2>1, <2>2
<1>5. creates' \in Seq(CreateResult) /\ Len(creates') = Len(creates)
  <2>1. CASE Head(queue).kind = "create"
    BY <1>1, <2>1, AnswerProps DEF CreateEnds
  <2>2. CASE Head(queue).kind # "create"
    BY <1>1, <2>2 DEF CreateEnds
  <2> QED
    BY <2>1, <2>2
<1>6. /\ \E p \in 0..Len(queue') : Aligned(p)'
      /\ load'.state = "pending" => load.state = "pending" /\ \A k \in 1..Len(logins) : logins'[k] = logins[k]
      /\ \E n \in 0..Len(creates) :
            /\ \A k \in 1..Len(creates) : k # n => creates'[k] = creates[k]
            /\ n # 0 => /\ Head(queue).kind = "create" /\ load.state # "pending"
                        /\ n \in Pending(creates) /\ creates[n].name = Head(queue).name
                        /\ creates'[n] = Answered(creates[n], c2)
            /\ load.state # "pending" /\ Head(queue).kind = "create" => n # 0
  <2>1. (\A r \in LoginResult : Answered(r, c1).state # "pending")
        /\ (\A r \in CreateResult : Answered(r, c2).state # "pending")
    BY DEF LoginEnds, CreateEnds
  <2>2. /\ load' = IF Head(queue).kind = "load" THEN LoadDone(data) ELSE load
        /\ logins' = IF Head(queue).kind = "login" THEN Answer(logins, "login", c1) ELSE logins
        /\ creates' = IF Head(queue).kind = "create" THEN Answer(creates, "create", c2) ELSE creates
    BY DEF LoadEnds, LoginEnds, CreateEnds
  <2> QED
    BY ONLY <2>1, <2>2, IInv, ~shutdown, queue # << >>, queue' = Tail(queue), JobMatched
<1>7. PICK n \in 0..Len(creates) :
            /\ \A k \in 1..Len(creates) : k # n => creates'[k] = creates[k]
            /\ n # 0 => /\ Head(queue).kind = "create" /\ load.state # "pending"
                        /\ n \in Pending(creates) /\ creates[n].name = Head(queue).name
                        /\ creates'[n] = Answered(creates[n], c2)
            /\ load.state # "pending" /\ Head(queue).kind = "create" => n # 0
  BY <1>6
<1>8. load' \in {load, [state |-> "done", data |-> data]} /\ (load' # load => load.state = "pending" /\ Head(queue).kind = "load")
  BY DEF LoadEnds, LoadDone
<1>9. n # 0 => n \in 1..Len(creates) /\ creates[n] \in CreateResult /\ creates[n].state = "pending" /\ load.state = "none"
  <2>1. SUFFICES ASSUME n # 0 PROVE n \in 1..Len(creates) /\ creates[n] \in CreateResult /\ creates[n].state = "pending" /\ load.state = "none"
    OBVIOUS
  <2>2. n \in 1..Len(creates) /\ creates[n].state = "pending"
    BY <1>7, <2>1 DEF Pending
  <2>3. creates # << >>
    BY <2>2
  <2> QED
    BY <1>1, <2>2, <2>3, ElementOfSeq DEF ListFirst
<1>10. TypeOK'
  <2>1. load' \in [state : {"none", "pending", "done"}, data : Seq(Clan)]
    BY <1>1, <1>8 DEF LoadEnds
  <2>2. userClan' \in [AccountId -> Number] /\ userLang' \in [AccountId -> Number] /\ strays' \subseteq Account
    BY DEF RowsGrow
  <2>3. shutdown' \in BOOLEAN
    BY <1>0 DEF TypeOK
  <2>4. clans' \in Seq(Clan) /\ Len(clans') <= MaxClans /\ counts' \in Seq(CountResult)
    BY DEF RowsGrow, CountEnds
  <2> QED
    BY <1>0, <1>1, <1>3, <1>4, <1>5, <2>1, <2>2, <2>3, <2>4, Zenon DEF TypeOK, LoginResult, CreateResult, CountResult
<1>11. Rows'
  <2>5. 0..Len(clans) \subseteq 0..Len(clans') /\ strays \subseteq strays'
    BY <1>2 DEF RowsGrow
  <2>1. \A s \in Slot : /\ players'[s].id \notin strays' => players'[s].clan \in 0..Len(clans')
                       /\ players'[s].invite \in 0..Len(clans')
    BY <1>0, <2>5 DEF Rows, Sane
  <2>2. \A k \in 1..Len(logins') : logins'[k].id \notin strays' => logins'[k].clan \in 0..Len(clans')
    <3>1. ASSUME NEW k \in 1..Len(logins'), logins'[k].id \notin strays' PROVE logins'[k].clan \in 0..Len(clans')
      <4>1. logins[k] \in LoginResult /\ (logins[k].id \notin strays => logins[k].clan \in 0..Len(clans))
        BY <1>1, <1>4, ElementOfSeq DEF Rows, Sane
      <4>2. \/ Answered(logins[k], c1).clan = logins[k].clan /\ Answered(logins[k], c1).id = logins[k].id
            \/ Answered(logins[k], c1).id \notin strays' => Answered(logins[k], c1).clan \in 0..Len(clans')
        BY <4>1 DEF LoginEnds
      <4>3. logins'[k] \in {logins[k], Answered(logins[k], c1)}
        BY <1>4
      <4> QED
        BY <2>5, <3>1, <4>1, <4>2, <4>3
    <3> QED
      BY <3>1
  <2>3. \A k \in 1..Len(counts') : counts'[k].clan \in 0..Len(clans')
    BY <1>2 DEF Rows, CountEnds
  <2>4. /\ \A i \in AccountId : i \notin strays' => userClan'[i] \in 0..Len(clans')
        /\ \A i \in 1..Len(clans') : clans'[i].id = i
    BY DEF RowsGrow, Sane
  <2> QED
    BY <2>1, <2>2, <2>3, <2>4, Zenon DEF Rows, Sane
<1>19. UniqueClanNames'
  BY DEF RowsGrow
<1>12. ListOfRows'
  <2>1. CASE load' = load
    <3>1. /\ Len(load.data) <= Len(clans') /\ (load.state # "done" => load.data = << >>)
          /\ \A k \in 1..Len(load.data) : load.data[k].id = k /\ load.data[k].name = clans'[k].name
      <4>1. Len(load.data) \in Nat
        BY <1>1, LenProperties DEF TypeOK
      <4>2. /\ Len(load.data) <= Len(clans) /\ (load.state # "done" => load.data = << >>)
            /\ \A k \in 1..Len(load.data) : load.data[k].id = k /\ load.data[k].name = clans[k].name
        BY Zenon DEF ListOfRows
      <4>3. \A k \in 1..Len(load.data) : k \in 1..Len(clans)
        BY <1>2, <4>1, <4>2
      <4> QED
        BY ONLY <1>2, <4>1, <4>2, <4>3
    <3> QED
      BY <2>1, <3>1, Zenon DEF ListOfRows
  <2>2. CASE load' = [state |-> "done", data |-> data]
    <3>1. load'.state = "done" /\ load'.data = data
      BY <2>2
    <3>2. Len(data) <= Len(clans') /\ \A k \in 1..Len(data) : data[k].id = k /\ data[k].name = clans'[k].name
      BY DEF LoadEnds
    <3> QED
      BY <3>1, <3>2, Zenon DEF ListOfRows
  <2> QED
    BY <1>8, <2>1, <2>2
<1>13. \A k \in Created' : \/ k \in Created /\ k # n /\ creates'[k] = creates[k]
                          \/ /\ k = n /\ n # 0
                             /\ creates'[k].clan \in (Len(clans) + 1)..Len(clans')
                             /\ clans'[creates'[k].clan].name = creates'[k].name
  <2>1. ASSUME NEW k \in Created'
        PROVE  \/ k \in Created /\ k # n /\ creates'[k] = creates[k]
               \/ /\ k = n /\ n # 0
                  /\ creates'[k].clan \in (Len(clans) + 1)..Len(clans')
                  /\ clans'[creates'[k].clan].name = creates'[k].name
    <3>1. k \in 1..Len(creates) /\ creates'[k].state = "successful"
      BY <1>5 DEF Created
    <3>2. CASE k # n
      BY <1>7, <3>1, <3>2 DEF Created
    <3>3. CASE k = n
      <4>1. n # 0
        BY <3>1, <3>3
      <4>2. creates'[n] = Answered(creates[n], c2) /\ Head(queue).kind = "create" /\ creates[n].name = Head(queue).name
        BY <1>7, <4>1
      <4> QED
        BY <1>9, <3>1, <3>3, <4>1, <4>2 DEF CreateEnds
    <3> QED
      BY <3>2, <3>3
  <2> QED
    BY <2>1
<1>14. CreatedOnce'
  <2>1. \A k \in Created' : creates'[k].clan \in 1..Len(clans') /\ clans'[creates'[k].clan].name = creates'[k].name
    <3>1. \A k \in Created : creates[k].clan \in 1..Len(clans) /\ clans[creates[k].clan].name = creates[k].name
      BY DEF CreatedOnce
    <3>2. ASSUME NEW k \in Created'
          PROVE  creates'[k].clan \in 1..Len(clans') /\ clans'[creates'[k].clan].name = creates'[k].name
      <4>1. CASE k \in Created /\ creates'[k] = creates[k]
        BY <1>2, <3>1, <4>1
      <4>2. CASE ~(k \in Created /\ creates'[k] = creates[k])
        BY <1>2, <1>13, <4>2
      <4> QED
        BY <4>1, <4>2
    <3> QED
      BY <3>2
  <2>2. \A j, k \in Created' : creates'[j].clan = creates'[k].clan => j = k
    <3>1. \A k \in Created : creates[k].clan \in 1..Len(clans)
      BY DEF CreatedOnce
    <3>2. \A j, k \in Created : creates[j].clan = creates[k].clan => j = k
      BY DEF CreatedOnce
    <3> QED
      BY <1>2, <1>13, <3>1, <3>2
  <2>3. \A j \in 1..Len(cache), k \in Created' : cache[j].id # creates'[k].clan
    <3>1. \A j \in 1..Len(cache) : cache[j].id \in 1..Len(clans)
      BY DEF CacheAgrees
    <3>2. \A j \in 1..Len(cache), k \in Created : cache[j].id # creates[k].clan
      BY DEF CreatedOnce
    <3> QED
      BY <1>2, <1>13, <3>1, <3>2
  <2> QED
    BY <1>0, <2>1, <2>2, <2>3, Zenon DEF CreatedOnce
<1>15. CacheAgrees'
  <2>1. \A j, k \in 1..Len(cache) : cache[j].id = cache[k].id => j = k
    BY DEF CacheAgrees
  <2>2. ASSUME NEW k \in 1..Len(cache)
        PROVE  cache[k].id \in 1..Len(clans') /\ clans'[cache[k].id].name = cache[k].name
    <3>1. cache[k].id \in 1..Len(clans) /\ clans[cache[k].id].name = cache[k].name
      BY DEF CacheAgrees
    <3> QED
      BY <1>2, <3>1
  <2> QED
    BY <1>0, <2>1, <2>2 DEF CacheAgrees
<1>16. ListFirst'
  <2>1. load'.state = "none" <=> load.state = "none"
    BY <1>8
  <2>2. creates' # << >> \/ counts' # << >> => load'.state = "none"
    <3>1. (creates' # << >> => creates # << >>) /\ (counts' # << >> => counts # << >>)
      BY <1>1, <1>5, EmptySeq DEF CountEnds
    <3> QED
      BY <2>1, <3>1 DEF ListFirst
  <2>3. load'.state = "pending" => \A k \in 1..Len(logins') : logins'[k].state # "successful"
    BY <1>4, <1>6 DEF ListFirst
  <2>4. \A s \in Slot : players'[s].loggedIn \/ players'[s].clan # 0 \/ players'[s].invite # 0 => load'.state = "none"
    BY <1>0, <2>1 DEF ListFirst
  <2>5. load'.state # "none" => cache' = << >>
    BY <1>0, <2>1 DEF ListFirst
  <2> QED
    BY <2>2, <2>3, <2>4, <2>5, Zenon DEF ListFirst
<1>17. Closed'
  BY <1>0 DEF Closed
<1>18. AllKnown'
  <2>1. SUFFICES ASSUME faults' = 0
                 PROVE  /\ load'.state = "none" => \A i \in 1..Len(clans') : Known(i)'
                        /\ load'.state = "done" => Len(load'.data) = Len(clans')
    BY DEF AllKnown
  <2>2. ASSUME load.state = "none", NEW i \in 1..Len(clans'), i <= Len(clans) PROVE Known(i)'
    <3>1. Known(i)
      BY <1>2, <2>1, <2>2 DEF AllKnown
    <3>2. CASE GetClan(cache, i) # 0
      BY <1>0, <3>2 DEF Known
    <3>3. CASE \E k \in 1..Len(creates) : creates[k].state = "successful" /\ creates[k].clan = i
      <4>1. PICK k \in 1..Len(creates) : creates[k].state = "successful" /\ creates[k].clan = i
        BY <3>3
      <4>2. creates'[k] = creates[k]
        BY <1>7, <1>9, <4>1
      <4> QED
        BY <1>5, <4>1, <4>2 DEF Known
    <3> QED
      BY <3>1, <3>2, <3>3 DEF Known
  <2>3. ASSUME load.state = "none", NEW i \in 1..Len(clans'), ~(i <= Len(clans)) PROVE Known(i)'
    <3>1. /\ Len(clans') = Len(clans) + 1 /\ Head(queue).kind = "create"
          /\ \A r \in CreateResult : Answered(r, c2).state = "successful"
      BY <1>2, <2>1, <2>3 DEF CreateEnds
    <3>2. n # 0
      BY <1>7, <2>3, <3>1
    <3>3. creates'[n] = Answered(creates[n], c2) /\ creates[n] \in CreateResult /\ n \in 1..Len(creates)
      BY <1>7, <1>9, <3>2
    <3>4. creates'[n].state = "successful" /\ creates'[n].clan = i
      BY <1>2, <2>3, <3>1, <3>3 DEF CreateEnds
    <3> QED
      BY <1>5, <3>3, <3>4 DEF Known
  <2>4. ASSUME load'.state = "done" PROVE Len(load'.data) = Len(clans')
    <3>1. CASE load' = load
      <4>1. Len(load.data) = Len(clans)
        BY <2>1, <2>4, <3>1 DEF AllKnown
      <4>2. Len(clans') = Len(clans)
        <5>1. SUFFICES ASSUME Len(clans') # Len(clans) PROVE FALSE
          OBVIOUS
        <5>2. Head(queue).kind = "create"
          BY <2>1, <5>1 DEF CreateEnds
        <5>3. n # 0
          BY <1>7, <2>4, <3>1, <5>2
        <5> QED
          BY <1>9, <2>4, <3>1, <5>3
      <4> QED
        BY <3>1, <4>1, <4>2
    <3>2. CASE load' # load
      BY <1>8, <2>1, <3>2 DEF LoadEnds
    <3> QED
      BY <3>1, <3>2
  <2>5. load'.state = "none" => load.state = "none"
    BY <1>8
  <2> QED
    BY <2>2, <2>3, <2>4, <2>5
<1> QED
  BY <1>6, <1>10, <1>11, <1>12, <1>14, <1>15, <1>16, <1>17, <1>18, <1>19
-----------------------------------------------------------------------------
LEMMA JobFields ==
    \A job \in Job :
        /\ job.kind = "login" => job.id \in Account
        /\ job.kind = "create" => job.name \in ClanName /\ job.leader \in AccountId
        /\ job.kind = "save" => job.data \in Seq(Clan)
        /\ job.kind = "account" => job.id \in AccountId /\ job.clan \in Number /\ job.row \in Account
BY DEF Job

\* The parts of a job's end that a job leaves alone.
LEMMA NothingEnds ==
    /\ IInv /\ UNCHANGED tables => RowsGrow /\ Len(clans') = Len(clans)
    /\ Head(queue).kind # "load" /\ load' = load /\ clans' \in Seq(Clan) => LoadEnds(<< >>)
    /\ Head(queue).kind # "login" /\ logins' = logins => LoginEnds(Failed)
    /\ Head(queue).kind # "create" /\ creates' = creates /\ Len(clans') = Len(clans) => CreateEnds(Failed)
    /\ IInv /\ counts' = counts => CountEnds
<1>1. IInv /\ UNCHANGED tables => RowsGrow /\ Len(clans') = Len(clans)
  <2>1. SUFFICES ASSUME IInv, UNCHANGED tables PROVE RowsGrow /\ Len(clans') = Len(clans)
    OBVIOUS
  <2>2. clans' = clans /\ userClan' = userClan /\ userLang' = userLang /\ strays' = strays
    BY <2>1 DEF tables
  <2>3. /\ clans \in Seq(Clan) /\ Len(clans) <= MaxClans /\ Len(clans) \in Nat
        /\ userClan \in [AccountId -> Number] /\ userLang \in [AccountId -> Number] /\ strays \subseteq Account
    BY <2>1, LenProperties DEF IInv, TypeOK
  <2>4. UniqueClanNames'
    BY <2>1, <2>2, Zenon DEF IInv, UniqueClanNames
  <2>5. (\A i \in AccountId : Sane(i, userClan[i])) /\ \A i \in 1..Len(clans) : clans[i].id = i
    BY <2>1 DEF IInv, Rows
  <2>6. \A i \in AccountId : Sane(i, userClan[i])'
    BY <2>2, <2>5 DEF Sane
  <2> QED
    BY <2>2, <2>3, <2>4, <2>5, <2>6 DEF RowsGrow
<1>2. Head(queue).kind # "load" /\ load' = load /\ clans' \in Seq(Clan) => LoadEnds(<< >>)
  <2>1. << >> \in Seq(Clan) /\ Len(<< >>) = 0
    OBVIOUS
  <2>2. clans' \in Seq(Clan) => Len(clans') \in Nat
    BY LenProperties
  <2> QED
    BY <2>1, <2>2 DEF LoadEnds
<1>3. Head(queue).kind # "login" /\ logins' = logins => LoginEnds(Failed)
  BY AnsweredProps DEF LoginEnds
<1>4. Head(queue).kind # "create" /\ creates' = creates /\ Len(clans') = Len(clans) => CreateEnds(Failed)
  BY AnsweredProps DEF CreateEnds
<1>5. IInv /\ counts' = counts => CountEnds
  BY DEF IInv, TypeOK, CountResult, CountEnds
<1> QED
  BY <1>1, <1>2, <1>3, <1>4, <1>5

LEMMA FinishProps ==
    ASSUME IInv, NEW whole \in BOOLEAN, Finish(whole)
    PROVE  /\ queue' = Tail(queue) /\ UNCHANGED <<players, cache, shutdown>>
           /\ faults' \in 0..MaxFaults /\ (faults' = 0 => faults = 0 /\ whole)
<1>1. faults \in 0..MaxFaults /\ MaxFaults \in Nat
  BY ClansAssumption DEF IInv, TypeOK
<1>2. faults' = (IF whole THEN faults ELSE faults + 1) /\ (whole \/ faults < MaxFaults)
  BY DEF Finish
<1>3. faults' \in 0..MaxFaults /\ (faults' = 0 => faults = 0 /\ whole)
  BY <1>1, <1>2
<1> QED
  BY <1>3 DEF Finish

LEMMA CountAnswered ==
    ASSUME IInv, NEW change, \A r \in CountResult : Answered(r, change) \in CountResult /\ Answered(r, change).clan = r.clan,
           counts' \in {counts, Answer(counts, "count", change)}
    PROVE  CountEnds
<1>1. counts \in Seq(CountResult)
  BY DEF IInv, TypeOK, CountResult
<1>2. CASE counts' = counts
  BY <1>1, <1>2 DEF CountEnds
<1>3. CASE counts' = Answer(counts, "count", change)
  <2>1. /\ counts' \in Seq(CountResult) /\ Len(counts') = Len(counts)
        /\ \A k \in 1..Len(counts) : counts'[k] \in {counts[k], Answered(counts[k], change)}
    BY <1>1, <1>3, AnswerProps
  <2>2. \A k \in 1..Len(counts) : counts[k] \in CountResult
    BY <1>1, ElementOfSeq
  <2> QED
    BY <2>1, <2>2 DEF CountEnds
<1> QED
  BY <1>2, <1>3

\* Jobs that are dismissed, or fail at once, while the server runs.
LEMMA FailKeepsIInv ==
    ASSUME IInv, ~shutdown, Fail
    PROVE  IInv'
<1>1. /\ queue # << >> /\ Finish(shutdown) /\ UNCHANGED tables
      /\ logins' = IF Head(queue).kind = "login" THEN Answer(logins, "login", Failed) ELSE logins
      /\ creates' = IF Head(queue).kind = "create" THEN Answer(creates, "create", Failed) ELSE creates
      /\ counts' \in {counts, Answer(counts, "count", Failed)}
      /\ load' = IF Head(queue).kind = "load" THEN LoadDone(<< >>) ELSE load
  BY DEF Fail
<1>2. /\ queue' = Tail(queue) /\ UNCHANGED <<players, cache, shutdown>>
      /\ faults' \in 0..MaxFaults /\ faults' # 0
  <2>1. shutdown \in BOOLEAN
    BY DEF IInv, TypeOK
  <2> QED
    BY <1>1, <2>1, FinishProps
<1>3. RowsGrow /\ Len(clans') = Len(clans)
  BY <1>1, NothingEnds
<1>4. LoadEnds(<< >>)
  <2>1. Len(clans') \in Nat
    BY <1>3, LenProperties DEF RowsGrow
  <2> QED
    BY <1>1, <1>2, <2>1 DEF LoadEnds
<1>5. LoginEnds(Failed)
  BY <1>1, AnsweredProps DEF LoginEnds
<1>6. CreateEnds(Failed)
  BY <1>1, <1>3, AnsweredProps DEF CreateEnds
<1>7. CountEnds
  BY <1>1, AnsweredProps, CountAnswered
<1> QED
  BY <1>1, <1>2, <1>3, <1>4, <1>5, <1>6, <1>7, JobKeepsIInv

\* The server is shutting down: nobody waits for an answer.
LEMMA DismissKeepsIInv ==
    ASSUME IInv, shutdown, Fail
    PROVE  IInv'
<1> USE DEF IInv
<1>1. /\ cache = << >> /\ load.state = "none" /\ logins = << >> /\ creates = << >> /\ counts = << >>
      /\ \A s \in Slot : ~players[s].here
  BY DEF Closed
<1>2. /\ queue # << >> /\ Finish(shutdown) /\ clans' = clans /\ userClan' = userClan
      /\ userLang' = userLang /\ strays' = strays
      /\ logins' \in {logins, Answer(logins, "login", Failed)}
      /\ creates' \in {creates, Answer(creates, "create", Failed)}
      /\ counts' \in {counts, Answer(counts, "count", Failed)}
      /\ load' \in {load, LoadDone(<< >>)}
  BY DEF Fail, tables
<1>3. /\ queue' = Tail(queue) /\ players' = players /\ cache' = cache /\ shutdown' = shutdown
      /\ faults' \in 0..MaxFaults
  BY <1>2, FinishProps
<1>4. logins' = logins /\ creates' = creates /\ counts' = counts /\ load' = load
  <2>1. /\ logins \in Seq(LoginResult) /\ creates \in Seq(CreateResult) /\ counts \in Seq(CountResult)
    BY DEF TypeOK, LoginResult, CreateResult, CountResult
  <2>3. Answer(logins, "login", Failed) = << >>
    <3>1. \A r \in LoginResult : Answered(r, Failed) \in LoginResult
      BY AnsweredProps
    <3>2. Answer(logins, "login", Failed) \in Seq(LoginResult) /\ Len(Answer(logins, "login", Failed)) = Len(logins)
      BY ONLY <2>1, <3>1, AnswerProps
    <3> QED
      BY <1>1, <3>2, EmptySeq
  <2>4. Answer(creates, "create", Failed) = << >>
    <3>1. \A r \in CreateResult : Answered(r, Failed) \in CreateResult
      BY AnsweredProps
    <3>2. Answer(creates, "create", Failed) \in Seq(CreateResult) /\ Len(Answer(creates, "create", Failed)) = Len(creates)
      BY ONLY <2>1, <3>1, AnswerProps
    <3> QED
      BY <1>1, <3>2, EmptySeq
  <2>5. Answer(counts, "count", Failed) = << >>
    <3>1. \A r \in CountResult : Answered(r, Failed) \in CountResult
      BY AnsweredProps
    <3>2. Answer(counts, "count", Failed) \in Seq(CountResult) /\ Len(Answer(counts, "count", Failed)) = Len(counts)
      BY ONLY <2>1, <3>1, AnswerProps
    <3> QED
      BY <1>1, <3>2, EmptySeq
  <2>2. load' = load
    BY <1>1, <1>2 DEF LoadDone
  <2> QED
    BY <1>1, <1>2, <2>2, <2>3, <2>4, <2>5
<1>5. queue' \in Seq(Job) /\ Len(queue') <= MaxJobs
  <2>1. queue \in Seq(Job) /\ Len(queue) <= MaxJobs /\ MaxJobs \in Nat
    BY ClansAssumption DEF TypeOK
  <2>2. Len(queue) \in Nat /\ Len(queue') = Len(queue) - 1 /\ queue' \in Seq(Job)
    BY <1>2, <1>3, <2>1, LenProperties, EmptySeq, HeadTailProperties
  <2> QED
    BY <2>1, <2>2
<1>6. TypeOK'
  BY <1>2, <1>3, <1>4, <1>5, Zenon DEF TypeOK
<1>7. Rows' /\ UniqueClanNames' /\ ListOfRows' /\ CacheAgrees'
  <2>1. Rows'
    BY <1>2, <1>3, <1>4, Zenon DEF Rows, Sane
  <2>2. UniqueClanNames'
    BY <1>2, Zenon DEF UniqueClanNames
  <2>3. ListOfRows'
    BY <1>2, <1>4, Zenon DEF ListOfRows
  <2>4. CacheAgrees'
    BY <1>2, <1>3, Zenon DEF CacheAgrees
  <2> QED
    BY <2>1, <2>2, <2>3, <2>4
<1>8. CreatedOnce'
  <2>1. Created' = Created
    BY <1>4 DEF Created
  <2> QED
    BY <1>2, <1>3, <1>4, <2>1, Zenon DEF CreatedOnce
<1>9. ListFirst' /\ Closed'
  BY <1>1, <1>3, <1>4 DEF ListFirst, Closed
<1>10. (~shutdown => \E p \in 0..Len(queue) : Aligned(p))' /\ AllKnown'
  BY <1>3 DEF AllKnown
<1> QED
  BY <1>6, <1>7, <1>8, <1>9, <1>10

LEMMA RunningProps ==
    ASSUME IInv, NEW kind, Running(kind)
    PROVE  ~shutdown /\ queue # << >> /\ Head(queue).kind = kind /\ Head(queue) \in Job
  BY HeadTailProperties DEF IInv, TypeOK, Running

LEMMA RunLoginKeepsIInv ==
    ASSUME IInv, RunLogin
    PROVE  IInv'
<1>1. ~shutdown /\ queue # << >> /\ Head(queue).kind = "login" /\ Head(queue) \in Job
  BY RunningProps DEF RunLogin
<1>2. /\ queue' = Tail(queue) /\ UNCHANGED <<players, cache, shutdown>>
      /\ faults' \in 0..MaxFaults /\ (faults' = 0 => faults = 0)
  BY FinishProps DEF RunLogin
<1>3. load' = load /\ creates' = creates /\ counts' = counts /\ UNCHANGED tables
  BY DEF RunLogin
<1>4. PICK i, c, l : i = Head(queue).id /\ c = userClan[i] /\ l = userLang[i]
  OBVIOUS
<1>5. i \in AccountId /\ c \in Number /\ l \in Number /\ (i \notin strays => c \in 0..Len(clans))
  <2>1. i \in AccountId
    BY <1>1, <1>4, JobFields DEF AccountId
  <2> QED
    BY <1>4, <2>1 DEF IInv, TypeOK, Rows, Sane
<1>6. RowsGrow /\ Len(clans') = Len(clans) /\ CountEnds /\ CreateEnds(Failed)
  BY <1>1, <1>3, NothingEnds
<1>7. LoadEnds(<< >>)
  BY <1>1, <1>3, <1>6, NothingEnds DEF RowsGrow
<1> DEFINE change == [state |-> "successful", id |-> i, clan |-> c, lang |-> l]
<1>8. LoginEnds(change)
  <2>1. logins' = Answer(logins, "login", change)
    BY <1>4 DEF RunLogin
  <2>2. \A r \in LoginResult : /\ Answered(r, change) \in LoginResult
                               /\ Answered(r, change).state = "successful"
                               /\ Answered(r, change).id = i /\ Answered(r, change).clan = c
    BY <1>5, AnsweredProps
  <2>3. strays' = strays
    BY <1>3 DEF tables
  <2> HIDE DEF change
  <2> QED
    BY <1>1, <1>5, <1>6, <2>1, <2>2, <2>3 DEF LoginEnds
<1> HIDE DEF change
<1> QED
  BY <1>1, <1>2, <1>6, <1>7, <1>8, JobKeepsIInv

\* The save of an account writes a row of users, which is then a stray one.
LEMMA RunAccountSaveKeepsIInv ==
    ASSUME IInv, NEW whole \in BOOLEAN, RunAccountSave(whole)
    PROVE  IInv'
<1>1. ~shutdown /\ queue # << >> /\ Head(queue).kind = "account" /\ Head(queue) \in Job
  BY RunningProps DEF RunAccountSave
<1>2. /\ queue' = Tail(queue) /\ UNCHANGED <<players, cache, shutdown>>
      /\ faults' \in 0..MaxFaults /\ (faults' = 0 => faults = 0)
  BY FinishProps DEF RunAccountSave
<1>3. load' = load /\ logins' = logins /\ creates' = creates /\ counts' = counts /\ clans' = clans
  BY DEF RunAccountSave, requests
<1>4. PICK row, i, c : row = Head(queue).row /\ i = Head(queue).id /\ c = Head(queue).clan
  OBVIOUS
<1>5. row \in Account /\ row \in AccountId /\ i \in Number /\ c \in Number
  BY <1>1, <1>4, JobFields DEF AccountId, Number
<1>6. /\ userClan' = [userClan EXCEPT ![row] = i] /\ userLang' = [userLang EXCEPT ![row] = c]
      /\ strays' = strays \cup {row}
  BY <1>4 DEF RunAccountSave
<1>7. /\ clans \in Seq(Clan) /\ Len(clans) <= MaxClans /\ Len(clans) \in Nat
      /\ userClan \in [AccountId -> Number] /\ userLang \in [AccountId -> Number] /\ strays \subseteq Account
      /\ \A k \in 1..Len(clans) : clans[k].id = k
  BY LenProperties DEF IInv, TypeOK, Rows
<1>8. RowsGrow
  <2>1. UniqueClanNames'
    BY <1>3, Zenon DEF IInv, UniqueClanNames
  <2>2. \A k \in AccountId : Sane(k, userClan[k])'
    <3>1. ASSUME NEW k \in AccountId, k \notin strays' PROVE userClan'[k] \in 0..Len(clans)
      <4>1. k # row /\ k \notin strays
        BY <1>6, <3>1
      <4>2. userClan'[k] = userClan[k]
        BY <1>6, <1>7, <4>1
      <4> QED
        BY <4>1, <4>2 DEF IInv, Rows, Sane
    <3> QED
      BY <1>3, <3>1, Zenon DEF Sane
  <2>3. userClan' \in [AccountId -> Number] /\ userLang' \in [AccountId -> Number]
    BY <1>5, <1>6, <1>7
  <2>4. strays \subseteq strays' /\ strays' \subseteq Account
    BY <1>5, <1>6, <1>7
  <2> QED
    BY <1>3, <1>7, <2>1, <2>2, <2>3, <2>4 DEF RowsGrow
<1>9. Len(clans') = Len(clans) /\ clans' \in Seq(Clan)
  BY <1>3, <1>7
<1>10. LoadEnds(<< >>) /\ LoginEnds(Failed) /\ CreateEnds(Failed) /\ CountEnds
  BY <1>1, <1>3, <1>9, NothingEnds
<1> QED
  BY <1>1, <1>2, <1>8, <1>10, JobKeepsIInv

LEMMA RunCountKeepsIInv ==
    ASSUME IInv, NEW members \in 0..Cardinality(Account), RunCount(members)
    PROVE  IInv'
<1>1. ~shutdown /\ queue # << >> /\ Head(queue).kind = "count"
  BY RunningProps DEF RunCount
<1>2. /\ queue' = Tail(queue) /\ UNCHANGED <<players, cache, shutdown>>
      /\ faults' \in 0..MaxFaults /\ (faults' = 0 => faults = 0)
  <2>1. \E whole \in BOOLEAN : Finish(whole)
    BY DEF RunCount
  <2> QED
    BY <2>1, FinishProps
<1>3. load' = load /\ creates' = creates /\ logins' = logins /\ UNCHANGED tables
  BY DEF RunCount
<1>4. RowsGrow /\ Len(clans') = Len(clans) /\ LoginEnds(Failed) /\ CreateEnds(Failed)
  BY <1>1, <1>3, NothingEnds
<1>5. LoadEnds(<< >>)
  BY <1>1, <1>3, <1>4, NothingEnds DEF RowsGrow
<1>6. members \in Nat
  OBVIOUS
<1> DEFINE change == [state |-> "successful", members |-> members]
<1>7. \A r \in CountResult : Answered(r, change) \in CountResult /\ Answered(r, change).clan = r.clan
  BY <1>6, AnsweredProps
<1>8. counts' = Answer(counts, "count", change)
  BY DEF RunCount
<1> HIDE DEF change
<1>9. CountEnds
  BY <1>7, <1>8, CountAnswered
<1> QED
  BY <1>1, <1>2, <1>4, <1>5, <1>9, JobKeepsIInv

LEMMA RunLoadKeepsIInv ==
    ASSUME IInv, NEW stop \in ClanId, RunLoad(stop)
    PROVE  IInv'
<1>1. ~shutdown /\ queue # << >> /\ Head(queue).kind = "load"
  BY RunningProps DEF RunLoad
<1>2. /\ queue' = Tail(queue) /\ UNCHANGED <<players, cache, shutdown>>
      /\ faults' \in 0..MaxFaults /\ (faults' = 0 => faults = 0 /\ stop = Len(clans))
  <2>1. (stop = Len(clans)) \in BOOLEAN /\ Finish(stop = Len(clans))
    BY DEF RunLoad
  <2> QED
    BY <2>1, FinishProps
<1>3. logins' = logins /\ creates' = creates /\ counts' = counts /\ UNCHANGED tables
  BY DEF RunLoad
<1>4. RowsGrow /\ Len(clans') = Len(clans) /\ CountEnds /\ LoginEnds(Failed) /\ CreateEnds(Failed)
  BY <1>1, <1>3, NothingEnds
<1> DEFINE data == SubSeq(clans, 1, stop)
<1>5. LoadEnds(data)
  <2>1. clans \in Seq(Clan) /\ Len(clans) \in Nat /\ stop \in 0..Len(clans) /\ clans' = clans
    BY <1>3, LenProperties, ClansAssumption DEF IInv, TypeOK, RunLoad, ClanId, tables
  <2>2. \A i \in 1..stop : clans[i] \in Clan
    BY <2>1, ElementOfSeq
  <2>3. data \in Seq(Clan) /\ Len(data) = stop /\ \A i \in 1..stop : data[i] = clans[i]
    BY <2>1, <2>2
  <2>4. \A i \in 1..Len(clans) : clans[i].id = i
    BY DEF IInv, Rows
  <2>5. load' = LoadDone(data)
    BY DEF RunLoad
  <2> HIDE DEF data
  <2> QED
    BY <1>1, <1>2, <2>1, <2>3, <2>4, <2>5 DEF LoadEnds
<1> HIDE DEF data
<1> QED
  BY <1>1, <1>2, <1>4, <1>5, JobKeepsIInv

\* A save leaves the names and the numbers of the rows alone.
LEMMA RunSaveKeepsIInv ==
    ASSUME IInv, NEW stop \in ClanId, RunSave(stop)
    PROVE  IInv'
<1>1. ~shutdown /\ queue # << >> /\ Head(queue).kind = "save" /\ Head(queue) \in Job
  BY RunningProps DEF RunSave
<1>2. /\ queue' = Tail(queue) /\ UNCHANGED <<players, cache, shutdown>>
      /\ faults' \in 0..MaxFaults /\ (faults' = 0 => faults = 0)
  <2>1. \E whole \in BOOLEAN : Finish(whole)
    BY DEF RunSave
  <2> QED
    BY <2>1, FinishProps
<1>3. load' = load /\ logins' = logins /\ creates' = creates /\ counts' = counts
      /\ userClan' = userClan /\ userLang' = userLang /\ strays' = strays
  BY DEF RunSave, requests
<1> DEFINE data == SubSeq(Head(queue).data, 1, stop)
           row(i) == IF Matching(data, i) = {} THEN clans[i]
                     ELSE [data[CHOOSE k \in Matching(data, i) : \A j \in Matching(data, i) : j <= k]
                             EXCEPT !.name = clans[i].name]
<1>4. clans \in Seq(Clan) /\ Len(clans) \in Nat /\ Len(clans) <= MaxClans
  BY LenProperties DEF IInv, TypeOK
<1>5. data \in Seq(Clan) /\ Len(data) \in Nat
  <2>1. Head(queue).data \in Seq(Clan)
    BY <1>1, JobFields
  <2>2. Len(Head(queue).data) \in Nat /\ stop \in 0..Len(Head(queue).data)
    BY <2>1, LenProperties, ClansAssumption DEF RunSave, ClanId
  <2>3. \A i \in 1..stop : Head(queue).data[i] \in Clan
    BY <2>1, <2>2, ElementOfSeq
  <2> QED
    BY <2>1, <2>2, <2>3
<1>6. clans' = [i \in 1..Len(clans) |-> row(i)]
  BY DEF RunSave
<1> HIDE DEF data
<1>7. ASSUME NEW i \in 1..Len(clans)
      PROVE  row(i) \in Clan /\ row(i).id = i /\ row(i).name = clans[i].name
  <2>1. clans[i] \in Clan /\ clans[i].id = i
    BY <1>4, ElementOfSeq DEF IInv, Rows
  <2>2. CASE Matching(data, i) = {}
    BY <2>1, <2>2
  <2>3. CASE Matching(data, i) # {}
    <3>1. Matching(data, i) \in SUBSET (1..Len(data))
      BY DEF Matching
    <3>2. \E k \in Matching(data, i) : \A j \in Matching(data, i) : j <= k
      BY <1>5, <2>3, <3>1, Largest
    <3>3. PICK k \in Matching(data, i) :
             k = CHOOSE m \in Matching(data, i) : \A j \in Matching(data, i) : j <= m
      BY <3>2, Zenon
    <3>4. data[k] \in Clan /\ data[k].id = i
      BY <1>5, <3>1, ElementOfSeq DEF Matching
    <3>5. row(i) = [data[k] EXCEPT !.name = clans[i].name]
      BY <2>3, <3>3, Zenon
    <3> HIDE DEF row
    <3> QED
      BY <2>1, <3>4, <3>5 DEF Clan
  <2> QED
    BY <2>2, <2>3
<1> HIDE DEF row
<1>8. clans' \in Seq(Clan) /\ Len(clans') = Len(clans)
  <2>1. clans' \in [1..Len(clans) -> Clan]
    BY <1>6, <1>7
  <2> QED
    BY <1>4, <2>1, FunctionIsSeq
<1>9. \A i \in 1..Len(clans) : clans'[i].id = i /\ clans'[i].name = clans[i].name
  BY <1>6, <1>7
<1>10. RowsGrow
  <2>1. /\ userClan' \in [AccountId -> Number] /\ userLang' \in [AccountId -> Number]
        /\ strays \subseteq strays' /\ strays' \subseteq Account
    BY <1>3 DEF IInv, TypeOK
  <2>3. \A i \in AccountId : Sane(i, userClan[i])'
    BY <1>3, <1>8, Zenon DEF IInv, Rows, Sane
  <2>2. UniqueClanNames'
    BY <1>8, <1>9 DEF IInv, UniqueClanNames
  <2> QED
    BY <1>4, <1>8, <1>9, <2>1, <2>2, <2>3 DEF RowsGrow
<1>11. LoadEnds(<< >>) /\ LoginEnds(Failed) /\ CreateEnds(Failed) /\ CountEnds
  BY <1>1, <1>3, <1>8, NothingEnds
<1> QED
  BY <1>1, <1>2, <1>10, <1>11, JobKeepsIInv

\* A clan is created: its row is new and so is its name.
LEMMA RunCreateKeepsIInv ==
    ASSUME IInv, NEW stop \in 1..4, RunCreate(stop)
    PROVE  IInv'
<1> DEFINE job == Head(queue)
           id == Len(clans) + 1
<1>1. ~shutdown /\ queue # << >> /\ job.kind = "create" /\ job.name \in ClanName /\ job.leader \in AccountId
  BY RunningProps, JobFields DEF RunCreate
<1>2. load' = load /\ logins' = logins /\ counts' = counts
  BY DEF RunCreate
<1>3. /\ clans \in Seq(Clan) /\ Len(clans) \in Nat /\ Len(clans) <= MaxClans /\ MaxClans \in Nat
      /\ userClan \in [AccountId -> Number] /\ userLang \in [AccountId -> Number] /\ strays \subseteq Account
  BY LenProperties, ClansAssumption DEF IInv, TypeOK
<1>4. CASE Taken(job.name) # {}
  <2>1. Finish(TRUE) /\ creates' = Answer(creates, "create", Failed) /\ UNCHANGED tables
    BY <1>4 DEF RunCreate
  <2>2. /\ queue' = Tail(queue) /\ UNCHANGED <<players, cache, shutdown>>
        /\ faults' \in 0..MaxFaults /\ (faults' = 0 => faults = 0)
    BY <2>1, FinishProps
  <2>3. RowsGrow /\ Len(clans') = Len(clans) /\ CountEnds /\ LoginEnds(Failed)
    BY <1>1, <1>2, <2>1, NothingEnds
  <2>4. LoadEnds(<< >>)
    BY <1>1, <1>2, <2>3, NothingEnds DEF RowsGrow
  <2>5. CreateEnds(Failed)
    BY <1>1, <2>1, <2>3, AnsweredProps DEF CreateEnds
  <2> QED
    BY <1>1, <2>2, <2>3, <2>4, <2>5, JobKeepsIInv
<1>5. CASE Taken(job.name) = {}
  <2>1. /\ stop \in 2..4 /\ Len(clans) < MaxClans
        /\ clans' = Append(clans, NewClan(id, job.name, job.leader))
        /\ userClan' = IF stop = 4 /\ job.leader # 0 THEN [userClan EXCEPT ![job.leader] = id] ELSE userClan
        /\ creates' = Answer(creates, "create", IF stop = 4 THEN [state |-> "successful", clan |-> id] ELSE Failed)
        /\ Finish(stop = 4)
        /\ userLang' = userLang /\ strays' = strays
    BY <1>5 DEF RunCreate
  <2>2. /\ queue' = Tail(queue) /\ UNCHANGED <<players, cache, shutdown>>
        /\ faults' \in 0..MaxFaults /\ (faults' = 0 => faults = 0 /\ stop = 4)
    <3>1. (stop = 4) \in BOOLEAN
      OBVIOUS
    <3> QED
      BY <2>1, <3>1, FinishProps
  <2>3. id \in ClanId /\ id \in ClanId \ {0}
    BY <1>3, <2>1 DEF ClanId
  <2>4. NewClan(id, job.name, job.leader) \in Clan
    <3>1. [u \in Upgrades |-> IF u = "max_num" THEN 2 ELSE 0] \in [Upgrades -> Nat]
      OBVIOUS
    <3> QED
      BY <1>1, <2>3, <3>1 DEF NewClan, Clan
  <2>5. /\ clans' \in Seq(Clan) /\ Len(clans') = id
        /\ \A i \in 1..Len(clans) : clans'[i] = clans[i]
        /\ clans'[id].id = id /\ clans'[id].name = job.name
    BY <1>3, <2>1, <2>4, AppendProperties DEF NewClan
  <2>6. RowsGrow
    <3>1. \A i \in 1..Len(clans) : clans[i].id = i /\ clans[i].name # job.name
      BY <1>5 DEF IInv, Rows, Taken
    <3>2. \A i \in 1..Len(clans') : clans'[i].id = i
      BY <1>3, <2>5, <3>1
    <3>3. UniqueClanNames'
      <4>1. ASSUME NEW i \in 1..id, NEW j \in 1..id, clans'[i].name = clans'[j].name PROVE i = j
        <5>1. CASE i \in 1..Len(clans) /\ j \in 1..Len(clans)
          BY <2>5, <4>1, <5>1 DEF IInv, UniqueClanNames
        <5>2. CASE ~(i \in 1..Len(clans) /\ j \in 1..Len(clans))
          <6>1. i = id \/ j = id
            BY <1>3, <5>2
          <6>2. \A k \in 1..Len(clans) : clans'[k].name # clans'[id].name
            BY <2>5, <3>1
          <6>3. \A k \in 1..id : k # id => k \in 1..Len(clans)
            BY <1>3
          <6> HIDE DEF id
          <6> QED
            BY <4>1, <6>1, <6>2, <6>3
        <5> QED
          BY <5>1, <5>2
      <4> QED
        BY <2>5, <4>1 DEF UniqueClanNames
    <3>4. /\ userClan' \in [AccountId -> Number] /\ userLang' \in [AccountId -> Number]
          /\ strays \subseteq strays' /\ strays' \subseteq Account
      <4>1. id \in Number
        BY <2>3 DEF Number
      <4> HIDE DEF id, job
      <4> QED
        BY <1>1, <1>3, <2>1, <4>1
    <3>5. \A i \in AccountId : Sane(i, userClan[i])'
      <4>1. ASSUME NEW i \in AccountId, i \notin strays PROVE userClan'[i] \in 0..id
        <5>1. userClan[i] \in 0..Len(clans)
          BY <4>1 DEF IInv, Rows, Sane
        <5>2. userClan[i] \in 0..id /\ id \in 0..id
          BY <1>3, <5>1
        <5> HIDE DEF id, job
        <5> QED
          BY <1>1, <1>3, <2>1, <5>2
      <4> QED
        BY <2>1, <2>5, <4>1, Zenon DEF Sane
    <3> QED
      BY <1>3, <2>1, <2>5, <3>2, <3>3, <3>4, <3>5 DEF RowsGrow
  <2>7. PICK c2 : c2 = IF stop = 4 THEN [state |-> "successful", clan |-> id] ELSE Failed
    OBVIOUS
  <2>8. \A r \in CreateResult :
          /\ Answered(r, c2) \in CreateResult /\ Answered(r, c2).name = r.name
          /\ stop = 4 => Answered(r, c2).state = "successful" /\ Answered(r, c2).clan = id
          /\ stop # 4 => Answered(r, c2).state = "failed"
    <3>1. CASE stop = 4
      <4>1. c2 = [state |-> "successful", clan |-> id]
        BY <2>7, <3>1
      <4> HIDE DEF id
      <4> QED
        BY <2>3, <3>1, <4>1, AnsweredProps
    <3>2. CASE stop # 4
      <4>1. c2 = Failed
        BY <2>7, <3>2
      <4> QED
        BY <3>2, <4>1, AnsweredProps
    <3> QED
      BY <3>1, <3>2
  <2>9. CreateEnds(c2)
    <3>1. creates' = Answer(creates, "create", c2)
      BY <2>1, <2>7
    <3> QED
      BY <1>1, <1>3, <2>2, <2>5, <2>8, <3>1 DEF CreateEnds
  <2>10. LoadEnds(<< >>) /\ LoginEnds(Failed) /\ CountEnds
    BY <1>1, <1>2, <2>5, NothingEnds
  <2> QED
    BY <1>1, <2>2, <2>6, <2>9, <2>10, JobKeepsIInv
<1> QED
  BY <1>4, <1>5
-----------------------------------------------------------------------------
\* OnTick handles only what is answered, for those who are still there.
LEMMA HandledReady ==
    ASSUME NEW n \in Nat, NEW ready \in [1..n -> BOOLEAN]
    PROVE  \A k \in Handled(ready) : k \in 1..n /\ ready[k] = TRUE
<1>1. Len(ready) = n
  BY FunctionIsSeq
<1>2. ASSUME NEW k \in Handled(ready) PROVE k \in 1..n /\ ready[k] = TRUE
  <2>1. k \in 1..n /\ \E j \in 1..k : \A i \in j..k : ready[i]
    BY <1>1 DEF Handled
  <2>2. PICK j \in 1..k : \A i \in j..k : ready[i]
    BY <2>1
  <2>3. k \in j..k
    BY <2>1
  <2>4. ready[k]
    BY <2>2, <2>3
  <2>5. ready[k] \in BOOLEAN
    BY <2>1
  <2> QED
    BY <2>1, <2>4, <2>5, Zenon
<1> QED
  BY <1>2

LEMMA ReadyProps ==
    ASSUME NEW R, NEW results \in Seq(R)
    PROVE  \A k \in Handled(Ready(results)) :
              k \in 1..Len(results) /\ results[k].state # "pending" /\ players[results[k].slot].here
<1> DEFINE r == [k \in 1..Len(results) |-> results[k].state # "pending" /\ players[results[k].slot].here]
<1>1. Len(results) \in Nat
  BY LenProperties
<1>2. r \in [1..Len(results) -> BOOLEAN]
  BY Zenon
<1>3. Ready(results) = r
  BY Zenon DEF Ready
<1>4. \A k \in 1..Len(results) : r[k] = (results[k].state # "pending" /\ players[results[k].slot].here)
  BY Zenon
<1> HIDE DEF r
<1>5. \A k \in Handled(r) : k \in 1..Len(results) /\ r[k] = TRUE
  BY <1>1, <1>2, HandledReady
<1> QED
  BY <1>3, <1>4, <1>5, Zenon

LEMMA CountReadyProps ==
    ASSUME counts \in Seq(CountResult)
    PROVE  \A k \in Handled(CountReady) :
              k \in 1..Len(counts) /\ players[counts[k].from].here /\ players[counts[k].to].here
<1> DEFINE r == [k \in 1..Len(counts) |-> /\ counts[k].state # "pending"
                                          /\ players[counts[k].from].here
                                          /\ players[counts[k].to].here]
<1>1. Len(counts) \in Nat
  BY LenProperties
<1>2. r \in [1..Len(counts) -> BOOLEAN]
  BY Zenon
<1>3. CountReady = r
  BY Zenon DEF CountReady
<1>4. \A k \in 1..Len(counts) : r[k] = (/\ counts[k].state # "pending"
                                        /\ players[counts[k].from].here
                                        /\ players[counts[k].to].here)
  BY Zenon
<1> HIDE DEF r
<1>5. \A k \in Handled(r) : k \in 1..Len(counts) /\ r[k] = TRUE
  BY <1>1, <1>2, HandledReady
<1> QED
  BY <1>3, <1>4, <1>5, Zenon

\* The last of some positions, as the loops of OnTick leave it.
LEMMA LastOf ==
    ASSUME NEW n \in Nat, NEW T \in SUBSET (1..n), T # {}
    PROVE  (CHOOSE k \in T : \A j \in T : j <= k) \in T
<1>1. \E k \in T : \A j \in T : j <= k
  BY Largest
<1> QED
  BY <1>1, Zenon

LEMMA LoggedInProps ==
    ASSUME IInv, NEW s \in Slot
    PROVE  /\ LoggedIn(s) \in Player
           /\ Sane(LoggedIn(s).id, LoggedIn(s).clan) /\ LoggedIn(s).invite = players[s].invite
           /\ LoggedIn(s) # players[s] => LoggedIn(s).here /\ load.state # "pending"
<1> USE DEF IInv
<1>1. players[s] \in Player /\ Sane(players[s].id, players[s].clan)
  BY DEF TypeOK, Rows
<1>2. logins \in Seq(LoginResult) /\ Len(logins) \in Nat
  BY LenProperties DEF TypeOK, LoginResult
<1> DEFINE mine == {k \in Handled(Ready(logins)) : logins[k].slot = s /\ logins[k].state = "successful"}
           at == CHOOSE k \in mine : \A j \in mine : j <= k
<1>3. \A k \in mine : k \in 1..Len(logins) /\ logins[k].state = "successful" /\ players[s].here
  BY <1>2, ReadyProps
<1>4. LoggedIn(s) = IF mine = {} THEN players[s]
                    ELSE [players[s] EXCEPT !.loggedIn = TRUE, !.id = logins[at].id,
                                           !.clan = logins[at].clan, !.lang = logins[at].lang]
  BY DEF LoggedIn
<1> HIDE DEF mine
<1>5. CASE mine = {}
  BY <1>1, <1>4, <1>5
<1>6. CASE mine # {}
  <2>1. at \in mine
    BY <1>2, <1>3, <1>6, LastOf
  <2> HIDE DEF at
  <2>2. /\ logins[at] \in LoginResult /\ Sane(logins[at].id, logins[at].clan)
        /\ load.state # "pending" /\ players[s].here
    BY <1>2, <1>3, <2>1, ElementOfSeq DEF Rows, ListFirst
  <2>3. LoggedIn(s) = [players[s] EXCEPT !.loggedIn = TRUE, !.id = logins[at].id,
                                           !.clan = logins[at].clan, !.lang = logins[at].lang]
    BY <1>4, <1>6
  <2> QED
    BY <1>1, <2>2, <2>3 DEF Player, LoginResult
<1> QED
  BY <1>5, <1>6

LEMMA LeadsProps ==
    ASSUME IInv, NEW s \in Slot, NEW p \in Player, Sane(p.id, p.clan)
    PROVE  /\ Leads(p, s) \in Player
           /\ Sane(Leads(p, s).id, Leads(p, s).clan) /\ Leads(p, s).invite = p.invite
           /\ Leads(p, s).here = p.here /\ Leads(p, s).loggedIn = p.loggedIn
           /\ Leads(p, s) # p => players[s].here /\ creates # << >>
<1> USE DEF IInv
<1>1. creates \in Seq(CreateResult) /\ Len(creates) \in Nat
  BY LenProperties DEF TypeOK, CreateResult
<1> DEFINE mine == {k \in Founded : creates[k].slot = s}
           at == CHOOSE k \in mine : \A j \in mine : j <= k
<1>2. \A k \in mine : k \in Created /\ k \in 1..Len(creates) /\ players[s].here
  BY <1>1, ReadyProps DEF Founded, Created
<1>3. Leads(p, s) = IF mine = {} THEN p ELSE [p EXCEPT !.clan = creates[at].clan]
  BY DEF Leads
<1> HIDE DEF mine
<1>4. CASE mine = {}
  BY <1>3, <1>4
<1>5. CASE mine # {}
  <2>1. at \in mine
    BY <1>1, <1>2, <1>5, LastOf
  <2> HIDE DEF at
  <2>2. creates[at] \in CreateResult /\ creates[at].clan \in 1..Len(clans) /\ players[s].here /\ creates # << >>
    BY <1>1, <1>2, <2>1, ElementOfSeq DEF CreatedOnce
  <2>3. Leads(p, s) = [p EXCEPT !.clan = creates[at].clan]
    BY <1>3, <1>5
  <2> QED
    BY <2>2, <2>3 DEF Player, CreateResult, Number, Sane
<1> QED
  BY <1>4, <1>5

LEMMA InvitedProps ==
    ASSUME IInv, NEW s \in Slot, NEW p \in Player, NEW known, p.invite \in 0..Len(clans)
    PROVE  /\ Invited(p, s, known) \in Player
           /\ Invited(p, s, known).invite \in 0..Len(clans) /\ Invited(p, s, known).clan = p.clan
           /\ Invited(p, s, known).id = p.id
           /\ Invited(p, s, known).here = p.here /\ Invited(p, s, known).loggedIn = p.loggedIn
           /\ Invited(p, s, known) # p => players[s].here /\ counts # << >>
<1> USE DEF IInv
<1>1. counts \in Seq(CountResult) /\ Len(counts) \in Nat
  BY LenProperties DEF TypeOK, CountResult
<1> DEFINE mine == {k \in Sent(known) : counts[k].to = s}
           at == CHOOSE k \in mine : \A j \in mine : j <= k
<1>2. \A k \in mine : k \in 1..Len(counts) /\ players[s].here
  BY <1>1, CountReadyProps DEF Sent
<1>3. Invited(p, s, known) = IF mine = {} THEN p ELSE [p EXCEPT !.invite = counts[at].clan]
  BY DEF Invited
<1> HIDE DEF mine
<1>4. CASE mine = {}
  BY <1>3, <1>4
<1>5. CASE mine # {}
  <2>1. at \in mine
    BY <1>1, <1>2, <1>5, LastOf
  <2> HIDE DEF at
  <2>2. counts[at] \in CountResult /\ counts[at].clan \in 0..Len(clans) /\ players[s].here /\ counts # << >>
    BY <1>1, <1>2, <2>1, ElementOfSeq DEF Rows
  <2>3. Invited(p, s, known) = [p EXCEPT !.invite = counts[at].clan]
    BY <1>3, <1>5
  <2> QED
    BY <2>2, <2>3 DEF Player, CountResult
<1> QED
  BY <1>4, <1>5

\* What is left of a list keeps its order.
Left(R, results, at, new) ==
    /\ new \in Seq(R) /\ Len(new) \in Nat
    /\ \E up \in [1..Len(new) -> (1..Len(results)) \ at] :
          /\ \A i, j \in 1..Len(new) : i < j => up[i] < up[j]
          /\ \A k \in (1..Len(results)) \ at : \E i \in 1..Len(new) : up[i] = k
          /\ \A i \in 1..Len(new) : new[i] = results[up[i]]

LEMMA RestProps ==
    ASSUME NEW R, NEW results \in Seq(R), NEW at \in SUBSET (1..Len(results))
    PROVE  Left(R, results, at, Rest(results, at))
<1> DEFINE left == (1..Len(results)) \ at
           new == Rest(results, at)
<1>1. new = Pick(results, left) /\ left \in SUBSET (1..Len(results))
  BY DEF Rest
<1> HIDE DEF new, left
<1>2. new \in Seq(R) /\ Len(new) \in Nat
  BY <1>1, PickProps
<1>3. \E up \in [1..Len(new) -> left] :
        /\ \A i, j \in 1..Len(new) : i < j => up[i] < up[j]
        /\ \A k \in left : \E i \in 1..Len(new) : up[i] = k
        /\ \A i \in 1..Len(new) : new[i] = results[up[i]]
  BY <1>1, PickProps
<1>4. Left(R, results, at, new)
  BY <1>2, <1>3, Zenon DEF Left, left
<1> QED
  BY <1>4 DEF new

\* The clans that OnTick adds to the cache are those whose creation it handles.
NewClans(leaders) ==
    Pick([k \in 1..Len(creates) |-> NewClan(creates[k].clan, creates[k].name, leaders[k])], Founded)

LEMMA NewClansProps ==
    ASSUME IInv, NEW leaders, \A k \in 1..Len(creates) : leaders[k] \in AccountId
    PROVE  /\ NewClans(leaders) \in Seq(Clan) /\ Len(NewClans(leaders)) \in Nat
           /\ \E up \in [1..Len(NewClans(leaders)) -> Founded] :
                 /\ \A i, j \in 1..Len(NewClans(leaders)) : up[i] = up[j] => i = j
                 /\ \A k \in Founded : \E i \in 1..Len(NewClans(leaders)) : up[i] = k
                 /\ \A i \in 1..Len(NewClans(leaders)) :
                       /\ NewClans(leaders)[i].id = creates[up[i]].clan
                       /\ NewClans(leaders)[i].name = creates[up[i]].name
<1> USE DEF IInv
<1> DEFINE rows == [k \in 1..Len(creates) |-> NewClan(creates[k].clan, creates[k].name, leaders[k])]
           S == {NewClan(c, n, l) : c \in ClanId, n \in ClanName, l \in AccountId}
<1>1. creates \in Seq(CreateResult) /\ Len(creates) \in Nat
  BY LenProperties DEF TypeOK, CreateResult
<1>2. ASSUME NEW k \in 1..Len(creates)
      PROVE  /\ creates[k] \in CreateResult /\ leaders[k] \in AccountId
             /\ NewClan(creates[k].clan, creates[k].name, leaders[k]) \in S
  <2>1. creates[k] \in CreateResult
    BY <1>1, ElementOfSeq
  <2>2. creates[k].clan \in ClanId /\ creates[k].name \in ClanName
    BY <2>1 DEF CreateResult
  <2>3. NewClan(creates[k].clan, creates[k].name, leaders[k]) \in S
    BY <2>2
  <2> QED
    BY <2>1, <2>3
<1>3. rows \in [1..Len(creates) -> S]
  <2> HIDE DEF S
  <2> QED
    BY <1>2
<1>4. rows \in Seq(S) /\ Len(rows) = Len(creates)
  <2> HIDE DEF rows, S
  <2> QED
    BY <1>1, <1>3, FunctionIsSeq
<1>5. \A k \in Founded : k \in Created /\ k \in 1..Len(creates)
  BY <1>1, ReadyProps DEF Founded, Created
<1>6. Founded \in SUBSET (1..Len(rows))
  <2> HIDE DEF rows
  <2> QED
    BY <1>4, <1>5
<1>7. NewClans(leaders) = Pick(rows, Founded)
  BY DEF NewClans
<1>8. \A k \in Founded : /\ rows[k].id = creates[k].clan /\ rows[k].name = creates[k].name
                         /\ rows[k] \in Clan
  <2>1. ASSUME NEW k \in Founded
        PROVE  /\ rows[k].id = creates[k].clan /\ rows[k].name = creates[k].name
               /\ rows[k] \in Clan
    <3>1. k \in Created /\ k \in 1..Len(creates)
      BY <1>5
    <3>2. creates[k] \in CreateResult /\ leaders[k] \in AccountId
      BY <1>2, <3>1
    <3>3. rows[k] = NewClan(creates[k].clan, creates[k].name, leaders[k])
      BY <3>1
    <3>4. creates[k].clan \in 1..Len(clans)
      BY <3>1 DEF CreatedOnce
    <3>5. creates[k].clan \in ClanId \ {0} /\ creates[k].name \in ClanName
      BY <3>2, <3>4 DEF CreateResult
    <3>6. [u \in Upgrades |-> IF u = "max_num" THEN 2 ELSE 0] \in [Upgrades -> Nat]
      OBVIOUS
    <3> HIDE DEF rows
    <3> QED
      BY <3>2, <3>3, <3>5, <3>6 DEF NewClan, Clan
  <2> QED
    BY <2>1
<1> HIDE DEF rows, S
<1>9. PICK new : new = Pick(rows, Founded)
  OBVIOUS
<1>10. new \in Seq(S) /\ Len(new) \in Nat
  BY <1>4, <1>6, <1>9, PickProps
<1>11. PICK up \in [1..Len(new) -> Founded] :
        /\ \A i, j \in 1..Len(new) : i < j => up[i] < up[j]
        /\ \A k \in Founded : \E i \in 1..Len(new) : up[i] = k
        /\ \A i \in 1..Len(new) : new[i] = rows[up[i]]
  BY <1>4, <1>6, <1>9, PickProps
<1>12. ASSUME NEW i \in 1..Len(new), NEW j \in 1..Len(new), up[i] = up[j]
       PROVE  i = j
  <2>1. up[i] \in Nat
    BY <1>5, <1>11
  <2>2. ~(i < j) /\ ~(j < i)
    BY <1>11, <1>12, <2>1
  <2> QED
    BY <1>10, <2>2
<1>13. \A i \in 1..Len(new) : new[i].id = creates[up[i]].clan /\ new[i].name = creates[up[i]].name /\ new[i] \in Clan
  BY <1>8, <1>11
<1>14. new \in Seq(Clan)
  <2>1. new \in [1..Len(new) -> S]
    BY <1>10, LenProperties
  <2>2. new \in [1..Len(new) -> Clan]
    BY <1>13, <2>1
  <2> QED
    BY <1>10, <2>2, FunctionIsSeq
<1> QED
  BY <1>7, <1>9, <1>10, <1>11, <1>12, <1>13, <1>14

\* The cache with the new clans, before a list replaces it.
Grown(known) ==
    /\ known \in Seq(Clan)
    /\ creates = << >> => Len(known) = Len(cache)
    /\ \A j, k \in 1..Len(known) : known[j].id = known[k].id => j = k
    /\ \A k \in 1..Len(known) :
          /\ known[k].id \in 1..Len(clans) /\ clans[known[k].id].name = known[k].name
          /\ \/ \E j \in 1..Len(cache) : known[k].id = cache[j].id
             \/ \E j \in Founded : known[k].id = creates[j].clan
    /\ \A j \in 1..Len(cache) : \E k \in 1..Len(known) : known[k].id = cache[j].id
    /\ \A j \in Founded : \E k \in 1..Len(known) : known[k].id = creates[j].clan

LEMMA GrownProps ==
    ASSUME IInv, NEW leaders, \A k \in 1..Len(creates) : leaders[k] \in AccountId,
           NEW known, known = cache \o NewClans(leaders)
    PROVE  Grown(known)
<1>1. PICK new : new = NewClans(leaders)
  OBVIOUS
<1>2. new \in Seq(Clan) /\ Len(new) \in Nat
  BY <1>1, NewClansProps
<1>3. PICK up \in [1..Len(new) -> Founded] :
        /\ \A i, j \in 1..Len(new) : up[i] = up[j] => i = j
        /\ \A k \in Founded : \E i \in 1..Len(new) : up[i] = k
        /\ \A i \in 1..Len(new) : new[i].id = creates[up[i]].clan /\ new[i].name = creates[up[i]].name
  <2>1. \E up \in [1..Len(NewClans(leaders)) -> Founded] :
           /\ \A i, j \in 1..Len(NewClans(leaders)) : up[i] = up[j] => i = j
           /\ \A k \in Founded : \E i \in 1..Len(NewClans(leaders)) : up[i] = k
           /\ \A i \in 1..Len(NewClans(leaders)) :
                 /\ NewClans(leaders)[i].id = creates[up[i]].clan
                 /\ NewClans(leaders)[i].name = creates[up[i]].name
    BY NewClansProps
  <2> QED
    BY <1>1, <2>1, Zenon
<1>4. cache \in Seq(Clan) /\ Len(cache) \in Nat /\ creates \in Seq(CreateResult)
  BY LenProperties DEF IInv, TypeOK, CreateResult
<1>5. /\ known \in Seq(Clan) /\ Len(known) = Len(cache) + Len(new)
      /\ \A k \in 1..Len(known) : known[k] = IF k <= Len(cache) THEN cache[k] ELSE new[k - Len(cache)]
  BY <1>1, <1>2, <1>4, ConcatProperties
<1>6. \A k \in Founded : k \in Created /\ k \in 1..Len(creates)
  BY <1>4, ReadyProps DEF Founded, Created
<1>7. creates = << >> => Len(new) = 0
  <2>1. ASSUME creates = << >>, Len(new) # 0 PROVE FALSE
    <3>1. 1 \in 1..Len(new)
      BY <1>2, <2>1
    <3>2. up[1] \in 1..Len(creates)
      BY <1>3, <1>6, <3>1
    <3> QED
      BY <2>1, <3>2
  <2> QED
    BY <2>1
<1>8. \A k \in Founded : /\ creates[k].clan \in 1..Len(clans)
                         /\ clans[creates[k].clan].name = creates[k].name
                         /\ \A j \in Founded : creates[j].clan = creates[k].clan => j = k
                         /\ \A j \in 1..Len(cache) : cache[j].id # creates[k].clan
  BY <1>6 DEF IInv, CreatedOnce
<1>9. ASSUME NEW k \in 1..Len(known)
      PROVE  \/ k \in 1..Len(cache) /\ known[k] = cache[k]
             \/ \E i \in 1..Len(new) : k = i + Len(cache) /\ known[k] = new[i]
  <2>1. CASE k <= Len(cache)
    BY <1>2, <1>4, <1>5, <2>1
  <2>2. CASE k > Len(cache)
    <3>1. known[k] = new[k - Len(cache)]
      BY <1>4, <1>5, <2>2
    <3>2. PICK i : i = k - Len(cache)
      OBVIOUS
    <3>3. i \in 1..Len(new) /\ k = i + Len(cache)
      BY <1>2, <1>4, <1>5, <2>2, <3>2
    <3> QED
      BY <3>1, <3>2, <3>3
  <2> QED
    BY <1>4, <2>1, <2>2
<1>10. \A i \in 1..Len(new) : /\ up[i] \in Founded
                              /\ new[i].id = creates[up[i]].clan /\ new[i].name = creates[up[i]].name
  BY <1>3
<1>11. ASSUME NEW k \in 1..Len(known)
       PROVE  /\ known[k].id \in 1..Len(clans) /\ clans[known[k].id].name = known[k].name
              /\ \/ \E j \in 1..Len(cache) : known[k].id = cache[j].id
                 \/ \E j \in Founded : known[k].id = creates[j].clan
  <2>1. CASE k \in 1..Len(cache) /\ known[k] = cache[k]
    BY <2>1 DEF IInv, CacheAgrees
  <2>2. CASE \E i \in 1..Len(new) : k = i + Len(cache) /\ known[k] = new[i]
    <3>1. PICK i \in 1..Len(new) : known[k] = new[i]
      BY <2>2
    <3> QED
      BY <1>8, <1>10, <3>1
  <2> QED
    BY <1>9, <2>1, <2>2
<1>12. ASSUME NEW j \in 1..Len(known), NEW k \in 1..Len(known), known[j].id = known[k].id
       PROVE  j = k
  <2>1. CASE j \in 1..Len(cache) /\ k \in 1..Len(cache) /\ known[j] = cache[j] /\ known[k] = cache[k]
    BY <1>12, <2>1 DEF IInv, CacheAgrees
  <2>2. ASSUME NEW a \in 1..Len(new), NEW b \in 1..Len(new), new[a].id = new[b].id
        PROVE  a = b
    <3>1. /\ up[a] \in Founded /\ new[a].id = creates[up[a]].clan
          /\ up[b] \in Founded /\ new[b].id = creates[up[b]].clan
      BY <1>10
    <3>2. \A i, l \in Founded : creates[l].clan = creates[i].clan => l = i
      BY <1>8
    <3>3. up[a] = up[b]
      BY <2>2, <3>1, <3>2
    <3> QED
      BY <1>3, <3>3
  <2>3. ASSUME NEW a \in 1..Len(cache), NEW b \in 1..Len(new), cache[a].id = new[b].id
        PROVE  FALSE
    BY <1>8, <1>10, <2>3
  <2>4. CASE j \in 1..Len(cache) /\ known[j] = cache[j]
    <3>1. ASSUME NEW i \in 1..Len(new), known[k] = new[i] PROVE FALSE
      BY <1>12, <2>3, <2>4, <3>1
    <3> QED
      BY <1>9, <2>1, <2>4, <3>1
  <2>5. CASE \E i \in 1..Len(new) : j = i + Len(cache) /\ known[j] = new[i]
    <3>1. PICK a \in 1..Len(new) : j = a + Len(cache) /\ known[j] = new[a]
      BY <2>5
    <3>2. ASSUME k \in 1..Len(cache), known[k] = cache[k] PROVE FALSE
      BY <1>12, <2>3, <3>1, <3>2
    <3>3. PICK b \in 1..Len(new) : k = b + Len(cache) /\ known[k] = new[b]
      BY <1>9, <3>2
    <3> QED
      BY <1>12, <2>2, <3>1, <3>3
  <2> QED
    BY <1>9, <2>4, <2>5
<1>13. ASSUME NEW j \in 1..Len(cache) PROVE \E k \in 1..Len(known) : known[k].id = cache[j].id
  <2>1. j \in 1..Len(known) /\ known[j] = cache[j]
    BY <1>2, <1>4, <1>5
  <2> QED
    BY <2>1
<1>14. ASSUME NEW j \in Founded PROVE \E k \in 1..Len(known) : known[k].id = creates[j].clan
  <2>1. PICK i \in 1..Len(new) : up[i] = j
    BY <1>3
  <2>2. PICK k : k = i + Len(cache)
    OBVIOUS
  <2>3. k \in 1..Len(known) /\ ~(k <= Len(cache)) /\ k - Len(cache) = i
    BY <1>2, <1>4, <1>5, <2>2
  <2>4. known[k] = new[i]
    BY <1>5, <2>3
  <2> QED
    BY <1>10, <2>1, <2>3, <2>4
<1>15. creates = << >> => Len(known) = Len(cache)
  BY <1>2, <1>4, <1>5, <1>7
<1> QED
  BY <1>5, <1>11, <1>12, <1>13, <1>14, <1>15 DEF Grown

LEMMA TickPlayers ==
    ASSUME IInv, NEW known, players' = [s \in Slot |-> Invited(Leads(LoggedIn(s), s), s, known)]
    PROVE  /\ players' \in [Slot -> Player]
           /\ \A s \in Slot : /\ Sane(players'[s].id, players'[s].clan) /\ players'[s].invite \in 0..Len(clans)
                              /\ ~players'[s].here => players'[s] = Nobody
                              /\ load.state = "pending" => players'[s] = players[s]
<1> USE DEF IInv
<1>1. ASSUME NEW s \in Slot
      PROVE  /\ players'[s] \in Player
             /\ Sane(players'[s].id, players'[s].clan) /\ players'[s].invite \in 0..Len(clans)
             /\ ~players'[s].here => players'[s] = Nobody
             /\ load.state = "pending" => players'[s] = players[s]
  <2>1. PICK a : a = LoggedIn(s)
    OBVIOUS
  <2>2. PICK b : b = Leads(a, s)
    OBVIOUS
  <2>3. PICK c : c = Invited(b, s, known)
    OBVIOUS
  <2>4. players[s].invite \in 0..Len(clans) /\ (~players[s].here => players[s] = Nobody)
    BY DEF Rows, Closed
  <2>5. /\ a \in Player /\ Sane(a.id, a.clan) /\ a.invite \in 0..Len(clans)
        /\ a # players[s] => a.here /\ load.state # "pending"
    BY <2>1, <2>4, LoggedInProps
  <2>6. /\ b \in Player /\ Sane(b.id, b.clan) /\ b.invite \in 0..Len(clans)
        /\ b.here = a.here /\ (b # a => players[s].here /\ creates # << >>)
    BY <2>2, <2>5, LeadsProps
  <2>7. /\ c \in Player /\ Sane(c.id, c.clan) /\ c.invite \in 0..Len(clans)
        /\ c.here = b.here /\ (c # b => players[s].here /\ counts # << >>)
    BY <2>3, <2>6, InvitedProps
  <2>8. players'[s] = c
    BY <2>1, <2>2, <2>3
  <2>9. load.state = "pending" => creates = << >> /\ counts = << >>
    BY DEF ListFirst
  <2>10. load.state = "pending" => c = players[s]
    BY <2>5, <2>6, <2>7, <2>9
  <2>11. ~c.here => c = Nobody
    <3>1. SUFFICES ASSUME ~c.here PROVE c = Nobody
      OBVIOUS
    <3>2. ~a.here
      BY <2>6, <2>7, <3>1
    <3>3. a = players[s]
      BY <2>5, <3>2
    <3>4. ~players[s].here
      BY <3>2, <3>3
    <3> QED
      BY <2>4, <2>6, <2>7, <3>3, <3>4
  <2> QED
    BY <2>7, <2>8, <2>10, <2>11
<1> QED
  BY <1>1

LEMMA TickAligned ==
    ASSUME IInv, ~shutdown, Grows,
           load' = IF load.state = "done" THEN NoLoad ELSE load,
           logins' = Rest(logins, Handled(Ready(logins))),
           creates' = Rest(creates, Handled(Ready(creates)))
    PROVE  \E p \in 0..Len(queue') : Aligned(p)'
<1>1. PICK p \in 0..Len(queue) : Aligned(p)
  BY DEF IInv
<1>2. logins \in Seq(LoginResult) /\ creates \in Seq(CreateResult)
  BY DEF IInv, TypeOK, LoginResult, CreateResult
<1>7. queue \in Seq(Job) /\ Len(queue) \in Nat /\ p \in Nat
  BY LenProperties DEF IInv, TypeOK
<1>3. p \in 0..Len(queue') /\ Mark(p)'
  <2>1. Mark(p)
    BY <1>1 DEF Aligned
  <2>2. (load'.state = "pending") = (load.state = "pending")
    BY DEF NoLoad
  <2> QED
    BY <1>7, <2>1, <2>2, GrownMark
<1>8. /\ Jobs(queue', "login", p) = Jobs(queue, "login", p)
      /\ Jobs(queue', "create", p) = Jobs(queue, "create", p)
  BY <1>7, GrownJobs
<1>4. \E g \in [Pending(logins') -> Jobs(queue', "login", p)] :
          Matched(logins', Jobs(queue', "login", p), g)
  <2>1. PICK f : Matched(logins, Jobs(queue, "login", p), f)
    BY <1>1 DEF Aligned
  <2>2. PICK at : at = Handled(Ready(logins))
    OBVIOUS
  <2>3. at \in SUBSET (1..Len(logins)) /\ at \cap Pending(logins) = {}
    BY <1>2, <2>2, ReadyProps DEF Pending
  <2>4. \E g : Matched(Rest(logins, at), Jobs(queue, "login", p), g)
    BY <1>2, <2>1, <2>3, RestMatched
  <2>5. \E g : Matched(logins', Jobs(queue', "login", p), g)
    BY <1>8, <2>2, <2>4, Zenon
  <2> QED
    BY <2>5, Zenon DEF Matched
<1>5. \E g \in [Pending(creates') -> Jobs(queue', "create", p)] :
          /\ Matched(creates', Jobs(queue', "create", p), g)
          /\ \A k \in Pending(creates') : queue'[g[k]].name = creates'[k].name
  <2>1. PICK f : /\ Matched(creates, Jobs(queue, "create", p), f)
                 /\ \A k \in Pending(creates) : queue[f[k]].name = creates[k].name
    BY <1>1 DEF Aligned
  <2>2. PICK at : at = Handled(Ready(creates))
    OBVIOUS
  <2>3. at \in SUBSET (1..Len(creates)) /\ at \cap Pending(creates) = {}
    BY <1>2, <2>2, ReadyProps DEF Pending
  <2>4. \E g : /\ Matched(Rest(creates, at), Jobs(queue, "create", p), g)
               /\ \A k \in Pending(Rest(creates, at)) : \E j \in Pending(creates) :
                     Rest(creates, at)[k] = creates[j] /\ g[k] = f[j]
    BY <1>2, <2>1, <2>3, RestMatched
  <2>5. creates' = Rest(creates, at)
    BY <2>2
  <2>6. PICK g : /\ Matched(creates', Jobs(queue', "create", p), g)
                 /\ \A k \in Pending(creates') : \E j \in Pending(creates) :
                       creates'[k] = creates[j] /\ g[k] = f[j]
    BY <1>8, <2>4, <2>5
  <2>9. \A j \in Pending(creates) : queue'[f[j]] = queue[f[j]]
    <3>1. \A j \in Pending(creates) : f[j] \in 1..Len(queue)
      <4>1. f \in [Pending(creates) -> Jobs(queue, "create", p)]
        BY <2>1 DEF Matched
      <4> QED
        BY <1>7, <4>1, JobsFinite
    <3> QED
      BY <3>1 DEF Grows
  <2>7. \A k \in Pending(creates') : queue'[g[k]].name = creates'[k].name
    <3>1. ASSUME NEW k \in Pending(creates') PROVE queue'[g[k]].name = creates'[k].name
      <4>1. PICK j \in Pending(creates) : creates'[k] = creates[j] /\ g[k] = f[j]
        BY <2>6
      <4>2. queue'[f[j]] = queue[f[j]] /\ queue[f[j]].name = creates[j].name
        BY <2>1, <2>9
      <4> QED
        BY <4>1, <4>2
    <3> QED
      BY <3>1
  <2>8. g \in [Pending(creates') -> Jobs(queue', "create", p)]
    BY <2>6, Zenon DEF Matched
  <2> QED
    BY <2>6, <2>7, <2>8, Zenon
<1>6. Aligned(p)'
  BY <1>3, <1>4, <1>5, Zenon DEF Aligned
<1> QED
  BY <1>3, <1>6, Zenon

\* The saves of all accounts once a minute.
LEMMA TickGrows ==
    ASSUME IInv, NEW autosave \in BOOLEAN, OnTick(autosave)
    PROVE  Grows
<1>1. PICK now : now = [s \in Slot |-> LoggedIn(s)]
  OBVIOUS
<1>2. PICK S : S = IF autosave THEN Slot ELSE {}
  OBVIOUS
<1>3. now \in [Slot -> Player] /\ S \in SUBSET Slot
  BY <1>1, <1>2, LoggedInProps
<1>4. Save(now, S)
  BY <1>1, <1>2, Zenon DEF OnTick
<1>5. queue \in Seq(Job)
  BY DEF IInv, TypeOK
<1> QED
  BY ONLY <1>3, <1>4, <1>5, SaveGrows

\* OnTick: results are handed out, new clans and the list come to the cache.
LEMMA TickKeepsIInv ==
    ASSUME IInv, NEW autosave \in BOOLEAN, OnTick(autosave)
    PROVE  IInv'
<1> USE DEF IInv
<1>1. PICK leaders : leaders = [k \in 1..Len(creates) |-> [s \in Slot |-> LoggedIn(s)][creates[k].slot].id]
  OBVIOUS
<1>2. PICK known : known = cache \o NewClans(leaders)
  OBVIOUS
<1>3. logins \in Seq(LoginResult) /\ creates \in Seq(CreateResult) /\ counts \in Seq(CountResult)
  BY DEF TypeOK, LoginResult, CreateResult, CountResult
<1>4. \A k \in 1..Len(creates) : leaders[k] \in AccountId
  <2>1. ASSUME NEW k \in 1..Len(creates) PROVE leaders[k] \in AccountId
    <3>1. creates[k].slot \in Slot
      <4>1. creates[k] \in CreateResult
        BY <1>3, ElementOfSeq
      <4> QED
        BY <4>1 DEF CreateResult
    <3>2. LoggedIn(creates[k].slot).id \in AccountId
      BY <3>1, LoggedInProps DEF Player
    <3> QED
      BY <1>1, <3>1, <3>2
  <2> QED
    BY <2>1
<1>5. cache \o Pick([k \in 1..Len(creates) |->
          NewClan(creates[k].clan, creates[k].name, [s \in Slot |-> LoggedIn(s)][creates[k].slot].id)], Founded) = known
  <2>1. [k \in 1..Len(creates) |->
            NewClan(creates[k].clan, creates[k].name, [s \in Slot |-> LoggedIn(s)][creates[k].slot].id)]
          = [k \in 1..Len(creates) |-> NewClan(creates[k].clan, creates[k].name, leaders[k])]
    BY <1>1
  <2> QED
    BY <1>2, <2>1, Zenon DEF NewClans
<1>6. /\ ~shutdown
      /\ players' = [s \in Slot |-> Invited(Leads(LoggedIn(s), s), s, known)]
      /\ logins' = Rest(logins, Handled(Ready(logins)))
      /\ creates' = Rest(creates, Handled(Ready(creates)))
      /\ counts' = Rest(counts, Handled(CountReady))
      /\ load.state = "done" => cache' = load.data /\ load' = NoLoad
      /\ load.state # "done" => cache' = known /\ load' = load
      /\ Save([s \in Slot |-> LoggedIn(s)], IF autosave THEN Slot ELSE {})
      /\ clans' = clans /\ userClan' = userClan /\ userLang' = userLang /\ strays' = strays
      /\ shutdown' = shutdown /\ faults' = faults
  <2>1. /\ ~shutdown
        /\ players' = [s \in Slot |-> Invited(Leads([t \in Slot |-> LoggedIn(t)][s], s), s, known)]
        /\ logins' = Rest(logins, Handled(Ready(logins)))
        /\ creates' = Rest(creates, Handled(Ready(creates)))
        /\ counts' = Rest(counts, Handled(CountReady))
        /\ IF load.state = "done" THEN cache' = load.data /\ load' = NoLoad
                                  ELSE cache' = known /\ load' = load
        /\ Save([s \in Slot |-> LoggedIn(s)], IF autosave THEN Slot ELSE {})
        /\ UNCHANGED <<tables, shutdown, faults>>
    BY <1>5, Zenon DEF OnTick
  <2>2. [s \in Slot |-> Invited(Leads([t \in Slot |-> LoggedIn(t)][s], s), s, known)]
          = [s \in Slot |-> Invited(Leads(LoggedIn(s), s), s, known)]
    OBVIOUS
  <2> QED
    BY <2>1, <2>2, Zenon DEF tables
<1>28. Grows
  BY TickGrows
<1>7. /\ load' = IF load.state = "done" THEN NoLoad ELSE load
      /\ load.state \in {"none", "pending", "done"} /\ load.data \in Seq(Clan)
      /\ load'.state = IF load.state = "pending" THEN "pending" ELSE "none"
  <2>1. load \in [state : {"none", "pending", "done"}, data : Seq(Clan)]
    BY DEF TypeOK
  <2> QED
    BY <1>6, <2>1 DEF NoLoad
<1>8. /\ players' \in [Slot -> Player]
      /\ \A s \in Slot : /\ Sane(players'[s].id, players'[s].clan) /\ players'[s].invite \in 0..Len(clans)
                         /\ ~players'[s].here => players'[s] = Nobody
                         /\ load.state = "pending" => players'[s] = players[s]
  BY <1>6, TickPlayers
<1>9. /\ known \in Seq(Clan)
      /\ creates = << >> => Len(known) = Len(cache)
      /\ \A j, k \in 1..Len(known) : known[j].id = known[k].id => j = k
      /\ \A k \in 1..Len(known) :
            /\ known[k].id \in 1..Len(clans) /\ clans[known[k].id].name = known[k].name
            /\ \/ \E j \in 1..Len(cache) : known[k].id = cache[j].id
               \/ \E j \in Founded : known[k].id = creates[j].clan
      /\ \A j \in 1..Len(cache) : \E k \in 1..Len(known) : known[k].id = cache[j].id
      /\ \A j \in Founded : \E k \in 1..Len(known) : known[k].id = creates[j].clan
  <2>1. Grown(known)
    BY <1>2, <1>4, GrownProps
  <2> QED
    BY <2>1, Zenon DEF Grown
<1>10. /\ logins' \in Seq(LoginResult)
       /\ \A k \in 1..Len(logins') : \E j \in 1..Len(logins) : logins'[k] = logins[j]
  <2>1. PICK at : at = Handled(Ready(logins))
    OBVIOUS
  <2>2. at \in SUBSET (1..Len(logins)) /\ logins' = Rest(logins, at)
    BY <1>3, <1>6, <2>1, ReadyProps
  <2>3. Left(LoginResult, logins, at, logins')
    BY <1>3, <2>2, RestProps
  <2> QED
    BY <2>3 DEF Left
<1>11. /\ counts' \in Seq(CountResult)
       /\ \A k \in 1..Len(counts') : \E j \in 1..Len(counts) : counts'[k] = counts[j]
  <2>1. PICK at : at = Handled(CountReady)
    OBVIOUS
  <2>2. at \in SUBSET (1..Len(counts)) /\ counts' = Rest(counts, at)
    BY <1>3, <1>6, <2>1, CountReadyProps
  <2>3. Left(CountResult, counts, at, counts')
    BY <1>3, <2>2, RestProps
  <2> QED
    BY <2>3 DEF Left
<1>12. /\ creates' \in Seq(CreateResult)
       /\ \E up \in [1..Len(creates') -> (1..Len(creates)) \ Handled(Ready(creates))] :
             /\ \A i, j \in 1..Len(creates') : i < j => up[i] < up[j]
             /\ \A k \in (1..Len(creates)) \ Handled(Ready(creates)) : \E i \in 1..Len(creates') : up[i] = k
             /\ \A i \in 1..Len(creates') : creates'[i] = creates[up[i]]
  <2>1. PICK at : at = Handled(Ready(creates))
    OBVIOUS
  <2>2. at \in SUBSET (1..Len(creates)) /\ creates' = Rest(creates, at)
    BY <1>3, <1>6, <2>1, ReadyProps
  <2>3. Left(CreateResult, creates, at, creates')
    BY <1>3, <2>2, RestProps
  <2> QED
    BY <2>1, <2>3, Zenon DEF Left
<1>13. PICK up \in [1..Len(creates') -> (1..Len(creates)) \ Handled(Ready(creates))] :
             /\ \A i, j \in 1..Len(creates') : i < j => up[i] < up[j]
             /\ \A k \in (1..Len(creates)) \ Handled(Ready(creates)) : \E i \in 1..Len(creates') : up[i] = k
             /\ \A i \in 1..Len(creates') : creates'[i] = creates[up[i]]
  BY <1>12
<1>14. load.state # "none" => creates = << >> /\ counts = << >> /\ cache = << >>
  BY DEF ListFirst
<1>15. /\ creates = << >> => creates' = << >>
       /\ counts = << >> => counts' = << >>
  <2>1. ASSUME creates = << >> PROVE creates' = << >>
    <3>1. Len(creates') \in Nat
      BY <1>12, LenProperties
    <3>2. ~(1 \in 1..Len(creates'))
      <4>1. 1..Len(creates) = {}
        BY <2>1
      <4> QED
        BY <1>13, <4>1
    <3>3. Len(creates') = 0
      BY <3>1, <3>2
    <3> QED
      BY <1>12, <3>3, EmptySeq
  <2>2. ASSUME counts = << >> PROVE counts' = << >>
    <3>1. Len(counts') \in Nat
      BY <1>11, LenProperties
    <3>2. ~(1 \in 1..Len(counts'))
      <4>1. 1..Len(counts) = {}
        BY <2>2
      <4> QED
        BY <1>11, <4>1
    <3>3. Len(counts') = 0
      BY <3>1, <3>2
    <3> QED
      BY <1>11, <3>3, EmptySeq
  <2> QED
    BY <2>1, <2>2
<1>16. Founded \subseteq Handled(Ready(creates)) /\ Founded \subseteq Created
  BY <1>3, ReadyProps DEF Founded, Created
<1>17. \A k \in Created' : up[k] \in Created \ Founded /\ creates'[k] = creates[up[k]] /\ k \in 1..Len(creates')
  <2>1. ASSUME NEW k \in Created'
        PROVE  up[k] \in Created \ Founded /\ creates'[k] = creates[up[k]] /\ k \in 1..Len(creates')
    <3>1. k \in 1..Len(creates') /\ creates'[k].state = "successful"
      BY DEF Created
    <3>2. creates'[k] = creates[up[k]] /\ up[k] \in 1..Len(creates) /\ up[k] \notin Handled(Ready(creates))
      BY <1>13, <3>1
    <3> QED
      BY <1>16, <3>1, <3>2 DEF Created
  <2> QED
    BY <2>1
<1>18. TypeOK'
  <2>1. cache' \in Seq(Clan)
    BY <1>6, <1>7, <1>9
  <2>2. load' \in [state : {"none", "pending", "done"}, data : Seq(Clan)]
    <3>1. load \in [state : {"none", "pending", "done"}, data : Seq(Clan)]
      BY DEF TypeOK
    <3>2. << >> \in Seq(Clan)
      BY EmptySeq
    <3>3. NoLoad \in [state : {"none", "pending", "done"}, data : Seq(Clan)]
      BY <3>2 DEF NoLoad
    <3> QED
      BY <1>7, <3>1, <3>3, Zenon
  <2> QED
    BY <1>6, <1>8, <1>10, <1>11, <1>12, <1>28, <2>1, <2>2, Zenon
       DEF TypeOK, Grows, LoginResult, CreateResult, CountResult
<1>19. Rows'
  <2>1. /\ \A k \in 1..Len(logins') : Sane(logins'[k].id, logins'[k].clan)
        /\ \A k \in 1..Len(counts') : counts'[k].clan \in 0..Len(clans)
    BY <1>10, <1>11 DEF Rows
  <2> QED
    BY <1>6, <1>8, <2>1, Zenon DEF Rows, Sane
<1>20. UniqueClanNames'
  BY <1>6, Zenon DEF UniqueClanNames
<1>21. ListOfRows'
  <2>1. CASE load' = load
    BY <1>6, <2>1, Zenon DEF ListOfRows
  <2>2. CASE load' = NoLoad
    <3>1. Len(clans) \in Nat
      BY LenProperties DEF TypeOK
    <3> QED
      BY <1>6, <2>2, <3>1 DEF ListOfRows, NoLoad
  <2> QED
    BY <1>7, <2>1, <2>2
<1>22. CacheAgrees'
  <2>1. CASE cache' = known
    BY <1>6, <1>9, <2>1, Zenon DEF CacheAgrees
  <2>2. CASE cache' = load.data
    <3>1. Len(load.data) \in Nat /\ Len(clans) \in Nat
      BY <1>7, LenProperties DEF TypeOK
    <3>2. \A k \in 1..Len(load.data) :
             k \in 1..Len(clans) /\ load.data[k].id = k /\ load.data[k].name = clans[k].name
      BY <3>1 DEF ListOfRows
    <3> QED
      BY <1>6, <2>2, <3>2 DEF CacheAgrees
  <2> QED
    BY <1>6, <2>1, <2>2
<1>23. CreatedOnce'
  <2>1. \A k \in Created' : /\ creates'[k].clan \in 1..Len(clans)
                            /\ clans[creates'[k].clan].name = creates'[k].name
    BY <1>17 DEF CreatedOnce
  <2>2. ASSUME NEW j \in Created', NEW k \in Created', creates'[j].clan = creates'[k].clan
        PROVE  j = k
    <3>1. up[j] = up[k]
      BY <1>17, <2>2 DEF CreatedOnce
    <3>2. j \in Nat /\ k \in Nat /\ up[j] \in Nat /\ up[k] \in Nat
      BY <1>3, <1>12, <1>17, LenProperties DEF Created
    <3>3. ~(j < k) /\ ~(k < j)
      BY <1>13, <1>17, <3>1, <3>2
    <3> QED
      BY <3>2, <3>3
  <2>3. ASSUME NEW j \in 1..Len(cache'), NEW k \in Created' PROVE cache'[j].id # creates'[k].clan
    <3>1. up[k] \in Created /\ up[k] \notin Founded /\ creates'[k] = creates[up[k]]
      BY <1>17
    <3>2. load.state = "none"
      <4>1. creates # << >>
        BY <3>1 DEF Created
      <4> QED
        BY <4>1, <1>14
    <3>3. cache' = known
      BY <1>6, <3>2
    <3>4. CASE \E i \in 1..Len(cache) : known[j].id = cache[i].id
      BY <3>1, <3>3, <3>4 DEF CreatedOnce
    <3>5. CASE \E i \in Founded : known[j].id = creates[i].clan
      <4>1. PICK i \in Founded : known[j].id = creates[i].clan
        BY <3>5
      <4>2. i \in Created /\ i # up[k]
        BY <1>16, <3>1
      <4> QED
        BY <3>1, <3>3, <4>1, <4>2 DEF CreatedOnce
    <3> QED
      BY <1>9, <3>3, <3>4, <3>5
  <2> QED
    BY <1>6, <2>1, <2>2, <2>3, Zenon DEF CreatedOnce
<1>24. ListFirst'
  <2>1. \A s \in Slot : players'[s].loggedIn \/ players'[s].clan # 0 \/ players'[s].invite # 0 => load'.state = "none"
    BY <1>7, <1>8 DEF ListFirst
  <2>2. creates' # << >> \/ counts' # << >> => load'.state = "none"
    BY <1>7, <1>14, <1>15
  <2>3. load'.state = "pending" => \A k \in 1..Len(logins') : logins'[k].state # "successful"
    BY <1>7, <1>10 DEF ListFirst
  <2>4. load'.state # "none" => cache' = << >>
    <3>1. ASSUME load'.state # "none" PROVE cache' = << >>
      <4>1. load.state = "pending" /\ cache' = known /\ cache = << >> /\ creates = << >>
        BY <1>6, <1>7, <1>14, <3>1
      <4>2. Len(known) = 0
        BY <1>9, <4>1
      <4> QED
        BY <1>9, <4>1, <4>2, EmptySeq
    <3> QED
      BY <3>1
  <2> QED
    BY <2>1, <2>2, <2>3, <2>4, Zenon DEF ListFirst
<1>25. Closed'
  BY <1>6, <1>8 DEF Closed
<1>26. \E p \in 0..Len(queue') : Aligned(p)'
  BY <1>6, <1>7, <1>28, TickAligned
<1>27. AllKnown'
  <2>1. SUFFICES ASSUME faults = 0
                 PROVE  /\ load'.state = "none" => \A i \in 1..Len(clans) : Known(i)'
                        /\ load'.state # "done"
    BY <1>6, Zenon DEF AllKnown
  <2>2. ASSUME load.state = "done", NEW i \in 1..Len(clans) PROVE Known(i)'
    <3>1. i \in 1..Len(load.data) /\ load.data[i].id = i
      BY <1>6, <2>1, <2>2 DEF AllKnown, ListOfRows
    <3>2. GetClan(cache', i) # 0
      BY <1>6, <1>7, <2>2, <3>1, GetClanProps
    <3> QED
      BY <3>2 DEF Known
  <2>3. ASSUME load.state = "none", NEW i \in 1..Len(clans) PROVE Known(i)'
    <3>1. Known(i) /\ cache' = known
      BY <1>6, <2>1, <2>3 DEF AllKnown
    <3>2. CASE \E k \in 1..Len(known) : known[k].id = i
      <4>1. GetClan(cache', i) # 0
        BY <1>9, <3>1, <3>2, GetClanProps
      <4> QED
        BY <4>1 DEF Known
    <3>3. CASE GetClan(cache, i) # 0
      <4>1. PICK j \in 1..Len(cache) : cache[j].id = i
        BY <3>3, GetClanProps DEF TypeOK
      <4> QED
        BY <1>9, <3>2, <4>1
    <3>4. CASE \E k \in 1..Len(creates) : creates[k].state = "successful" /\ creates[k].clan = i
      <4>1. PICK k \in 1..Len(creates) : creates[k].state = "successful" /\ creates[k].clan = i
        BY <3>4
      <4>2. CASE k \in Founded
        BY <1>9, <3>2, <4>1, <4>2
      <4>3. CASE k \notin Founded
        <5>1. k \notin Handled(Ready(creates))
          BY <4>1, <4>3 DEF Founded
        <5>2. PICK j \in 1..Len(creates') : up[j] = k
          BY <1>13, <5>1
        <5>3. creates'[j].state = "successful" /\ creates'[j].clan = i
          BY <1>13, <4>1, <5>2
        <5> QED
          BY <5>3 DEF Known
      <4> QED
        BY <4>2, <4>3
    <3> QED
      BY <3>1, <3>3, <3>4 DEF Known
  <2> QED
    BY <1>7, <2>2, <2>3
<1> QED
  BY <1>6, <1>18, <1>19, <1>20, <1>21, <1>22, <1>23, <1>24, <1>25, <1>26, <1>27
-----------------------------------------------------------------------------
LEMMA NothingPending == Pending(<< >>) = {} /\ Matched(<< >>, {}, << >>)
<1>1. Pending(<< >>) = {}
  BY DEF Pending
<1>2. << >> \in [{} -> {}]
  OBVIOUS
<1> QED
  BY <1>1, <1>2, Zenon DEF Matched

LEMMA NobodyIsPlayer == Nobody \in Player /\ [Nobody EXCEPT !.here = TRUE] \in Player
<1>1. 0 \in AccountId /\ 0 \in ClanId /\ 0 \in Number
  BY ClansAssumption DEF AccountId, ClanId, Number
<1> QED
  BY <1>1 DEF Nobody, Player

LEMMA InitIInv == Init => IInv
<1> SUFFICES ASSUME Init PROVE IInv
  OBVIOUS
<1> USE DEF Init
<1>1. /\ clans \in Seq(Clan) /\ Len(clans) <= MaxClans /\ Len(clans) \in {0, 1}
      /\ \A i \in 1..Len(clans) : clans[i].id = i
      /\ userClan \in [AccountId -> 0..Len(clans)]
  <2>1. CASE clans = << >> /\ userClan = [i \in AccountId |-> 0]
    BY <2>1, ClansAssumption, EmptySeq
  <2>2. CASE \E n \in ClanName, i \in Account :
                /\ clans = <<NewClan(1, n, i)>>
                /\ userClan = [j \in AccountId |-> IF j = i THEN 1 ELSE 0]
    <3>1. PICK n \in ClanName, i \in Account :
                /\ clans = <<NewClan(1, n, i)>>
                /\ userClan = [j \in AccountId |-> IF j = i THEN 1 ELSE 0]
      BY <2>2
    <3>2. [u \in Upgrades |-> IF u = "max_num" THEN 2 ELSE 0] \in [Upgrades -> Nat]
      OBVIOUS
    <3>3. 1 \in ClanId \ {0} /\ i \in AccountId
      BY ClansAssumption DEF ClanId, AccountId
    <3>4. NewClan(1, n, i) \in Clan /\ NewClan(1, n, i).id = 1
      BY <3>2, <3>3 DEF NewClan, Clan
    <3> QED
      BY <3>1, <3>4, ClansAssumption
  <2> QED
    BY <2>1, <2>2
<1>2. LoadJob \in Job /\ MaxJobs \in Nat /\ MaxJobs >= 1 /\ MaxFaults \in Nat
  BY ClansAssumption DEF LoadJob, Job
<1>3. << >> \in Seq(Clan) /\ << >> \in Seq(LoginResult) /\ << >> \in Seq(CreateResult) /\ << >> \in Seq(CountResult)
  BY EmptySeq
<1>4. load.state = "pending" /\ load.data = << >> /\ load = [state |-> "pending", data |-> << >>]
  BY DEF NoLoad
<1>5. TypeOK
  <2>1. players \in [Slot -> Player]
    BY NobodyIsPlayer
  <2>2. queue \in Seq(Job) /\ Len(queue) <= MaxJobs
    BY <1>2
  <2>3. load \in [state : {"none", "pending", "done"}, data : Seq(Clan)]
    BY <1>3, <1>4
  <2>4. userClan \in [AccountId -> Number] /\ userLang \in [AccountId -> Number] /\ strays \subseteq Account
    <3>1. 0..Len(clans) \subseteq Number
      BY <1>1, ClansAssumption DEF ClanId, Number
    <3> QED
      BY <1>1, <3>1 DEF Number
  <2>5. shutdown \in BOOLEAN
    OBVIOUS
  <2>6. faults \in 0..MaxFaults
    BY <1>2
  <2> QED
    BY <1>1, <1>3, <2>1, <2>2, <2>3, <2>4, <2>5, <2>6, Zenon DEF TypeOK, LoginResult, CreateResult, CountResult
<1>6. Rows
  <2>1. \A s \in Slot : players[s].clan = 0 /\ players[s].invite = 0
    BY DEF Nobody
  <2> QED
    BY <1>1, <2>1 DEF Rows, Sane
<1>7. UniqueClanNames /\ ListOfRows /\ CreatedOnce /\ CacheAgrees
  BY <1>1, <1>4 DEF UniqueClanNames, ListOfRows, CreatedOnce, Created, CacheAgrees
<1>8. ListFirst /\ Closed
  BY <1>4 DEF ListFirst, Closed, Nobody
<1>9. Aligned(1)
  <2>1. queue = <<LoadJob>> /\ Len(queue) = 1 /\ queue[1].kind = "load"
    BY DEF LoadJob
  <2>2. \A kind : Jobs(queue, kind, 1) = {}
    BY <2>1 DEF Jobs
  <2>3. Mark(1)
    BY <1>4, <2>1, <2>2 DEF Mark
  <2>4. << >> \in [{} -> {}]
    OBVIOUS
  <2> QED
    BY <2>2, <2>3, <2>4, NothingPending, Zenon DEF Aligned
<1>10. 1 \in 0..Len(queue)
  OBVIOUS
<1>11. AllKnown
  BY <1>4 DEF AllKnown
<1> QED
  BY <1>5, <1>6, <1>7, <1>8, <1>9, <1>10, <1>11, Zenon DEF IInv

\* A change of the map: nothing but the rows and the queue is left.
LEMMA ReloadKeepsIInv ==
    ASSUME IInv, Reload
    PROVE  IInv'
<1> USE DEF Reload
<1>1. queue \in Seq(Job) /\ Len(queue) \in Nat /\ MaxJobs \in Nat /\ cache \in Seq(Clan)
  BY ClansAssumption, LenProperties DEF IInv, TypeOK
<1>0. PICK n : n = Len(queue) + 2
  OBVIOUS
<1>2. SaveJob(cache) \in Job /\ LoadJob \in Job
  BY <1>1 DEF SaveJob, LoadJob, Job
<1>3. /\ queue' \in Seq(Job) /\ Len(queue') = n /\ queue'[n] = LoadJob
  <2>1. <<SaveJob(cache), LoadJob>> \in Seq(Job)
    BY <1>2
  <2>2. Len(<<SaveJob(cache), LoadJob>>) = 2 /\ <<SaveJob(cache), LoadJob>>[2] = LoadJob
    OBVIOUS
  <2>3. PICK two : two = <<SaveJob(cache), LoadJob>>
    OBVIOUS
  <2>4. two \in Seq(Job) /\ Len(two) = 2 /\ two[2] = LoadJob /\ queue' = queue \o two
    BY <2>1, <2>2, <2>3
  <2>5. /\ queue' \in Seq(Job) /\ Len(queue') = n
        /\ \A i \in 1..n : queue'[i] = IF i <= Len(queue) THEN queue[i] ELSE two[i - Len(queue)]
    BY <1>0, <1>1, <2>4, ConcatProperties
  <2>6. n \in 1..n /\ ~(n <= Len(queue)) /\ n - Len(queue) = 2
    BY <1>0, <1>1
  <2> QED
    BY <2>4, <2>5, <2>6
<1>4. << >> \in Seq(Clan) /\ << >> \in Seq(LoginResult) /\ << >> \in Seq(CreateResult) /\ << >> \in Seq(CountResult)
  BY EmptySeq
<1>5. load'.state = "pending" /\ load'.data = << >> /\ load' = [state |-> "pending", data |-> << >>]
  BY DEF NoLoad
<1>6. /\ clans' = clans /\ userClan' = userClan /\ userLang' = userLang /\ strays' = strays
      /\ shutdown' = shutdown /\ faults' = faults /\ ~shutdown
  BY DEF tables
<1>7. TypeOK'
  <2>1. players' \in [Slot -> Player]
    BY NobodyIsPlayer
  <2>2. Len(queue') <= MaxJobs
    BY <1>0, <1>3
  <2>3. load' \in [state : {"none", "pending", "done"}, data : Seq(Clan)]
    BY <1>4, <1>5
  <2>4. /\ clans \in Seq(Clan) /\ Len(clans) <= MaxClans /\ userClan \in [AccountId -> Number]
        /\ userLang \in [AccountId -> Number] /\ strays \subseteq Account
        /\ shutdown \in BOOLEAN /\ faults \in 0..MaxFaults
    BY DEF IInv, TypeOK
  <2> QED
    BY <1>3, <1>4, <1>6, <2>1, <2>2, <2>3, <2>4, Zenon DEF TypeOK, LoginResult, CreateResult, CountResult
<1>8. Rows'
  <2>1. \A s \in Slot : players'[s].clan = 0 /\ players'[s].invite = 0
    BY DEF Nobody
  <2>2. Len(clans) \in Nat
    BY LenProperties DEF IInv, TypeOK
  <2> QED
    BY <1>6, <2>1, <2>2 DEF IInv, Rows, Sane
<1>9. UniqueClanNames' /\ ListOfRows' /\ CreatedOnce' /\ CacheAgrees'
  <2>1. Len(clans) \in Nat
    BY LenProperties DEF IInv, TypeOK
  <2>2. UniqueClanNames'
    BY <1>6, Zenon DEF IInv, UniqueClanNames
  <2> QED
    BY <1>5, <1>6, <2>1, <2>2 DEF ListOfRows, CreatedOnce, Created, CacheAgrees
<1>10. ListFirst' /\ Closed'
  BY <1>5, <1>6 DEF ListFirst, Closed, Nobody
<1>11. Aligned(n)'
  <2>1. \A kind : Jobs(queue', kind, n) = {}
    BY <1>0, <1>1, <1>3 DEF Jobs
  <2>2. n \in 0..Len(queue') /\ n # 0
    BY <1>0, <1>1, <1>3
  <2>3. queue'[n].kind = "load"
    BY <1>3 DEF LoadJob
  <2>4. << >> \in [{} -> {}]
    OBVIOUS
  <2>5. logins' = << >> /\ creates' = << >>
    OBVIOUS
  <2>6. Mark(n)'
    BY <1>5, <2>1, <2>2, <2>3, Zenon DEF Mark
  <2> QED
    BY <2>1, <2>4, <2>5, <2>6, NothingPending, Zenon DEF Aligned
<1>12. n \in 0..Len(queue')
  BY <1>0, <1>1, <1>3
<1>13. AllKnown'
  BY <1>5 DEF AllKnown
<1> QED
  BY <1>7, <1>8, <1>9, <1>10, <1>11, <1>12, <1>13, Zenon DEF IInv

LEMMA ShutdownKeepsIInv ==
    ASSUME IInv, Shutdown
    PROVE  IInv'
<1> USE DEF Shutdown
<1>1. queue \in Seq(Job) /\ Len(queue) \in Nat /\ MaxJobs \in Nat /\ cache \in Seq(Clan)
  BY ClansAssumption, LenProperties DEF IInv, TypeOK
<1>2. queue' \in Seq(Job) /\ Len(queue') <= MaxJobs
  <2>1. SaveJob(cache) \in Job
    BY <1>1 DEF SaveJob, Job
  <2>2. queue' \in Seq(Job) /\ Len(queue') = Len(queue) + 1
    BY <1>1, <2>1, AppendProperties
  <2> QED
    BY <1>1, <2>2 DEF Room
<1>3. << >> \in Seq(Clan) /\ << >> \in Seq(LoginResult) /\ << >> \in Seq(CreateResult) /\ << >> \in Seq(CountResult)
  BY EmptySeq
<1>4. /\ players' = players /\ clans' = clans /\ userClan' = userClan
      /\ userLang' = userLang /\ strays' = strays /\ shutdown' = TRUE /\ faults' = faults
      /\ load'.state = "none" /\ load'.data = << >> /\ load' = [state |-> "none", data |-> << >>]
  BY DEF tables, NoLoad
<1>5. TypeOK'
  <2>1. load' \in [state : {"none", "pending", "done"}, data : Seq(Clan)]
    BY <1>3, <1>4
  <2>2. /\ players \in [Slot -> Player] /\ clans \in Seq(Clan) /\ Len(clans) <= MaxClans
        /\ userClan \in [AccountId -> Number]
        /\ userLang \in [AccountId -> Number] /\ strays \subseteq Account /\ faults \in 0..MaxFaults
    BY DEF IInv, TypeOK
  <2>3. shutdown' \in BOOLEAN
    BY <1>4
  <2> QED
    BY <1>2, <1>3, <1>4, <2>1, <2>2, <2>3, Zenon DEF TypeOK, LoginResult, CreateResult, CountResult
<1>6. Len(clans) \in Nat
  BY LenProperties DEF IInv, TypeOK
<1>7. Rows'
  BY <1>4, <1>6 DEF IInv, Rows, Sane
<1>8. UniqueClanNames' /\ ListOfRows' /\ CreatedOnce' /\ CacheAgrees'
  <2>1. UniqueClanNames'
    BY <1>4, Zenon DEF IInv, UniqueClanNames
  <2> QED
    BY <1>4, <1>6, <2>1 DEF ListOfRows, CreatedOnce, Created, CacheAgrees
<1>9. ListFirst' /\ Closed'
  BY <1>4 DEF IInv, ListFirst, Closed
<1>10. AllKnown'
  BY <1>4 DEF AllKnown
<1> QED
  BY <1>4, <1>5, <1>7, <1>8, <1>9, <1>10, Zenon DEF IInv
-----------------------------------------------------------------------------
\* The steps of one player.
LEMMA PlayersKeepIInv ==
    ASSUME IInv, NEW s \in Slot, Connect(s) \/ Drop(s) \/ LeaveClan(s) \/ AcceptInvite(s) \/ InviteEnds(s) \/ LevelUp(s)
                             \/ \E l \in Langs : ChatLang(s, l)
    PROVE  IInv'
<1>1. /\ players \in [Slot -> Player] /\ players[s] \in Player
      /\ Sane(players[s].id, players[s].clan) /\ players[s].invite \in 0..Len(clans)
      /\ players[s].loggedIn \/ players[s].clan # 0 \/ players[s].invite # 0 => load.state = "none"
      /\ ~players[s].here => players[s] = Nobody
      /\ Len(clans) \in Nat /\ 0 \in 0..Len(clans)
      /\ queue \in Seq(Job) /\ Len(queue) <= MaxJobs
  BY LenProperties DEF IInv, TypeOK, Rows, ListFirst, Closed
<1>9. 0 \in ClanId /\ 0 \in Number /\ ClanId \subseteq Number /\ Langs \subseteq Number
  BY ClansAssumption DEF ClanId, Number
<1>10. queue' = queue => Grows
  BY <1>1, SameGrows
<1>11. ASSUME Save(players, {s}) PROVE Grows
  BY <1>1, <1>11, SaveGrows
<1>2. /\ Nobody.clan = 0 /\ Nobody.invite = 0 /\ ~Nobody.loggedIn /\ ~Nobody.here
  BY DEF Nobody
<1>3. CASE Connect(s)
  <2>1. PICK q : q = [Nobody EXCEPT !.here = TRUE]
    OBVIOUS
  <2>2. q \in Player /\ q.clan = 0 /\ q.invite = 0 /\ ~q.loggedIn /\ q.here
    BY <2>1, NobodyIsPlayer DEF Nobody
  <2>3. /\ ~shutdown /\ players' = [players EXCEPT ![s] = q]
        /\ Grows /\ UNCHANGED <<cache, requests, tables, shutdown, faults>>
    BY <1>3, <1>10, <2>1 DEF Connect
  <2>9. /\ q \in Player /\ Sane(q.id, q.clan) /\ q.invite \in 0..Len(clans)
        /\ q.loggedIn \/ q.clan # 0 \/ q.invite # 0 => load.state = "none"
        /\ ~q.here => q = Nobody
    BY <1>1, <2>2, <2>3 DEF Sane
  <2> QED
    BY ONLY IInv, s \in Slot, <2>3, <2>9, PlayerKeepsIInv
<1>4. CASE Drop(s)
  <2>1. /\ ~shutdown /\ players' = [players EXCEPT ![s] = Nobody]
        /\ Grows /\ UNCHANGED <<cache, requests, tables, shutdown, faults>>
    BY <1>4, <1>11 DEF Drop
  <2>9. /\ Nobody \in Player /\ Sane(Nobody.id, Nobody.clan) /\ Nobody.invite \in 0..Len(clans)
        /\ Nobody.loggedIn \/ Nobody.clan # 0 \/ Nobody.invite # 0 => load.state = "none"
        /\ ~Nobody.here => Nobody = Nobody
    BY <1>1, <1>2, NobodyIsPlayer DEF Sane
  <2> QED
    BY ONLY IInv, s \in Slot, <2>1, <2>9, PlayerKeepsIInv
<1>5. CASE LeaveClan(s)
  <2>1. PICK q : q = [players[s] EXCEPT !.clan = 0]
    OBVIOUS
  <2>2. /\ q \in Player /\ q.clan = 0 /\ q.invite = players[s].invite
        /\ q.loggedIn = players[s].loggedIn /\ q.here = players[s].here
    BY <1>1, <1>9, <2>1 DEF Player
  <2>3. /\ ~shutdown /\ players[s].here /\ players' = [players EXCEPT ![s] = q]
        /\ Grows /\ UNCHANGED <<cache, requests, tables, shutdown, faults>>
    BY <1>5, <1>10, <2>1 DEF LeaveClan
  <2>9. /\ q \in Player /\ Sane(q.id, q.clan) /\ q.invite \in 0..Len(clans)
        /\ q.loggedIn \/ q.clan # 0 \/ q.invite # 0 => load.state = "none"
        /\ ~q.here => q = Nobody
    BY <1>1, <2>2, <2>3 DEF Sane
  <2> QED
    BY ONLY IInv, s \in Slot, <2>3, <2>9, PlayerKeepsIInv
<1>6. CASE AcceptInvite(s)
  <2>1. PICK q : q = [players[s] EXCEPT !.clan = players[s].invite]
    OBVIOUS
  <2>2. /\ q \in Player /\ q.clan = players[s].invite /\ q.invite = players[s].invite
        /\ q.loggedIn = players[s].loggedIn /\ q.here = players[s].here
    BY <1>1, <1>9, <2>1 DEF Player
  <2>4. players' = [players EXCEPT ![s] = q] /\ Save(players', {s})
    BY <1>6, <2>1 DEF AcceptInvite
  <2>5. PICK p : p = players'
    OBVIOUS
  <2>6. p \in [Slot -> Player] /\ {s} \in SUBSET Slot /\ Save(p, {s})
    BY <1>1, <2>2, <2>4, <2>5
  <2>7. Grows
    BY <1>1, <2>6, SaveGrows
  <2>3. /\ ~shutdown /\ players[s].here /\ players' = [players EXCEPT ![s] = q]
        /\ Grows /\ UNCHANGED <<cache, requests, tables, shutdown, faults>>
    BY <1>6, <2>4, <2>7 DEF AcceptInvite
  <2>9. /\ q \in Player /\ Sane(q.id, q.clan) /\ q.invite \in 0..Len(clans)
        /\ q.loggedIn \/ q.clan # 0 \/ q.invite # 0 => load.state = "none"
        /\ ~q.here => q = Nobody
    BY <1>1, <2>2, <2>3 DEF Sane
  <2> QED
    BY ONLY IInv, s \in Slot, <2>3, <2>9, PlayerKeepsIInv
<1>7. CASE InviteEnds(s)
  <2>1. PICK q : q = [players[s] EXCEPT !.invite = 0]
    OBVIOUS
  <2>2. /\ q \in Player /\ q.clan = players[s].clan /\ q.invite = 0 /\ q.id = players[s].id
        /\ q.loggedIn = players[s].loggedIn /\ q.here = players[s].here
    BY <1>1, <1>9, <2>1 DEF Player
  <2>3. /\ ~shutdown /\ players[s].invite # 0 /\ players' = [players EXCEPT ![s] = q]
        /\ Grows /\ UNCHANGED <<cache, requests, tables, shutdown, faults>>
    BY <1>7, <1>10, <2>1 DEF InviteEnds
  <2>4. players[s].here
    BY <1>1, <1>2, <2>3
  <2>9. /\ q \in Player /\ Sane(q.id, q.clan) /\ q.invite \in 0..Len(clans)
        /\ q.loggedIn \/ q.clan # 0 \/ q.invite # 0 => load.state = "none"
        /\ ~q.here => q = Nobody
    BY <1>1, <2>2, <2>4 DEF Sane
  <2> QED
    BY ONLY IInv, s \in Slot, <2>3, <2>9, PlayerKeepsIInv
<1>8. CASE LevelUp(s)
  <2>1. PICK q : q = players[s]
    OBVIOUS
  <2>2. players' = [players EXCEPT ![s] = q]
    BY <1>1, <1>8, <2>1 DEF LevelUp
  <2>3. ~shutdown /\ Grows /\ UNCHANGED <<cache, requests, tables, shutdown, faults>>
    BY <1>8, <1>11 DEF LevelUp
  <2>9. /\ q \in Player /\ Sane(q.id, q.clan) /\ q.invite \in 0..Len(clans)
        /\ q.loggedIn \/ q.clan # 0 \/ q.invite # 0 => load.state = "none"
        /\ ~q.here => q = Nobody
    BY <1>1, <2>1
  <2> QED
    BY ONLY IInv, s \in Slot, <2>2, <2>3, <2>9, PlayerKeepsIInv
<1>12. ASSUME NEW l \in Langs, ChatLang(s, l) PROVE IInv'
  <2>1. PICK q : q = [players[s] EXCEPT !.lang = l]
    OBVIOUS
  <2>2. /\ q \in Player /\ q.clan = players[s].clan /\ q.invite = players[s].invite /\ q.id = players[s].id
        /\ q.loggedIn = players[s].loggedIn /\ q.here = players[s].here
    BY <1>1, <1>9, <2>1 DEF Player
  <2>3. /\ ~shutdown /\ players[s].here /\ players' = [players EXCEPT ![s] = q]
        /\ Grows /\ UNCHANGED <<cache, requests, tables, shutdown, faults>>
    BY <1>10, <1>12, <2>1 DEF ChatLang
  <2>9. /\ q \in Player /\ Sane(q.id, q.clan) /\ q.invite \in 0..Len(clans)
        /\ q.loggedIn \/ q.clan # 0 \/ q.invite # 0 => load.state = "none"
        /\ ~q.here => q = Nobody
    BY <1>1, <2>2, <2>3
  <2> QED
    BY ONLY IInv, s \in Slot, <2>3, <2>9, PlayerKeepsIInv
<1> QED
  BY <1>3, <1>4, <1>5, <1>6, <1>7, <1>8, <1>12

\* The steps that ask the database for something.
LEMMA AsksKeepIInv ==
    ASSUME IInv,
           \/ \E s \in Slot, id \in Account : ChatLogin(s, id)
           \/ \E s \in Slot, n \in ClanName : CreateClan(s, n)
           \/ \E s, t \in Slot : SendClanInvite(s, t)
           \/ ConSaveClans
    PROVE  IInv'
<1>1. players \in [Slot -> Player] /\ cache \in Seq(Clan) /\ Len(clans) \in Nat /\ Len(clans) <= MaxClans
  BY LenProperties DEF IInv, TypeOK
<1>2. 0 \in ClanId /\ 0 \in Number /\ 0..Len(clans) \subseteq ClanId
  BY <1>1, ClansAssumption DEF ClanId, Number
<1>3. ASSUME NEW s \in Slot, NEW id \in Account, ChatLogin(s, id)
      PROVE  IInv'
  <2>1. PICK job : job = [kind |-> "login", id |-> id]
    OBVIOUS
  <2>2. PICK r : r = [slot |-> s, state |-> "pending", id |-> 0, clan |-> 0, lang |-> 0]
    OBVIOUS
  <2>3. job \in Job /\ job.kind = "login"
    BY <2>1 DEF Job
  <2>4. r \in LoginResult /\ r.state = "pending" /\ r.clan = 0
    BY <1>2, <2>2 DEF LoginResult, State, AccountId
  <2>5. /\ ~shutdown /\ Room /\ queue' = Append(queue, job) /\ logins' = Append(logins, r)
        /\ creates' = creates /\ counts' = counts
        /\ UNCHANGED <<players, cache, load, tables, shutdown, faults>>
    BY <1>3, <2>1, <2>2 DEF ChatLogin
  <2>6. AsksLogin(job)
    BY <2>3, <2>4, <2>5 DEF AsksLogin
  <2> QED
    BY <2>3, <2>5, <2>6, AskKeepsIInv
<1>4. ASSUME NEW s \in Slot, NEW n \in ClanName, CreateClan(s, n)
      PROVE  IInv'
  <2>1. PICK job : job = [kind |-> "create", name |-> n, leader |-> players[s].id]
    OBVIOUS
  <2>2. PICK r : r = [slot |-> s, state |-> "pending", name |-> n, clan |-> 0]
    OBVIOUS
  <2>3. /\ job \in Job /\ job.kind = "create" /\ job.name = n
    <3>1. players[s].id \in AccountId
      BY <1>1 DEF Player
    <3> QED
      BY <2>1, <3>1 DEF Job
  <2>4. r \in CreateResult /\ r.state = "pending" /\ r.name = n
    BY <1>2, <2>2 DEF CreateResult, State
  <2>5. /\ ~shutdown /\ players[s].loggedIn
        /\ Room /\ queue' = Append(queue, job) /\ creates' = Append(creates, r)
        /\ logins' = logins /\ counts' = counts
        /\ UNCHANGED <<players, cache, load, tables, shutdown, faults>>
    BY <1>4, <2>1, <2>2 DEF CreateClan, AskCreate
  <2>6. load.state = "none"
    BY <2>5 DEF IInv, ListFirst
  <2>7. AsksCreate(job)
    BY <2>3, <2>4, <2>5, <2>6 DEF AsksCreate
  <2> QED
    BY <2>3, <2>5, <2>7, AskKeepsIInv
<1>5. ASSUME NEW s \in Slot, NEW t \in Slot, SendClanInvite(s, t)
      PROVE  IInv'
  <2>1. PICK job : job = [kind |-> "count", clan |-> players[s].clan]
    OBVIOUS
  <2>2. PICK r : r = [from |-> s, to |-> t, state |-> "pending", clan |-> players[s].clan, members |-> 0]
    OBVIOUS
  <2>3. players[s].clan \in 0..Len(clans) /\ players[s].clan \in ClanId
    <3>1. PICK k : k = GetClan(cache, players[s].clan)
      OBVIOUS
    <3>2. k \in 1..Len(cache) /\ cache[k].id = players[s].clan
      BY <1>1, <1>5, <3>1, GetClanProps DEF SendClanInvite
    <3>3. cache[k].id \in 1..Len(clans)
      BY <3>2 DEF IInv, CacheAgrees
    <3> QED
      BY <1>1, <1>2, <3>2, <3>3
  <2>4. job \in Job /\ job.kind = "count"
    BY <2>1, <2>3 DEF Job
  <2>5. r \in CountResult /\ r.clan \in 0..Len(clans)
    BY <2>2, <2>3 DEF CountResult, State
  <2>6. /\ ~shutdown /\ players[s].loggedIn
        /\ Room /\ queue' = Append(queue, job) /\ counts' = Append(counts, r)
        /\ logins' = logins /\ creates' = creates
        /\ UNCHANGED <<players, cache, load, tables, shutdown, faults>>
    BY <1>5, <2>1, <2>2 DEF SendClanInvite
  <2>7. load.state = "none"
    BY <2>6 DEF IInv, ListFirst
  <2>8. AsksOther(job)
    BY <2>4, <2>5, <2>6, <2>7 DEF AsksOther
  <2> QED
    BY <2>4, <2>6, <2>8, AskKeepsIInv
<1>6. ASSUME ConSaveClans
      PROVE  IInv'
  <2>1. SaveJob(cache) \in Job /\ SaveJob(cache).kind = "save"
    BY <1>1 DEF SaveJob, Job
  <2>2. PICK job : job = SaveJob(cache)
    OBVIOUS
  <2>3. /\ ~shutdown /\ Room /\ queue' = Append(queue, job)
        /\ logins' = logins /\ creates' = creates /\ counts' = counts
        /\ UNCHANGED <<players, cache, load, tables, shutdown, faults>>
    BY <1>6, <2>2 DEF ConSaveClans, requests
  <2>4. job \in Job /\ AsksOther(job)
    BY <2>1, <2>2, <2>3 DEF AsksOther
  <2> QED
    BY <2>3, <2>4, AskKeepsIInv
<1> QED
  BY <1>3, <1>4, <1>5, <1>6

\* Paying in and buying.
LEMMA BusinessKeepsIInv ==
    ASSUME IInv, Business
    PROVE  IInv'
<1>1. cache \in Seq(Clan) /\ cache \in [1..Len(cache) -> Clan]
  BY LenProperties DEF IInv, TypeOK
<1>2. ASSUME NEW s \in Slot, NEW u \in Buyable, BuyUpgrade(s, u)
      PROVE  IInv'
  <2>1. PICK k : k = GetClan(cache, players[s].clan)
    OBVIOUS
  <2>2. PICK cost : cost = Price(u, cache[k].ups[u])
    OBVIOUS
  <2>3. /\ ~shutdown /\ k # 0
        /\ cache' = [cache EXCEPT ![k].bank = @ - cost, ![k].ups[u] = @ + 1]
        /\ UNCHANGED <<players, requests, queue, tables, shutdown, faults>>
    BY <1>2, <2>1, <2>2 DEF BuyUpgrade
  <2>4. k \in 1..Len(cache)
    BY <1>1, <2>1, <2>3, GetClanProps
  <2>5. cache[k] \in Clan /\ u \in Upgrades
    BY <1>1, <2>4, ClansAssumption
  <2>6. cost \in Int
    <3>1. cache[k].ups[u] \in Nat
      BY <2>5 DEF Clan
    <3>2. u \in {"max_num", "add_money", "add_exp", "spawn_house", "chairs"}
      BY <2>5 DEF Upgrades
    <3> QED
      BY <2>2, <3>1, <3>2 DEF Price
  <2>7. PICK c : c = [cache[k] EXCEPT !.bank = @ - cost, !.ups[u] = @ + 1]
    OBVIOUS
  <2>8. c \in Clan /\ c.id = cache[k].id /\ c.name = cache[k].name
    <3>1. PICK ups : ups = [cache[k].ups EXCEPT ![u] = @ + 1]
      OBVIOUS
    <3>2. cache[k].ups \in [Upgrades -> Nat] /\ cache[k].bank - cost \in Int
      BY <2>5, <2>6 DEF Clan
    <3>3. ups \in [Upgrades -> Nat]
      BY <2>5, <3>1, <3>2
    <3>4. c = [cache[k] EXCEPT !.bank = cache[k].bank - cost, !.ups = ups]
      BY <2>5, <2>7, <3>1 DEF Clan
    <3> QED
      BY <2>5, <3>2, <3>3, <3>4 DEF Clan
  <2>9. cache' = [cache EXCEPT ![k] = c]
    BY <1>1, <2>3, <2>4, <2>5, <2>7 DEF Clan
  <2> QED
    BY <2>3, <2>4, <2>8, <2>9, CacheKeepsIInv
<1>3. ASSUME NEW s \in Slot, NEW paid \in Amount, AddMoneyToBank(s, paid)
      PROVE  IInv'
  <2>1. PICK k : k = GetClan(cache, players[s].clan)
    OBVIOUS
  <2>2. /\ ~shutdown /\ k # 0
        /\ cache' = [cache EXCEPT ![k].bank = @ + paid]
        /\ UNCHANGED <<players, requests, queue, tables, shutdown, faults>>
    BY <1>3, <2>1 DEF AddMoneyToBank
  <2>3. k \in 1..Len(cache)
    BY <1>1, <2>1, <2>2, GetClanProps
  <2>4. cache[k] \in Clan /\ paid \in Int
    BY <1>1, <2>3, ClansAssumption
  <2>5. PICK c : c = [cache[k] EXCEPT !.bank = @ + paid]
    OBVIOUS
  <2>6. c \in Clan /\ c.id = cache[k].id /\ c.name = cache[k].name
    BY <2>4, <2>5 DEF Clan
  <2>7. cache' = [cache EXCEPT ![k] = c]
    BY <1>1, <2>2, <2>3, <2>4, <2>5 DEF Clan
  <2> QED
    BY <2>2, <2>3, <2>6, <2>7, CacheKeepsIInv
<1> QED
  BY <1>2, <1>3 DEF Business

LEMMA StutterKeepsIInv ==
    ASSUME IInv, UNCHANGED vars
    PROVE  IInv'
<1> USE DEF IInv
<1>1. /\ players' = players /\ cache' = cache /\ load' = load /\ logins' = logins /\ creates' = creates
      /\ counts' = counts /\ queue' = queue /\ clans' = clans /\ userClan' = userClan
      /\ userLang' = userLang /\ strays' = strays
      /\ shutdown' = shutdown /\ faults' = faults
  BY DEF vars, requests, tables
<1>2. TypeOK' /\ Rows'
  <2>1. TypeOK'
    BY <1>1, Zenon DEF TypeOK
  <2>2. Rows'
    BY <1>1, Zenon DEF Rows, Sane
  <2> QED
    BY <2>1, <2>2
<1>3. UniqueClanNames' /\ ListOfRows' /\ CacheAgrees'
  BY <1>1, Zenon DEF UniqueClanNames, ListOfRows, CacheAgrees
<1>4. CreatedOnce'
  <2>1. Created' = Created
    BY <1>1 DEF Created
  <2> QED
    BY <1>1, <2>1, Zenon DEF CreatedOnce
<1>5. ListFirst'
  BY <1>1, Zenon DEF ListFirst
<1>6. Closed'
  BY <1>1, Zenon DEF Closed
<1>7. (~shutdown => \E p \in 0..Len(queue) : Aligned(p))'
  <2>1. Grows
    BY <1>1, SameGrows DEF TypeOK
  <2> QED
    BY <1>1, <2>1, AlignedSame
<1>8. AllKnown'
  BY <1>1, Zenon DEF AllKnown, Known
<1> QED
  BY <1>2, <1>3, <1>4, <1>5, <1>6, <1>7, <1>8

LEMMA NextKeepsIInv == IInv /\ [Next]_vars => IInv'
<1> SUFFICES ASSUME IInv, [Next]_vars PROVE IInv'
  OBVIOUS
<1>1. ASSUME NEW s \in Slot, Connect(s) \/ Drop(s) \/ LeaveClan(s) \/ AcceptInvite(s) \/ InviteEnds(s) \/ LevelUp(s)
                         \/ \E l \in Langs : ChatLang(s, l)
      PROVE  IInv'
  BY <1>1, PlayersKeepIInv
<1>2. CASE \/ \E s \in Slot, id \in Account : ChatLogin(s, id)
           \/ \E s \in Slot, n \in ClanName : CreateClan(s, n)
           \/ \E s, t \in Slot : SendClanInvite(s, t)
           \/ ConSaveClans
  BY <1>2, AsksKeepIInv
<1>3. CASE Business
  BY <1>3, BusinessKeepsIInv
<1>4. ASSUME NEW autosave \in BOOLEAN, OnTick(autosave) PROVE IInv'
  BY <1>4, TickKeepsIInv
<1>5. CASE Reload
  BY <1>5, ReloadKeepsIInv
<1>6. CASE Shutdown
  BY <1>6, ShutdownKeepsIInv
<1>7. CASE RunJob
  <2>1. CASE Fail
    BY <2>1, FailKeepsIInv, DismissKeepsIInv
  <2>2. ASSUME NEW stop \in 1..4, RunCreate(stop) PROVE IInv'
    BY <2>2, RunCreateKeepsIInv
  <2>3. ASSUME NEW stop \in ClanId, RunLoad(stop) PROVE IInv'
    BY <2>3, RunLoadKeepsIInv
  <2>4. ASSUME NEW stop \in ClanId, RunSave(stop) PROVE IInv'
    BY <2>4, RunSaveKeepsIInv
  <2>5. ASSUME NEW members \in 0..Cardinality(Account), RunCount(members) PROVE IInv'
    BY <2>5, RunCountKeepsIInv
  <2>6. CASE RunLogin
    BY <2>6, RunLoginKeepsIInv
  <2>7. ASSUME NEW whole \in BOOLEAN, RunAccountSave(whole) PROVE IInv'
    BY <2>7, RunAccountSaveKeepsIInv
  <2> QED
    BY <1>7, <2>1, <2>2, <2>3, <2>4, <2>5, <2>6, <2>7 DEF RunJob
<1>8. CASE UNCHANGED vars
  BY <1>8, StutterKeepsIInv
<1> QED
  BY <1>1, <1>2, <1>3, <1>4, <1>5, <1>6, <1>7, <1>8 DEF Next

LEMMA InvariantHolds == Spec => []IInv
BY InitIInv, NextKeepsIInv, PTL DEF Spec

\* The variables stay what the code's types make them, however many requests,
\* loads and saves are on their way.
THEOREM TypeCorrect == Spec => []TypeOK
BY InvariantHolds, PTL DEF IInv

\* "This clan name is already taken.": no two rows of the table clans have the
\* same name (CreateClanThread counts and inserts in one job).
THEOREM NamesCorrect == Spec => []UniqueClanNames
BY InvariantHolds, PTL DEF IInv

\* The cache of clans has no clan twice and only clans of the table, under
\* their names: neither a late answer nor a late list brings one that does not
\* belong (OnTick, Create and LoadClans).
THEOREM CacheCorrect == Spec => []CacheAgrees
BY InvariantHolds, PTL DEF IInv

\* As long as no job fails, the clan of a player, and one he is invited to, is
\* in the cache or about to be led there by its creation, so that no pointer to
\* a clan is null (GetClan): for everybody but the players whose row in users
\* the save of an account has written (SaveThread), whoever used /lang.
THEOREM KnownCorrect == Spec => []ClanKnown
<1>1. IInv => ClanKnown
  <2> SUFFICES ASSUME IInv, faults = 0, NEW s \in Slot
               PROVE  /\ players[s].clan # 0 /\ players[s].id \notin strays => Known(players[s].clan)
                      /\ players[s].invite # 0 => Known(players[s].invite)
    BY Zenon DEF ClanKnown
  <2>1. /\ players[s].id \notin strays => players[s].clan \in 0..Len(clans)
        /\ players[s].invite \in 0..Len(clans) /\ Len(clans) \in Nat
    BY LenProperties DEF IInv, TypeOK, Rows, Sane
  <2>2. CASE players[s].clan # 0 \/ players[s].invite # 0
    <3>1. load.state = "none"
      BY <2>2 DEF IInv, ListFirst
    <3>2. ~shutdown
      BY <2>2 DEF IInv, Closed, Nobody
    <3>3. \A i \in 1..Len(clans) : Known(i)
      BY <3>1, <3>2 DEF IInv, AllKnown
    <3> QED
      BY <2>1, <3>3
  <2> QED
    BY <2>2
<1> QED
  BY <1>1, InvariantHolds, PTL
-----------------------------------------------------------------------------
\* What a clan owns: a second invariant, which rests on the first.  A clan may be
\* in the cache, on its way to it, in saves that wait in the queue and in the
\* table; the invariant says which of them may disagree.

\* The saves in a queue that name a clan.
Saves(q, i) == {k \in 1..Len(q) : q[k].kind = "save" /\ Matching(q[k].data, i) # {}}

\* What a new clan owns.
NoUps == [u \in Upgrades |-> IF u = "max_num" THEN 2 ELSE 0]

\* A clan is saved once by a job, and only if it has a row.
SavesFine ==
    \A k \in 1..Len(queue) : queue[k].kind = "save" =>
        /\ \A i, j \in 1..Len(queue[k].data) : queue[k].data[i].id = queue[k].data[j].id => i = j
        /\ \A i \in 1..Len(queue[k].data) : queue[k].data[i].id \in 1..Len(clans)

\* A clan that waits for its creator has never been saved.
Fresh ==
    \A c \in Created :
        /\ clans[creates[c].clan].bank = 0 /\ clans[creates[c].clan].ups = NoUps
        /\ Saves(queue, creates[c].clan) = {}

\* Until the list has come to the cache, nothing is saved behind its job.
EmptySaves ==
    ~shutdown => \E p \in 0..Len(queue) :
        /\ Mark(p)
        /\ load.state # "none" =>
              \A k \in (p + 1)..Len(queue) : queue[k].kind = "save" => queue[k].data = << >>

\* The list on its way is what the table has.
ListIsTable ==
    load.state = "done" => \A k \in 1..Len(load.data) :
        clans[k].bank = load.data[k].bank /\ clans[k].ups = load.data[k].ups

SavesInv ==
    /\ SavesFine
    /\ Fresh
    /\ EmptySaves
    /\ ListIsTable

\* What a step may do to the saves, the rows and the new clans.
OldJobs ==
    \A k \in 1..Len(queue') : queue'[k].kind = "save" =>
        queue'[k].data = cache \/ \E j \in 1..Len(queue) : queue[j] = queue'[k]
OldRows ==
    /\ Len(clans') \in Nat /\ Len(clans) <= Len(clans')
    /\ \A i \in 1..Len(clans) : Saves(queue, i) = {} =>
          clans'[i].bank = clans[i].bank /\ clans'[i].ups = clans[i].ups
OldCreated ==
    \A c \in Created' :
        \/ \E d \in Created : creates'[c].clan = creates[d].clan
        \/ /\ creates'[c].clan \in Nat /\ creates'[c].clan > Len(clans)
           /\ clans'[creates'[c].clan].bank = 0 /\ clans'[creates'[c].clan].ups = NoUps

LEMMA SavesStep ==
    ASSUME IInv, SavesFine, Fresh, OldJobs, OldRows, OldCreated
    PROVE  SavesFine' /\ Fresh'
<1>1. /\ Len(clans) \in Nat /\ Len(clans') \in Nat /\ Len(clans) <= Len(clans')
      /\ \A j, k \in 1..Len(cache) : cache[j].id = cache[k].id => j = k
      /\ \A k \in 1..Len(cache) : cache[k].id \in 1..Len(clans)
  BY LenProperties DEF IInv, TypeOK, CacheAgrees, OldRows
<1>2. ASSUME NEW k \in 1..Len(queue'), queue'[k].kind = "save"
      PROVE  /\ \A i, j \in 1..Len(queue'[k].data) : queue'[k].data[i].id = queue'[k].data[j].id => i = j
             /\ \A i \in 1..Len(queue'[k].data) : queue'[k].data[i].id \in 1..Len(clans)
  <2>1. CASE queue'[k].data = cache
    BY <1>1, <2>1
  <2>2. ASSUME NEW j \in 1..Len(queue), queue[j] = queue'[k]
        PROVE  /\ \A i, m \in 1..Len(queue'[k].data) : queue'[k].data[i].id = queue'[k].data[m].id => i = m
               /\ \A i \in 1..Len(queue'[k].data) : queue'[k].data[i].id \in 1..Len(clans)
    BY <1>2, <2>2 DEF SavesFine
  <2> QED
    BY <1>2, <2>1, <2>2 DEF OldJobs
<1>3. SavesFine'
  <2>1. \A i \in 1..Len(clans) : i \in 1..Len(clans')
    BY <1>1
  <2> QED
    BY <1>2, <2>1 DEF SavesFine
<1>4. ASSUME NEW c \in Created, NEW k \in Saves(queue', creates[c].clan)
      PROVE  FALSE
  <2>1. k \in 1..Len(queue') /\ queue'[k].kind = "save" /\ Matching(queue'[k].data, creates[c].clan) # {}
    BY DEF Saves
  <2>2. CASE queue'[k].data = cache
    BY <2>1, <2>2 DEF Matching, IInv, CreatedOnce
  <2>3. ASSUME NEW j \in 1..Len(queue), queue[j] = queue'[k]
        PROVE  FALSE
    <3>1. j \in Saves(queue, creates[c].clan)
      BY <2>1, <2>3 DEF Saves
    <3> QED
      BY <3>1 DEF Fresh
  <2> QED
    BY <2>1, <2>2, <2>3 DEF OldJobs
<1>5. ASSUME NEW i \in Nat, i > Len(clans), NEW k \in Saves(queue', i)
      PROVE  FALSE
  <2>1. k \in 1..Len(queue') /\ queue'[k].kind = "save"
    BY DEF Saves
  <2>2. PICK m \in 1..Len(queue'[k].data) : queue'[k].data[m].id = i
    BY DEF Saves, Matching
  <2> QED
    BY <1>1, <1>2, <1>5, <2>1, <2>2
<1>6. ASSUME NEW c \in Created'
      PROVE  /\ clans'[creates'[c].clan].bank = 0 /\ clans'[creates'[c].clan].ups = NoUps
             /\ Saves(queue', creates'[c].clan) = {}
  <2>1. ASSUME NEW d \in Created, creates'[c].clan = creates[d].clan
        PROVE  /\ clans'[creates'[c].clan].bank = 0 /\ clans'[creates'[c].clan].ups = NoUps
               /\ Saves(queue', creates'[c].clan) = {}
    <3>1. creates[d].clan \in 1..Len(clans)
      BY DEF IInv, CreatedOnce
    <3>2. /\ clans[creates[d].clan].bank = 0 /\ clans[creates[d].clan].ups = NoUps
          /\ Saves(queue, creates[d].clan) = {}
      BY DEF Fresh
    <3>3. clans'[creates[d].clan].bank = 0 /\ clans'[creates[d].clan].ups = NoUps
      BY <3>1, <3>2 DEF OldRows
    <3>4. Saves(queue', creates[d].clan) = {}
      BY <1>4
    <3> QED
      BY <2>1, <3>3, <3>4
  <2>2. CASE /\ creates'[c].clan \in Nat /\ creates'[c].clan > Len(clans)
             /\ clans'[creates'[c].clan].bank = 0 /\ clans'[creates'[c].clan].ups = NoUps
    BY <1>5, <2>2
  <2> QED
    BY <2>1, <2>2 DEF OldCreated
<1>7. Fresh'
  <2>1. \A c \in Created' :
           /\ clans'[creates'[c].clan].bank = 0 /\ clans'[creates'[c].clan].ups = NoUps
           /\ Saves(queue', creates'[c].clan) = {}
    BY <1>6
  <2> QED
    BY <2>1, Zenon DEF Fresh, Saves, Matching
<1> QED
  BY <1>3, <1>7
-----------------------------------------------------------------------------
\* Saves of accounts are no saves of clans.
LEMMA GrownSaves ==
    ASSUME queue \in Seq(Job), Grows, NEW i
    PROVE  /\ Saves(queue', i) = Saves(queue, i) /\ Saves(queue, i) \subseteq 1..Len(queue)
           /\ \A k \in Saves(queue, i) : queue'[k] = queue[k]
<1>1. Len(queue) \in Nat /\ Len(queue') \in Nat
  BY LenProperties DEF Grows
<1>2. \A k \in 1..Len(queue') : queue'[k].kind = "save" => k \in 1..Len(queue)
  BY <1>1 DEF Grows
<1>3. \A k \in 1..Len(queue) : k \in 1..Len(queue') /\ queue'[k] = queue[k]
  BY <1>1 DEF Grows
<1> QED
  BY <1>2, <1>3 DEF Saves

LEMMA GrownOldJobs ==
    ASSUME queue \in Seq(Job), Grows
    PROVE  OldJobs
<1>1. Len(queue) \in Nat /\ Len(queue') \in Nat
  BY LenProperties DEF Grows
<1>2. \A k \in 1..Len(queue') : queue'[k].kind = "save" => k \in 1..Len(queue) /\ queue'[k] = queue[k]
  BY <1>1 DEF Grows
<1> QED
  BY <1>2 DEF OldJobs

LEMMA GrownEmptySaves ==
    ASSUME IInv, EmptySaves, Grows, shutdown' = shutdown,
           (load'.state = "pending") = (load.state = "pending"), load'.state # "none" => load.state # "none"
    PROVE  EmptySaves'
<1>1. SUFFICES ASSUME ~shutdown PROVE EmptySaves'
  BY DEF EmptySaves
<1>2. PICK p \in 0..Len(queue) :
        /\ Mark(p)
        /\ load.state # "none" =>
              \A k \in (p + 1)..Len(queue) : queue[k].kind = "save" => queue[k].data = << >>
  BY <1>1 DEF EmptySaves
<1>3. queue \in Seq(Job) /\ Len(queue) \in Nat /\ Len(queue') \in Nat
  BY LenProperties DEF IInv, TypeOK, Grows
<1>4. p \in 0..Len(queue') /\ Mark(p)'
  BY <1>2, <1>3, GrownMark
<1>5. ASSUME load'.state # "none", NEW k \in (p + 1)..Len(queue'), queue'[k].kind = "save"
      PROVE  queue'[k].data = << >>
  <2>1. k \in (p + 1)..Len(queue) /\ queue'[k] = queue[k]
    BY <1>2, <1>3, <1>5 DEF Grows
  <2> QED
    BY <1>2, <1>5, <2>1
<1> QED
  BY <1>4, <1>5 DEF EmptySaves

\* Steps that touch neither the rows nor the results, and ask for nothing but
\* the save of an account.
LEMMA QuietKeepsSaves ==
    ASSUME IInv, SavesInv, Grows, UNCHANGED <<load, creates, clans, shutdown>>
    PROVE  SavesInv'
<1>1. load' = load /\ creates' = creates /\ clans' = clans /\ shutdown' = shutdown
  OBVIOUS
<1>2. queue \in Seq(Job) /\ Len(clans) \in Nat
  BY LenProperties DEF IInv, TypeOK
<1>3. OldJobs /\ OldRows /\ OldCreated
  BY <1>1, <1>2, GrownOldJobs DEF OldRows, OldCreated, Created
<1>4. SavesFine' /\ Fresh'
  BY <1>3, SavesStep DEF SavesInv
<1>5. EmptySaves'
  BY <1>1, GrownEmptySaves DEF SavesInv
<1>6. ListIsTable'
  BY <1>1, Zenon DEF SavesInv, ListIsTable
<1> QED
  BY <1>4, <1>5, <1>6 DEF SavesInv

\* The steps of one player are such steps.
LEMMA PlayersAreQuiet ==
    ASSUME IInv, NEW s \in Slot, Connect(s) \/ Drop(s) \/ LeaveClan(s) \/ AcceptInvite(s) \/ InviteEnds(s) \/ LevelUp(s)
                             \/ \E l \in Langs : ChatLang(s, l)
    PROVE  Grows /\ UNCHANGED <<cache, load, creates, clans, shutdown>>
<1>1. /\ players \in [Slot -> Player] /\ queue \in Seq(Job) /\ Len(queue) <= MaxJobs
      /\ 0..Len(clans) \subseteq Number /\ players[s].invite \in 0..Len(clans)
  BY LenProperties, ClansAssumption DEF IInv, TypeOK, Rows, Number, ClanId
<1>2. UNCHANGED <<cache, load, creates, clans, shutdown>>
  BY DEF Connect, Drop, LeaveClan, AcceptInvite, InviteEnds, LevelUp, ChatLang, requests, tables
<1>3. CASE queue' = queue
  BY <1>1, <1>2, <1>3, SameGrows
<1>4. CASE Save(players, {s})
  BY <1>1, <1>2, <1>4, SaveGrows
<1>5. CASE AcceptInvite(s)
  <2>1. PICK p : p = players'
    OBVIOUS
  <2>2. p \in [Slot -> Player]
    <3>1. [players[s] EXCEPT !.clan = players[s].invite] \in Player
      BY <1>1 DEF Player
    <3> QED
      BY <1>1, <1>5, <2>1, <3>1 DEF AcceptInvite
  <2>3. Save(p, {s}) /\ {s} \in SUBSET Slot
    BY <1>5, <2>1 DEF AcceptInvite
  <2>4. Grows
    BY <1>1, <2>2, <2>3, SaveGrows
  <2> QED
    BY <1>2, <2>4
<1> QED
  BY <1>3, <1>4, <1>5 DEF Connect, Drop, LeaveClan, InviteEnds, LevelUp, ChatLang

\* What the steps that ask the database for something have in common.
Asks ==
    \/ \E s \in Slot, id \in Account : ChatLogin(s, id)
    \/ \E s \in Slot, n \in ClanName : CreateClan(s, n)
    \/ \E s, t \in Slot : SendClanInvite(s, t)
    \/ ConSaveClans

LEMMA AsksProps ==
    ASSUME IInv, Asks
    PROVE  /\ ~shutdown /\ UNCHANGED <<cache, load, clans, shutdown, faults>>
           /\ \E job \in Job :
                 /\ queue' = Append(queue, job) /\ job.kind # "load"
                 /\ job.kind = "save" => job.data = cache
           /\ \/ creates' = creates
              \/ \E r \in CreateResult : r.state = "pending" /\ creates' = Append(creates, r)
<1>1. players \in [Slot -> Player] /\ cache \in Seq(Clan) /\ 0 \in ClanId
  BY ClansAssumption DEF IInv, TypeOK, ClanId
<1>2. ASSUME NEW s \in Slot, NEW id \in Account, ChatLogin(s, id)
      PROVE  /\ ~shutdown /\ UNCHANGED <<cache, load, clans, shutdown, faults>>
             /\ creates' = creates
             /\ \E job \in Job : queue' = Append(queue, job) /\ job.kind = "login"
  <2>1. [kind |-> "login", id |-> id] \in Job
    BY DEF Job
  <2> QED
    BY <1>2, <2>1 DEF ChatLogin, tables
<1>3. ASSUME NEW s \in Slot, NEW n \in ClanName, CreateClan(s, n)
      PROVE  /\ ~shutdown /\ UNCHANGED <<cache, load, clans, shutdown, faults>>
             /\ \E r \in CreateResult : r.state = "pending" /\ creates' = Append(creates, r)
             /\ \E job \in Job : queue' = Append(queue, job) /\ job.kind = "create"
  <2>1. [kind |-> "create", name |-> n, leader |-> players[s].id] \in Job
    BY <1>1 DEF Player, Job
  <2>2. [slot |-> s, state |-> "pending", name |-> n, clan |-> 0] \in CreateResult
    BY <1>1 DEF CreateResult, State
  <2> QED
    BY <1>3, <2>1, <2>2 DEF CreateClan, AskCreate, tables
<1>4. ASSUME NEW s \in Slot, NEW t \in Slot, SendClanInvite(s, t)
      PROVE  /\ ~shutdown /\ UNCHANGED <<cache, load, clans, shutdown, faults>>
             /\ creates' = creates
             /\ \E job \in Job : queue' = Append(queue, job) /\ job.kind = "count"
  <2>1. players[s].clan \in ClanId
    <3>1. PICK k : k = GetClan(cache, players[s].clan)
      OBVIOUS
    <3>2. k \in 1..Len(cache) /\ cache[k].id = players[s].clan
      BY <1>1, <1>4, <3>1, GetClanProps DEF SendClanInvite
    <3>3. cache[k] \in Clan
      BY <1>1, <3>2, ElementOfSeq
    <3> QED
      BY <3>2, <3>3 DEF Clan
  <2>2. [kind |-> "count", clan |-> players[s].clan] \in Job
    BY <2>1 DEF Job
  <2> QED
    BY <1>4, <2>2 DEF SendClanInvite, tables
<1>5. ASSUME ConSaveClans
      PROVE  /\ ~shutdown /\ UNCHANGED <<cache, load, clans, shutdown, faults>>
             /\ creates' = creates
             /\ \E job \in Job : queue' = Append(queue, job) /\ job.kind = "save" /\ job.data = cache
  <2>1. SaveJob(cache) \in Job /\ SaveJob(cache).kind = "save" /\ SaveJob(cache).data = cache
    BY <1>1 DEF SaveJob, Job
  <2> QED
    BY <1>5, <2>1 DEF ConSaveClans, requests, tables
<1> QED
  BY <1>2, <1>3, <1>4, <1>5 DEF Asks

LEMMA AsksKeepSaves ==
    ASSUME IInv, SavesInv, Asks
    PROVE  SavesInv'
<1>1. ~shutdown /\ load' = load /\ clans' = clans /\ shutdown' = shutdown
  BY AsksProps
<1>2. PICK job \in Job : /\ queue' = Append(queue, job) /\ job.kind # "load"
                         /\ job.kind = "save" => job.data = cache
  BY AsksProps
<1>3. queue \in Seq(Job) /\ creates \in Seq(CreateResult) /\ Len(queue) \in Nat /\ Len(clans) \in Nat
  BY LenProperties DEF IInv, TypeOK, CreateResult
<1>4. /\ Len(queue') = Len(queue) + 1 /\ queue'[Len(queue) + 1] = job
      /\ \A k \in 1..Len(queue) : queue'[k] = queue[k]
  BY <1>2, <1>3, AppendJobs
<1>5. \A k \in 1..Len(queue') : k \in 1..Len(queue) \/ k = Len(queue) + 1
  BY <1>3, <1>4
<1>6. OldJobs
  BY <1>2, <1>4, <1>5 DEF OldJobs
<1>7. OldRows
  BY <1>1, <1>3 DEF OldRows
<1>8. OldCreated
  <2>1. CASE creates' = creates
    BY <2>1 DEF OldCreated, Created
  <2>2. ASSUME NEW r \in CreateResult, r.state = "pending", creates' = Append(creates, r)
        PROVE  OldCreated
    <3>1. /\ Len(creates) \in Nat /\ Len(creates') = Len(creates) + 1 /\ creates'[Len(creates) + 1] = r
          /\ \A k \in 1..Len(creates) : creates'[k] = creates[k]
      BY <1>3, <2>2, AppendProperties, LenProperties
    <3>2. \A k \in 1..Len(creates') : k \in 1..Len(creates) \/ k = Len(creates) + 1
      BY <3>1
    <3>3. \A c \in Created' : c \in Created /\ creates'[c].clan = creates[c].clan
      BY <2>2, <3>1, <3>2 DEF Created
    <3> QED
      BY <3>3 DEF OldCreated
  <2> QED
    BY <2>1, <2>2, AsksProps
<1>9. SavesFine' /\ Fresh'
  BY <1>6, <1>7, <1>8, SavesStep DEF SavesInv
<1>10. EmptySaves'
  <2>1. PICK p \in 0..Len(queue) :
          /\ Mark(p)
          /\ load.state # "none" =>
                \A k \in (p + 1)..Len(queue) : queue[k].kind = "save" => queue[k].data = << >>
    BY <1>1 DEF SavesInv, EmptySaves
  <2>2. Jobs(queue', "load", p) = Jobs(queue, "load", p)
    <3>1. Jobs(Append(queue, job), "load", p) =
            Jobs(queue, "load", p) \cup (IF job.kind = "load" THEN {Len(queue) + 1} ELSE {})
      BY ONLY <1>3, AppendJobs, job \in Job, p \in 0..Len(queue)
    <3> QED
      BY <1>2, <3>1
  <2>3. Mark(p)'
    <3>1. p # 0 => queue'[p] = queue[p]
      BY <1>4
    <3>2. p \in 0..Len(queue')
      BY <1>3, <1>4
    <3> QED
      BY <1>1, <2>1, <2>2, <3>1, <3>2 DEF Mark
  <2>4. load.state # "none" => cache = << >>
    BY DEF IInv, ListFirst
  <2>5. ASSUME load'.state # "none", NEW k \in (p + 1)..Len(queue'), queue'[k].kind = "save"
        PROVE  queue'[k].data = << >>
    <3>1. CASE k = Len(queue) + 1
      BY <1>1, <1>2, <1>4, <2>4, <2>5, <3>1
    <3>2. CASE k # Len(queue) + 1
      <4>1. k \in (p + 1)..Len(queue) /\ k \in 1..Len(queue)
        BY <1>3, <1>4, <3>2
      <4> QED
        BY <1>1, <1>4, <2>1, <2>5, <4>1
    <3> QED
      BY <3>1, <3>2
  <2>6. p \in 0..Len(queue')
    BY <1>3, <1>4
  <2> QED
    BY <2>3, <2>5, <2>6 DEF EmptySaves
<1>11. ListIsTable'
  BY <1>1, Zenon DEF SavesInv, ListIsTable
<1> QED
  BY <1>9, <1>10, <1>11 DEF SavesInv

LEMMA TickKeepsSaves ==
    ASSUME IInv, SavesInv, NEW autosave \in BOOLEAN, OnTick(autosave)
    PROVE  SavesInv'
<1>1. /\ Grows /\ clans' = clans /\ shutdown' = shutdown
      /\ creates' = Rest(creates, Handled(Ready(creates)))
      /\ load' = load \/ (load.state = "done" /\ load' = NoLoad)
  BY TickGrows DEF OnTick, tables
<1>2. creates \in Seq(CreateResult) /\ Len(creates) \in Nat /\ Len(clans) \in Nat
  BY LenProperties DEF IInv, TypeOK, CreateResult
<1>3. ASSUME NEW c \in Created'
      PROVE  \E d \in Created : creates'[c].clan = creates[d].clan
  <2>1. PICK at : at = Handled(Ready(creates))
    OBVIOUS
  <2>2. at \in SUBSET (1..Len(creates))
    BY <1>2, <2>1, ReadyProps
  <2>3. Left(CreateResult, creates, at, creates')
    BY <1>1, <1>2, <2>1, <2>2, RestProps
  <2>4. PICK up \in [1..Len(creates') -> (1..Len(creates)) \ at] :
          \A i \in 1..Len(creates') : creates'[i] = creates[up[i]]
    BY <2>3 DEF Left
  <2>5. c \in 1..Len(creates') /\ creates'[c].state = "successful"
    BY DEF Created
  <2>6. up[c] \in 1..Len(creates) /\ creates[up[c]] = creates'[c]
    BY <2>4, <2>5
  <2> QED
    BY <2>5, <2>6 DEF Created
<1>4. OldJobs /\ OldRows /\ OldCreated
  <2>1. OldJobs
    BY <1>1, GrownOldJobs DEF IInv, TypeOK
  <2> QED
    BY <1>1, <1>2, <1>3, <2>1 DEF OldRows, OldCreated
<1>5. SavesFine' /\ Fresh'
  BY <1>4, SavesStep DEF SavesInv
<1>6. EmptySaves'
  BY <1>1, GrownEmptySaves DEF SavesInv, NoLoad
<1>7. ListIsTable'
  BY <1>1 DEF SavesInv, ListIsTable, NoLoad
<1> QED
  BY <1>5, <1>6, <1>7 DEF SavesInv

\* What a change of the map puts into the queue.
LEMMA ReloadJobs ==
    ASSUME IInv, Reload
    PROVE  /\ Len(queue) \in Nat /\ Len(queue') = Len(queue) + 2
           /\ \A k \in 1..Len(queue) : queue'[k] = queue[k]
           /\ queue'[Len(queue) + 1] = SaveJob(cache) /\ queue'[Len(queue) + 2] = LoadJob
           /\ \A k \in 1..Len(queue') : k \in 1..Len(queue) \/ k = Len(queue) + 1 \/ k = Len(queue) + 2
<1>1. queue \in Seq(Job) /\ Len(queue) \in Nat /\ cache \in Seq(Clan)
  BY LenProperties DEF IInv, TypeOK
<1>2. SaveJob(cache) \in Job /\ LoadJob \in Job
  BY <1>1 DEF SaveJob, LoadJob, Job
<1>3. PICK two : two = <<SaveJob(cache), LoadJob>>
  OBVIOUS
<1>4. two \in Seq(Job) /\ Len(two) = 2 /\ two[1] = SaveJob(cache) /\ two[2] = LoadJob
  BY <1>2, <1>3
<1>5. queue' = queue \o two
  BY <1>3 DEF Reload
<1>6. PICK n : n = Len(queue) + 2
  OBVIOUS
<1>7. /\ Len(queue') = n
      /\ \A i \in 1..n : queue'[i] = IF i <= Len(queue) THEN queue[i] ELSE two[i - Len(queue)]
  <2>1. queue \in Seq(Job) /\ two \in Seq(Job)
    BY <1>1, <1>4
  <2>2. Len(queue) + Len(two) = n
    BY <1>4, <1>6
  <2>3. /\ Len(queue \o two) = Len(queue) + Len(two)
        /\ \A i \in 1..(Len(queue) + Len(two)) :
              (queue \o two)[i] = IF i <= Len(queue) THEN queue[i] ELSE two[i - Len(queue)]
    BY ONLY <2>1, ConcatProperties, Zenon
  <2> QED
    BY ONLY <1>5, <2>2, <2>3, Zenon
<1>8. n - 1 \in 1..n /\ n \in 1..n /\ (n - 1) - Len(queue) = 1 /\ n - Len(queue) = 2 /\ n - 1 = Len(queue) + 1
  BY <1>1, <1>6
<1>9. queue'[n - 1] = two[1] /\ queue'[n] = two[2]
  BY <1>1, <1>7, <1>8
<1>10. \A k \in 1..Len(queue) : queue'[k] = queue[k]
  BY <1>1, <1>6, <1>7
<1>11. \A k \in 1..n : k \in 1..Len(queue) \/ k = Len(queue) + 1 \/ k = Len(queue) + 2
  BY <1>1, <1>6
<1> QED
  BY <1>1, <1>4, <1>6, <1>7, <1>8, <1>9, <1>10, <1>11

LEMMA ReloadKeepsSaves ==
    ASSUME IInv, SavesInv, Reload
    PROVE  SavesInv'
<1>1. clans' = clans /\ creates' = << >> /\ load'.state = "pending" /\ ~shutdown'
  BY DEF Reload, tables, NoLoad
<1>2. Len(clans) \in Nat
  BY LenProperties DEF IInv, TypeOK
<1>3. OldJobs
  BY ReloadJobs DEF OldJobs, SaveJob, LoadJob
<1>4. OldRows /\ OldCreated
  <2>1. Created' = {}
    BY <1>1 DEF Created
  <2> QED
    BY <1>1, <1>2, <2>1 DEF OldRows, OldCreated
<1>5. SavesFine' /\ Fresh'
  BY <1>3, <1>4, SavesStep DEF SavesInv
<1>6. EmptySaves'
  <2>1. PICK n : n = Len(queue')
    OBVIOUS
  <2>2. n \in Nat /\ n # 0 /\ queue'[n].kind = "load"
    BY <2>1, ReloadJobs DEF LoadJob
  <2>3. (n + 1)..Len(queue') = {}
    BY <2>1, <2>2
  <2>4. Mark(n)'
    BY <1>1, <2>1, <2>2, <2>3 DEF Mark, Jobs
  <2> QED
    BY <2>1, <2>2, <2>3, <2>4 DEF EmptySaves
<1>7. ListIsTable'
  BY <1>1 DEF ListIsTable
<1> QED
  BY <1>5, <1>6, <1>7 DEF SavesInv

LEMMA ShutdownKeepsSaves ==
    ASSUME IInv, SavesInv, Shutdown
    PROVE  SavesInv'
<1>1. /\ clans' = clans /\ creates' = << >> /\ load' = NoLoad /\ shutdown'
      /\ queue' = Append(queue, SaveJob(cache))
  BY DEF Shutdown, tables
<1>2. Len(clans) \in Nat /\ queue \in Seq(Job) /\ Len(queue) \in Nat /\ SaveJob(cache) \in Job
  BY LenProperties DEF IInv, TypeOK, SaveJob, Job
<1>3. OldJobs
  <2>1. /\ Len(queue') = Len(queue) + 1 /\ queue'[Len(queue) + 1] = SaveJob(cache)
        /\ \A k \in 1..Len(queue) : queue'[k] = queue[k]
    BY <1>1, <1>2, AppendJobs
  <2>2. \A k \in 1..Len(queue') : k \in 1..Len(queue) \/ k = Len(queue) + 1
    BY <1>2, <2>1
  <2> QED
    BY <2>1, <2>2 DEF OldJobs, SaveJob
<1>4. OldRows /\ OldCreated
  <2>1. Created' = {}
    BY <1>1 DEF Created
  <2> QED
    BY <1>1, <1>2, <2>1 DEF OldRows, OldCreated
<1>5. SavesFine' /\ Fresh'
  BY <1>3, <1>4, SavesStep DEF SavesInv
<1>6. EmptySaves' /\ ListIsTable'
  BY <1>1 DEF EmptySaves, ListIsTable, NoLoad
<1> QED
  BY <1>5, <1>6 DEF SavesInv
-----------------------------------------------------------------------------
LEMMA TailJobs ==
    ASSUME NEW q \in Seq(Job), q # << >>
    PROVE  /\ Len(q) \in Nat /\ Len(q) >= 1 /\ Head(q) = q[1] /\ Head(q) \in Job
           /\ Len(Tail(q)) = Len(q) - 1 /\ Tail(q) \in Seq(Job)
           /\ \A k \in 1..(Len(q) - 1) : Tail(q)[k] = q[k + 1]
  BY LenProperties, EmptySeq, HeadTailProperties

LEMMA JobKeepsSaves ==
    ASSUME IInv, SavesInv, queue # << >>, queue' = Tail(queue), shutdown' = shutdown,
           NEW data, load' = IF Head(queue).kind = "load" THEN LoadDone(data) ELSE load,
           OldRows, OldCreated, ListIsTable'
    PROVE  SavesInv'
<1>1. queue \in Seq(Job)
  BY DEF IInv, TypeOK
<1>2. /\ Len(queue) \in Nat /\ Len(queue) >= 1 /\ Len(queue') = Len(queue) - 1
      /\ \A k \in 1..(Len(queue) - 1) : queue'[k] = queue[k + 1]
  BY <1>1, TailJobs
<1>3. OldJobs
  <2>1. ASSUME NEW k \in 1..Len(queue') PROVE \E j \in 1..Len(queue) : queue[j] = queue'[k]
    <3>1. k + 1 \in 1..Len(queue) /\ queue[k + 1] = queue'[k]
      BY <1>2
    <3> QED
      BY <3>1
  <2> QED
    BY <2>1 DEF OldJobs
<1>4. SavesFine' /\ Fresh'
  BY <1>3, SavesStep DEF SavesInv
<1>5. EmptySaves'
  <2>1. SUFFICES ASSUME ~shutdown PROVE EmptySaves'
    BY DEF EmptySaves
  <2>2. PICK p \in 0..Len(queue) :
          /\ Mark(p)
          /\ load.state # "none" =>
                \A k \in (p + 1)..Len(queue) : queue[k].kind = "save" => queue[k].data = << >>
    BY <2>1 DEF SavesInv, EmptySaves
  <2>3. PICK o : o = IF p = 0 THEN 0 ELSE p - 1
    OBVIOUS
  <2>4. Mark(o)' /\ o \in 0..Len(queue')
    <3>1. /\ Mark(IF p = 0 THEN 0 ELSE p - 1)'
          /\ (IF p = 0 THEN 0 ELSE p - 1) \in 0..Len(queue')
      BY ONLY <1>1, <2>2, queue # << >>, queue' = Tail(queue), TailKeepsMark,
              load' = IF Head(queue).kind = "load" THEN LoadDone(data) ELSE load
    <3> QED
      BY <2>3, <3>1, Zenon DEF Mark, Jobs
  <2>5. load'.state # "none" => load.state # "none"
    BY DEF LoadDone
  <2>6. ASSUME load'.state # "none", NEW k \in (o + 1)..Len(queue'), queue'[k].kind = "save"
        PROVE  queue'[k].data = << >>
    <3>1. k + 1 \in (p + 1)..Len(queue) /\ queue'[k] = queue[k + 1]
      BY <1>2, <2>2, <2>3, <2>4
    <3> QED
      BY <2>2, <2>5, <2>6, <3>1
  <2> QED
    BY <2>4, <2>6 DEF EmptySaves
<1> QED
  BY <1>4, <1>5 DEF SavesInv

\* What a job makes of the new clans when it creates none.
LEMMA NoneCreated ==
    ASSUME IInv, creates' \in {creates, Answer(creates, "create", Failed)}
    PROVE  OldCreated
<1>1. creates \in Seq(CreateResult)
  BY DEF IInv, TypeOK, CreateResult
<1>2. CASE creates' = creates
  BY <1>2 DEF OldCreated, Created
<1>3. CASE creates' = Answer(creates, "create", Failed)
  <2>1. \A r \in CreateResult : Answered(r, Failed) \in CreateResult /\ Answered(r, Failed).state = "failed"
    BY AnsweredProps
  <2>2. /\ Len(creates') = Len(creates)
        /\ \A k \in 1..Len(creates) : creates'[k] \in {creates[k], Answered(creates[k], Failed)}
    BY <1>1, <1>3, <2>1, AnswerProps
  <2>3. \A k \in 1..Len(creates) : creates[k] \in CreateResult
    BY <1>1, ElementOfSeq
  <2>4. \A c \in Created' : c \in Created /\ creates'[c] = creates[c]
    BY <2>1, <2>2, <2>3 DEF Created
  <2> QED
    BY <2>4 DEF OldCreated
<1> QED
  BY <1>2, <1>3

LEMMA SameRows ==
    ASSUME IInv, clans' = clans
    PROVE  OldRows
  BY LenProperties DEF IInv, TypeOK, OldRows

LEMMA FailKeepsSaves ==
    ASSUME IInv, SavesInv, Fail
    PROVE  SavesInv'
<1>1. /\ queue # << >> /\ queue' = Tail(queue) /\ shutdown' = shutdown /\ clans' = clans
      /\ creates' \in {creates, Answer(creates, "create", Failed)}
      /\ load' = IF Head(queue).kind = "load" THEN LoadDone(<< >>) ELSE load
  BY DEF Fail, Finish, tables
<1>2. ListIsTable'
  BY <1>1 DEF SavesInv, ListIsTable, LoadDone
<1> QED
  BY <1>1, <1>2, NoneCreated, SameRows, JobKeepsSaves

\* The jobs that leave the clans alone.
LEMMA ReadsKeepSaves ==
    ASSUME IInv, SavesInv,
           \/ RunLogin
           \/ \E members \in 0..Cardinality(Account) : RunCount(members)
           \/ \E whole \in BOOLEAN : RunAccountSave(whole)
    PROVE  SavesInv'
<1>1. /\ queue # << >> /\ queue' = Tail(queue) /\ shutdown' = shutdown /\ clans' = clans
      /\ creates' = creates /\ load' = load /\ Head(queue).kind # "load"
  BY DEF RunLogin, RunCount, RunAccountSave, Running, Finish, requests, tables
<1>2. ListIsTable'
  BY <1>1 DEF SavesInv, ListIsTable
<1>3. load' = IF Head(queue).kind = "load" THEN LoadDone(<< >>) ELSE load
  BY <1>1
<1> QED
  BY <1>1, <1>2, <1>3, NoneCreated, SameRows, JobKeepsSaves

LEMMA RunLoadKeepsSaves ==
    ASSUME IInv, SavesInv, NEW stop \in ClanId, RunLoad(stop)
    PROVE  SavesInv'
<1>1. /\ queue # << >> /\ queue' = Tail(queue) /\ shutdown' = shutdown /\ clans' = clans
      /\ creates' = creates /\ Head(queue).kind = "load"
      /\ load' = LoadDone(SubSeq(clans, 1, stop)) /\ stop <= Len(clans)
  BY DEF RunLoad, Running, Finish, tables
<1>2. PICK data : data = SubSeq(clans, 1, stop)
  OBVIOUS
<1>3. Len(data) = stop /\ \A k \in 1..stop : data[k] = clans[k]
  <2>1. clans \in Seq(Clan) /\ Len(clans) \in Nat /\ stop \in 0..Len(clans)
    BY <1>1, LenProperties, ClansAssumption DEF IInv, TypeOK, ClanId
  <2>2. \A i \in 1..stop : clans[i] \in Clan
    BY <2>1, ElementOfSeq
  <2> QED
    BY <1>2, <2>1, <2>2
<1>4. ListIsTable'
  <2>1. load' = load \/ load'.data = data
    BY <1>1, <1>2 DEF LoadDone
  <2> QED
    BY <1>1, <1>3, <2>1 DEF SavesInv, ListIsTable
<1>5. load' = IF Head(queue).kind = "load" THEN LoadDone(data) ELSE load
  BY <1>1, <1>2
<1> QED
  BY <1>1, <1>4, <1>5, NoneCreated, SameRows, JobKeepsSaves

\* What a save writes: every clan it names, if it is not cut short.
LEMMA SavedRows ==
    ASSUME IInv, SavesInv, NEW stop \in ClanId, RunSave(stop)
    PROVE  /\ Len(clans') = Len(clans) /\ Len(clans) \in Nat
           /\ Head(queue).data \in Seq(Clan) /\ Head(queue) = queue[1] /\ Head(queue).kind = "save"
           /\ \A i \in 1..Len(clans) : Matching(Head(queue).data, i) = {} => clans'[i] = clans[i]
           /\ stop = Len(Head(queue).data) =>
                 \A i \in 1..Len(clans) : \A j \in Matching(Head(queue).data, i) :
                    clans'[i].bank = Head(queue).data[j].bank /\ clans'[i].ups = Head(queue).data[j].ups
<1>1. /\ queue # << >> /\ Head(queue).kind = "save" /\ Head(queue) \in Job /\ Head(queue) = queue[1]
      /\ Len(queue) \in Nat /\ Len(queue) >= 1
  BY RunningProps, TailJobs DEF RunSave, IInv, TypeOK
<1>2. PICK all : all = Head(queue).data
  OBVIOUS
<1>3. PICK data : data = SubSeq(all, 1, stop)
  OBVIOUS
<1>4. all \in Seq(Clan) /\ Len(all) \in Nat /\ stop \in 0..Len(all)
  <2>1. all \in Seq(Clan)
    BY <1>1, <1>2, JobFields
  <2> QED
    BY <1>2, <2>1, LenProperties, ClansAssumption DEF RunSave, ClanId
<1>5. Len(data) = stop /\ \A k \in 1..stop : data[k] = all[k]
  <2>1. \A k \in 1..stop : all[k] \in Clan
    BY <1>4, ElementOfSeq
  <2> QED
    BY <1>3, <1>4, <2>1
<1>6. \A i, j \in 1..Len(all) : all[i].id = all[j].id => i = j
  BY <1>1, <1>2 DEF SavesInv, SavesFine
<1>7. /\ clans' = [i \in 1..Len(clans) |->
                 IF Matching(data, i) = {} THEN clans[i]
                 ELSE [data[CHOOSE k \in Matching(data, i) : \A j \in Matching(data, i) : j <= k]
                          EXCEPT !.name = clans[i].name]]
  BY <1>2, <1>3 DEF RunSave
<1>8. Len(clans) \in Nat /\ Len(clans') = Len(clans)
  <2>1. Len(clans) \in Nat
    BY LenProperties DEF IInv, TypeOK
  <2> DEFINE row(i) == IF Matching(data, i) = {} THEN clans[i]
                       ELSE [data[CHOOSE k \in Matching(data, i) : \A j \in Matching(data, i) : j <= k]
                                EXCEPT !.name = clans[i].name]
             S == {row(i) : i \in 1..Len(clans)}
  <2>2. clans' = [i \in 1..Len(clans) |-> row(i)]
    BY <1>7
  <2> HIDE DEF row
  <2>3. clans' \in [1..Len(clans) -> S]
    BY <2>2
  <2> HIDE DEF S
  <2> QED
    BY <2>1, <2>3, FunctionIsSeq
<1>9. \A i, k : k \in Matching(data, i) <=> k \in Matching(all, i) /\ k <= stop
  BY <1>4, <1>5 DEF Matching
<1>10. ASSUME NEW i \in 1..Len(clans), Matching(all, i) = {}
       PROVE  clans'[i] = clans[i]
  <2>1. Matching(data, i) = {}
    BY <1>9, <1>10
  <2> QED
    BY <1>7, <2>1, Zenon
<1>11. ASSUME stop = Len(all), NEW i \in 1..Len(clans), NEW j \in Matching(all, i)
       PROVE  clans'[i].bank = all[j].bank /\ clans'[i].ups = all[j].ups
  <2>1. \A k \in Matching(all, i) : k \in 1..Len(all) /\ all[k].id = i
    BY DEF Matching
  <2>2. Matching(data, i) = {j}
    <3>1. \A k \in Matching(all, i) : k <= stop /\ k = j
      BY <1>4, <1>6, <1>11, <2>1
    <3> QED
      BY <1>9, <3>1
  <2>3. (CHOOSE k \in Matching(data, i) : \A m \in Matching(data, i) : m <= k) = j
    <3>1. j <= j
      BY <1>4, <2>1
    <3> QED
      BY <2>2, <3>1
  <2>4. clans'[i] = [data[j] EXCEPT !.name = clans[i].name]
    BY <1>7, <2>2, <2>3, Zenon
  <2>5. data[j] = all[j] /\ all[j] \in Clan
    BY <1>4, <1>5, <1>11, <2>1, ElementOfSeq
  <2> QED
    BY <2>4, <2>5 DEF Clan
<1> QED
  BY <1>1, <1>2, <1>4, <1>8, <1>10, <1>11

LEMMA RunSaveKeepsSaves ==
    ASSUME IInv, SavesInv, NEW stop \in ClanId, RunSave(stop)
    PROVE  SavesInv'
<1>1. /\ queue # << >> /\ queue' = Tail(queue) /\ shutdown' = shutdown /\ ~shutdown
      /\ creates' = creates /\ load' = load /\ Head(queue).kind # "load"
  BY DEF RunSave, Running, Finish, requests
<1>2. /\ Len(clans') = Len(clans) /\ Len(clans) \in Nat /\ Head(queue) = queue[1] /\ Head(queue).kind = "save"
      /\ \A i \in 1..Len(clans) : Matching(Head(queue).data, i) = {} => clans'[i] = clans[i]
  BY SavedRows
<1>3. Len(queue) \in Nat /\ Len(queue) >= 1
  BY <1>1, TailJobs DEF IInv, TypeOK
<1>4. OldRows
  <2>1. ASSUME NEW i, Saves(queue, i) = {} PROVE Matching(Head(queue).data, i) = {}
    <3>1. 1 \in 1..Len(queue) /\ queue[1].kind = "save" /\ 1 \notin Saves(queue, i)
      BY <1>2, <1>3, <2>1
    <3>2. Matching(queue[1].data, i) = {}
      BY <3>1 DEF Saves
    <3> QED
      BY <1>2, <3>2
  <2> QED
    BY <1>2, <2>1 DEF OldRows
<1>5. ListIsTable'
  <2>1. SUFFICES ASSUME load.state = "done", NEW k \in 1..Len(load.data)
                 PROVE  clans'[k].bank = load.data[k].bank /\ clans'[k].ups = load.data[k].ups
    BY <1>1 DEF ListIsTable
  <2>2. Head(queue).data = << >>
    <3>1. PICK p \in 0..Len(queue) :
            /\ Mark(p)
            /\ load.state # "none" =>
                  \A m \in (p + 1)..Len(queue) : queue[m].kind = "save" => queue[m].data = << >>
      BY <1>1 DEF SavesInv, EmptySaves
    <3>2. p = 0
      BY <2>1, <3>1 DEF Mark
    <3> QED
      BY <1>2, <1>3, <2>1, <3>1, <3>2
  <2>3. Matching(Head(queue).data, k) = {}
    BY <2>2 DEF Matching
  <2>4. k \in 1..Len(clans)
    <3>1. Len(load.data) <= Len(clans) /\ Len(load.data) \in Nat
      BY LenProperties DEF IInv, TypeOK, ListOfRows
    <3> QED
      BY <1>2, <3>1
  <2>5. clans'[k] = clans[k]
    BY <1>2, <2>3, <2>4
  <2> QED
    BY <2>1, <2>5 DEF SavesInv, ListIsTable
<1>6. load' = IF Head(queue).kind = "load" THEN LoadDone(<< >>) ELSE load
  BY <1>1
<1> QED
  BY <1>1, <1>4, <1>5, <1>6, NoneCreated, JobKeepsSaves

LEMMA CreatedRows ==
    ASSUME IInv, NEW stop \in 1..4, RunCreate(stop)
    PROVE  /\ Len(clans) \in Nat /\ Len(clans') \in Nat /\ Len(clans) <= Len(clans')
           /\ \A i \in 1..Len(clans) : clans'[i] = clans[i]
           /\ \/ creates' = Answer(creates, "create", Failed)
              \/ /\ creates' = Answer(creates, "create", [state |-> "successful", clan |-> Len(clans) + 1])
                 /\ Len(clans) + 1 \in ClanId
                 /\ clans'[Len(clans) + 1].bank = 0 /\ clans'[Len(clans) + 1].ups = NoUps
<1> DEFINE job == Head(queue)
           id == Len(clans) + 1
<1>1. job.kind = "create" /\ job.name \in ClanName /\ job.leader \in AccountId
  BY RunningProps, JobFields DEF RunCreate
<1>2. clans \in Seq(Clan) /\ Len(clans) \in Nat /\ Len(clans) <= MaxClans /\ MaxClans \in Nat
  BY LenProperties, ClansAssumption DEF IInv, TypeOK
<1>3. CASE Taken(job.name) # {}
  BY <1>2, <1>3 DEF RunCreate, tables
<1>4. CASE Taken(job.name) = {}
  <2>1. /\ Len(clans) < MaxClans
        /\ clans' = Append(clans, NewClan(id, job.name, job.leader))
        /\ creates' = Answer(creates, "create", IF stop = 4 THEN [state |-> "successful", clan |-> id] ELSE Failed)
    BY <1>4 DEF RunCreate
  <2>2. id \in ClanId /\ id \in ClanId \ {0}
    BY <1>2, <2>1 DEF ClanId
  <2>3. PICK new : new = NewClan(id, job.name, job.leader)
    OBVIOUS
  <2>4. new \in Clan /\ new.bank = 0 /\ new.ups = NoUps
    <3>1. NoUps \in [Upgrades -> Nat]
      BY DEF NoUps
    <3>2. new = [id |-> id, name |-> job.name, leader |-> job.leader, bank |-> 0, ups |-> NoUps]
      BY <2>3 DEF NewClan, NoUps
    <3> QED
      BY <1>1, <2>2, <3>1, <3>2 DEF Clan
  <2>5. /\ clans' \in Seq(Clan) /\ Len(clans') = id
        /\ \A i \in 1..Len(clans) : clans'[i] = clans[i]
        /\ clans'[id] = new
    BY <1>2, <2>1, <2>3, <2>4, AppendProperties
  <2>6. CASE stop = 4
    BY <1>2, <2>1, <2>2, <2>4, <2>5, <2>6
  <2>7. CASE stop # 4
    BY <1>2, <2>1, <2>5, <2>7
  <2> QED
    BY <2>6, <2>7
<1> QED
  BY <1>3, <1>4

LEMMA RunCreateKeepsSaves ==
    ASSUME IInv, SavesInv, NEW stop \in 1..4, RunCreate(stop)
    PROVE  SavesInv'
<1>1. /\ queue # << >> /\ queue' = Tail(queue) /\ shutdown' = shutdown
      /\ load' = load /\ Head(queue).kind # "load"
  BY DEF RunCreate, Running, Finish
<1>2. /\ Len(clans) \in Nat /\ Len(clans') \in Nat /\ Len(clans) <= Len(clans')
      /\ \A i \in 1..Len(clans) : clans'[i] = clans[i]
  BY CreatedRows
<1>3. OldRows
  BY <1>2 DEF OldRows
<1>4. OldCreated
  <2>1. CASE creates' = Answer(creates, "create", Failed)
    BY <2>1, NoneCreated
  <2>2. CASE /\ creates' = Answer(creates, "create", [state |-> "successful", clan |-> Len(clans) + 1])
             /\ Len(clans) + 1 \in ClanId
             /\ clans'[Len(clans) + 1].bank = 0 /\ clans'[Len(clans) + 1].ups = NoUps
    <3>1. PICK c2 : c2 = [state |-> "successful", clan |-> Len(clans) + 1]
      OBVIOUS
    <3>2. PICK id : id = Len(clans) + 1
      OBVIOUS
    <3>3. id \in ClanId /\ c2 = [state |-> "successful", clan |-> id]
      BY <2>2, <3>1, <3>2
    <3>4. \A r \in CreateResult : Answered(r, c2) \in CreateResult /\ Answered(r, c2).clan = id
      BY <3>3, AnsweredProps
    <3>5. creates \in Seq(CreateResult)
      BY DEF IInv, TypeOK, CreateResult
    <3>6. /\ Len(creates') = Len(creates)
          /\ \A k \in 1..Len(creates) : creates'[k] \in {creates[k], Answered(creates[k], c2)}
      BY <2>2, <3>1, <3>4, <3>5, AnswerProps
    <3>7. ASSUME NEW c \in Created'
          PROVE  (c \in Created /\ creates'[c] = creates[c]) \/ creates'[c].clan = id
      <4>1. c \in 1..Len(creates) /\ creates'[c].state = "successful"
        BY <3>6 DEF Created
      <4>2. creates[c] \in CreateResult
        BY <3>5, <4>1, ElementOfSeq
      <4> QED
        BY <3>4, <3>6, <4>1, <4>2 DEF Created
    <3>8. id \in Nat /\ id > Len(clans)
      BY <1>2, <3>2
    <3> QED
      BY <2>2, <3>2, <3>7, <3>8 DEF OldCreated
  <2> QED
    BY <2>1, <2>2, CreatedRows
<1>5. ListIsTable'
  <2>1. \A k \in 1..Len(load.data) : k \in 1..Len(clans)
    <3>1. Len(load.data) <= Len(clans) /\ Len(load.data) \in Nat
      BY LenProperties DEF IInv, TypeOK, ListOfRows
    <3> QED
      BY <1>2, <3>1
  <2> QED
    BY <1>1, <1>2, <2>1 DEF SavesInv, ListIsTable
<1>6. load' = IF Head(queue).kind = "load" THEN LoadDone(<< >>) ELSE load
  BY <1>1
<1> QED
  BY <1>1, <1>3, <1>4, <1>5, <1>6, JobKeepsSaves

LEMMA NextKeepsSaves ==
    ASSUME IInv, SavesInv, [Next]_vars
    PROVE  SavesInv'
<1>0. queue' = queue => Grows
  BY SameGrows DEF IInv, TypeOK
<1>1. ASSUME NEW s \in Slot, Connect(s) \/ Drop(s) \/ LeaveClan(s) \/ AcceptInvite(s) \/ InviteEnds(s) \/ LevelUp(s)
                         \/ \E l \in Langs : ChatLang(s, l)
      PROVE  SavesInv'
  BY <1>1, PlayersAreQuiet, QuietKeepsSaves
<1>2. CASE Asks
  BY <1>2, AsksKeepSaves
<1>3. CASE Business
  BY <1>0, <1>3, QuietKeepsSaves DEF Business, BuyUpgrade, AddMoneyToBank, requests, tables
<1>4. ASSUME NEW autosave \in BOOLEAN, OnTick(autosave) PROVE SavesInv'
  BY <1>4, TickKeepsSaves
<1>5. CASE Reload
  BY <1>5, ReloadKeepsSaves
<1>6. CASE Shutdown
  BY <1>6, ShutdownKeepsSaves
<1>7. CASE RunJob
  BY <1>7, FailKeepsSaves, ReadsKeepSaves, RunLoadKeepsSaves, RunSaveKeepsSaves, RunCreateKeepsSaves DEF RunJob
<1>8. CASE UNCHANGED vars
  BY <1>0, <1>8, QuietKeepsSaves DEF vars, requests, tables
<1> QED
  BY <1>1, <1>2, <1>3, <1>4, <1>5, <1>6, <1>7, <1>8 DEF Next, Asks

LEMMA InitSaves == Init => SavesInv
<1> SUFFICES ASSUME Init PROVE SavesInv
  OBVIOUS
<1>1. queue = <<LoadJob>> /\ creates = << >> /\ load.state = "pending" /\ ~shutdown
  BY DEF Init, NoLoad
<1>2. Len(queue) = 1 /\ queue[1].kind = "load"
  BY <1>1 DEF LoadJob
<1>3. SavesFine /\ Fresh /\ ListIsTable
  BY <1>1, <1>2 DEF SavesFine, Fresh, ListIsTable, Created
<1>4. EmptySaves
  <2>1. Mark(1)
    BY <1>1, <1>2 DEF Mark, Jobs
  <2> QED
    BY <1>2, <2>1 DEF EmptySaves
<1> QED
  BY <1>3, <1>4 DEF SavesInv
-----------------------------------------------------------------------------
\* Owned as a function of the cache, the list on its way, the queue and the rows.
OwnedIn(c, l, q, t, i) ==
    LET latest == q[CHOOSE k \in Saves(q, i) : \A j \in Saves(q, i) : j <= k].data
        clan == IF GetClan(c, i) # 0 THEN c[GetClan(c, i)]
                ELSE IF GetClan(l, i) # 0 THEN l[GetClan(l, i)]
                ELSE IF Saves(q, i) # {} THEN latest[GetClan(latest, i)]
                ELSE t[i]
    IN  <<clan.bank, clan.ups>>

LEMMA OwnedIs ==
    ASSUME NEW i
    PROVE  /\ Owned(i) = OwnedIn(cache, load.data, queue, clans, i)
           /\ Owned(i)' = OwnedIn(cache', load'.data, queue', clans', i)
<1>1. Owned(i) = OwnedIn(cache, load.data, queue, clans, i)
  BY DEF Owned, OwnedIn, Saves
<1>2. Owned(i)' = OwnedIn(cache', load'.data, queue', clans', i)
  BY DEF Owned, OwnedIn, Saves, GetClan, Matching
<1> QED
  BY <1>1, <1>2

LEMMA OwnedCached ==
    ASSUME NEW c, NEW l, NEW q, NEW t, NEW i, NEW k, k = GetClan(c, i), k # 0
    PROVE  OwnedIn(c, l, q, t, i) = <<c[k].bank, c[k].ups>>
  BY DEF OwnedIn

LEMMA OwnedListed ==
    ASSUME NEW c, NEW l, NEW q, NEW t, NEW i, NEW k, GetClan(c, i) = 0, k = GetClan(l, i), k # 0
    PROVE  OwnedIn(c, l, q, t, i) = <<l[k].bank, l[k].ups>>
  BY DEF OwnedIn

LEMMA OwnedStored ==
    ASSUME NEW c, NEW l, NEW q, NEW t, NEW i, GetClan(c, i) = 0, GetClan(l, i) = 0, Saves(q, i) = {}
    PROVE  OwnedIn(c, l, q, t, i) = <<t[i].bank, t[i].ups>>
  BY DEF OwnedIn

LEMMA OwnedSaved ==
    ASSUME NEW c, NEW l, NEW q, NEW t, NEW i, GetClan(c, i) = 0, GetClan(l, i) = 0,
           Saves(q, i) \subseteq Nat, NEW k \in Saves(q, i), \A j \in Saves(q, i) : j <= k,
           NEW d, d = q[k].data, NEW m, m = GetClan(d, i)
    PROVE  OwnedIn(c, l, q, t, i) = <<d[m].bank, d[m].ups>>
<1> DEFINE S == Saves(q, i)
<1>1. (CHOOSE n \in S : \A j \in S : j <= n) = k
  <2> HIDE DEF S
  <2>1. S \subseteq Nat /\ k \in S /\ \A j \in S : j <= k
    BY DEF S
  <2>2. \A n \in S : (\A j \in S : j <= n) => n = k
    BY <2>1
  <2> QED
    BY <2>1, <2>2
<1> QED
  BY <1>1, Zenon DEF OwnedIn

\* Saves that move up in the queue, and rows that stay as they are.
Moved(q, r, i, d) ==
    /\ Len(q) \in Nat /\ d \in Nat
    /\ \A k \in Saves(q, i) : k - d \in Saves(r, i) /\ r[k - d] = q[k]
    /\ \A k \in Saves(r, i) : k \in Nat /\ k + d \in Saves(q, i)

LEMMA OwnedMoves ==
    ASSUME NEW c, NEW l, NEW q, NEW r, NEW t, NEW u, NEW i, NEW d, Moved(q, r, i, d),
           u[i].bank = t[i].bank, u[i].ups = t[i].ups
    PROVE  OwnedIn(c, l, r, u, i) = OwnedIn(c, l, q, t, i)
<1>0. /\ Len(q) \in Nat /\ d \in Nat
      /\ \A k \in Saves(q, i) : k - d \in Saves(r, i) /\ r[k - d] = q[k]
      /\ \A k \in Saves(r, i) : k \in Nat /\ k + d \in Saves(q, i)
  BY DEF Moved
<1>1. CASE GetClan(c, i) # 0
  BY <1>1, OwnedCached
<1>2. CASE GetClan(c, i) = 0 /\ GetClan(l, i) # 0
  BY <1>2, OwnedListed
<1>3. CASE GetClan(c, i) = 0 /\ GetClan(l, i) = 0 /\ Saves(q, i) = {}
  <2>1. Saves(r, i) = {}
    BY <1>0, <1>3
  <2> QED
    BY <1>3, <2>1, OwnedStored
<1>4. CASE GetClan(c, i) = 0 /\ GetClan(l, i) = 0 /\ Saves(q, i) # {}
  <2>1. Saves(q, i) \in SUBSET (1..Len(q))
    BY DEF Saves
  <2>2. PICK k \in Saves(q, i) : \A j \in Saves(q, i) : j <= k
    BY <1>0, <1>4, <2>1, Largest
  <2>3. PICK n : n = k - d
    OBVIOUS
  <2>4. k \in Nat /\ n \in Saves(r, i) /\ r[n] = q[k] /\ Saves(q, i) \subseteq Nat /\ Saves(r, i) \subseteq Nat
    BY <1>0, <2>1, <2>2, <2>3
  <2>5. \A j \in Saves(r, i) : j <= n
    BY <1>0, <2>2, <2>3, <2>4
  <2>6. PICK data : data = q[k].data
    OBVIOUS
  <2>7. PICK m : m = GetClan(data, i)
    OBVIOUS
  <2>8. OwnedIn(c, l, q, t, i) = <<data[m].bank, data[m].ups>>
    BY ONLY <1>4, <2>2, <2>4, <2>6, <2>7, OwnedSaved
  <2>9. data = r[n].data
    BY <2>4, <2>6
  <2>10. OwnedIn(c, l, r, u, i) = <<data[m].bank, data[m].ups>>
    BY ONLY <1>4, <2>4, <2>5, <2>7, <2>9, OwnedSaved
  <2> QED
    BY <2>8, <2>10
<1> QED
  BY <1>1, <1>2, <1>3, <1>4

LEMMA NotIn ==
    ASSUME NEW seq \in Seq(Clan), NEW i
    PROVE  GetClan(seq, i) = 0 <=> Matching(seq, i) = {}
  BY GetClanProps DEF Matching

LEMMA NothingIn == \A i : GetClan(<< >>, i) = 0
  BY DEF GetClan

LEMMA OnlyIn ==
    ASSUME NEW seq \in Seq(Clan), NEW k \in 1..Len(seq), \A j \in 1..Len(seq) : seq[j].id = seq[k].id => j = k
    PROVE  GetClan(seq, seq[k].id) = k /\ k # 0
<1>1. Len(seq) \in Nat
  BY LenProperties
<1> QED
  BY <1>1, GetClanProps

LEMMA QuietKeepsOwned ==
    ASSUME IInv, Grows, cache' = cache, load' = load, clans' = clans, NEW i
    PROVE  Owned(i)' = Owned(i)
<1>1. queue \in Seq(Job) /\ Len(queue) \in Nat
  BY LenProperties DEF IInv, TypeOK
<1>2. /\ Saves(queue', i) = Saves(queue, i)
      /\ \A k \in Saves(queue, i) : k \in Nat /\ k - 0 = k /\ k + 0 = k /\ queue'[k] = queue[k]
  BY <1>1, GrownSaves
<1>3. Moved(queue, queue', i, 0)
  BY <1>1, <1>2 DEF Moved
<1>4. OwnedIn(cache, load.data, queue', clans, i) = OwnedIn(cache, load.data, queue, clans, i)
  BY ONLY <1>3, OwnedMoves
<1> QED
  BY <1>4, OwnedIs

LEMMA AsksKeepOwned ==
    ASSUME IInv, Asks, NEW i \in 1..Len(clans)
    PROVE  Owned(i)' = Owned(i)
<1>1. cache' = cache /\ load' = load /\ clans' = clans
  BY AsksProps
<1>2. PICK job \in Job : /\ queue' = Append(queue, job) /\ job.kind # "load"
                         /\ job.kind = "save" => job.data = cache
  BY AsksProps
<1>3. queue \in Seq(Job) /\ Len(queue) \in Nat /\ cache \in Seq(Clan)
  BY LenProperties DEF IInv, TypeOK
<1>4. /\ Len(queue') = Len(queue) + 1 /\ queue'[Len(queue) + 1] = job
      /\ \A k \in 1..Len(queue) : queue'[k] = queue[k]
  BY <1>2, <1>3, AppendJobs
<1>5. \A k : k \in 1..Len(queue') <=> k \in 1..Len(queue) \/ k = Len(queue) + 1
  BY <1>3, <1>4
<1>6. CASE GetClan(cache, i) # 0
  BY <1>1, <1>6, OwnedIs, OwnedCached
<1>7. CASE GetClan(cache, i) = 0
  <2>1. Matching(cache, i) = {}
    BY <1>3, <1>7, NotIn
  <2>2. \A k : k \in Saves(queue', i) <=> k \in Saves(queue, i)
    BY <1>2, <1>3, <1>4, <1>5, <2>1 DEF Saves
  <2>6. \A k \in Saves(queue, i) : k \in Nat /\ queue'[k] = queue[k]
    BY <1>3, <1>4 DEF Saves
  <2>7. \A k \in Nat : k - 0 = k /\ k + 0 = k
    OBVIOUS
  <2>3. \A k \in Saves(queue, i) : k - 0 \in Saves(queue', i) /\ queue'[k - 0] = queue[k]
    BY <2>2, <2>6, <2>7
  <2>4. \A k \in Saves(queue', i) : k \in Nat /\ k + 0 \in Saves(queue, i)
    BY <2>2, <2>6, <2>7
  <2>5. OwnedIn(cache, load.data, queue', clans, i) = OwnedIn(cache, load.data, queue, clans, i)
    <3>1. Moved(queue, queue', i, 0)
      BY <1>3, <2>3, <2>4 DEF Moved
    <3> QED
      BY ONLY <3>1, OwnedMoves
  <2> QED
    BY <1>1, <2>5, OwnedIs
<1> QED
  BY <1>6, <1>7

\* New clans own nothing, and the list brings what it has.
LEMMA TickKeepsOwned ==
    ASSUME IInv, IInv', SavesInv, NEW autosave \in BOOLEAN, OnTick(autosave), faults = 0, NEW i \in 1..Len(clans)
    PROVE  Owned(i)' = Owned(i)
<1>1. Saves(queue', i) = Saves(queue, i) /\ clans' = clans /\ ~shutdown
  BY TickGrows, GrownSaves DEF IInv, TypeOK, OnTick, tables
<1>2. cache \in Seq(Clan) /\ load.data \in Seq(Clan) /\ cache' \in Seq(Clan) /\ creates \in Seq(CreateResult)
  BY DEF IInv, TypeOK, CreateResult
<1>3. CASE load.state = "done"
  <2>1. cache' = load.data /\ load' = NoLoad /\ cache = << >>
    BY <1>3 DEF OnTick, IInv, ListFirst
  <2>2. Len(load.data) = Len(clans) /\ \A k \in 1..Len(load.data) : load.data[k].id = k
    BY <1>1, <1>3 DEF IInv, AllKnown, ListOfRows
  <2>3. GetClan(load.data, i) # 0
    <3>1. i \in 1..Len(load.data) /\ load.data[i].id = i
      BY <2>2
    <3> QED
      BY ONLY <1>2, <3>1, GetClanProps
  <2>4. GetClan(cache, i) = 0
    BY <2>1, NothingIn
  <2> QED
    BY <2>1, <2>3, <2>4, OwnedIs, OwnedCached, OwnedListed
<1>4. CASE load.state # "done"
  <2>1. PICK rows : rows = [k \in 1..Len(creates) |->
                       NewClan(creates[k].clan, creates[k].name, [s \in Slot |-> LoggedIn(s)][creates[k].slot].id)]
    OBVIOUS
  <2>2. PICK new : new = Pick(rows, Founded)
    OBVIOUS
  <2>3. load' = load /\ cache' = cache \o new
    BY <1>4, <2>1, <2>2 DEF OnTick
  <2>4. PICK T : T = {rows[k] : k \in 1..Len(creates)}
    OBVIOUS
  <2>5. Len(creates) \in Nat /\ rows \in [1..Len(creates) -> T]
    BY <1>2, <2>1, <2>4, LenProperties
  <2>6. rows \in Seq(T) /\ Len(rows) = Len(creates)
    BY <2>5, FunctionIsSeq
  <2>7. Founded \in SUBSET (1..Len(rows))
    BY <1>2, <2>6, ReadyProps DEF Founded
  <2>8. new \in Seq(T) /\ Len(new) \in Nat
    BY <2>2, <2>6, <2>7, PickProps
  <2>9. \A row \in T : row.bank = 0 /\ row.ups = NoUps
    <3>1. \A id, n, a : NewClan(id, n, a).bank = 0 /\ NewClan(id, n, a).ups = NoUps
      BY DEF NewClan, NoUps
    <3>2. ASSUME NEW row \in T PROVE \E id, n, a : row = NewClan(id, n, a)
      <4>1. PICK k \in 1..Len(creates) : row = rows[k]
        BY <2>4
      <4> QED
        BY <2>1, <4>1
    <3> QED
      BY <3>1, <3>2
  <2>10. /\ Len(cache) \in Nat /\ Len(cache') = Len(cache) + Len(new)
         /\ \A k \in 1..Len(cache) : cache'[k] = cache[k]
         /\ \A k \in 1..Len(cache') : k \notin 1..Len(cache) => cache'[k] \in T
    <3>1. cache \in Seq(Clan \cup T) /\ new \in Seq(Clan \cup T) /\ Len(cache) \in Nat
      BY <1>2, <2>8, LenProperties
    <3>2. /\ Len(cache \o new) = Len(cache) + Len(new)
          /\ \A k \in 1..(Len(cache) + Len(new)) :
                (cache \o new)[k] = IF k <= Len(cache) THEN cache[k] ELSE new[k - Len(cache)]
      BY ONLY <3>1, ConcatProperties, Zenon
    <3>3. /\ Len(cache') = Len(cache) + Len(new)
          /\ \A k \in 1..(Len(cache) + Len(new)) :
                cache'[k] = IF k <= Len(cache) THEN cache[k] ELSE new[k - Len(cache)]
      BY <2>3, <3>2, Zenon
    <3>4. \A k \in 1..Len(new) : new[k] \in T
      BY <2>8, ElementOfSeq
    <3>5. ASSUME NEW k \in 1..Len(cache'), k \notin 1..Len(cache)
          PROVE  cache'[k] \in T
      <4>1. ~(k <= Len(cache)) /\ k - Len(cache) \in 1..Len(new)
        BY <2>8, <3>1, <3>3, <3>5
      <4> QED
        BY <3>3, <3>4, <4>1
    <3>6. \A k \in 1..Len(cache) : cache'[k] = cache[k]
      BY <2>8, <3>1, <3>3
    <3> QED
      BY <3>1, <3>3, <3>5, <3>6
  <2>11. CASE GetClan(cache, i) # 0
    <3>1. PICK k : k = GetClan(cache, i)
      OBVIOUS
    <3>2. k # 0 /\ k \in 1..Len(cache) /\ cache[k].id = i
      BY <1>2, <2>11, <3>1, GetClanProps
    <3>3. k \in 1..Len(cache') /\ cache'[k] = cache[k]
      BY <2>8, <2>10, <3>2
    <3>4. \A j \in 1..Len(cache') : cache'[j].id = cache'[k].id => j = k
      BY <3>3 DEF IInv, CacheAgrees
    <3>5. k = GetClan(cache', i)
      BY <1>2, <3>2, <3>3, <3>4, OnlyIn
    <3> QED
      <4>1. Owned(i) = <<cache[k].bank, cache[k].ups>>
        BY <3>1, <3>2, OwnedIs, OwnedCached
      <4>2. Owned(i)' = <<cache'[k].bank, cache'[k].ups>>
        BY <3>2, <3>5, OwnedIs, OwnedCached
      <4> QED
        BY <3>3, <4>1, <4>2
  <2>12. CASE GetClan(cache, i) = 0 /\ load.state = "none"
    <3>1. PICK c \in Created : creates[c].clan = i
      BY <1>1, <2>12 DEF IInv, AllKnown, Known, Created
    <3>2. clans[i].bank = 0 /\ clans[i].ups = NoUps /\ Saves(queue, i) = {}
      BY <3>1 DEF SavesInv, Fresh
    <3>3. GetClan(load.data, i) = 0
      <4>1. load.data = << >>
        BY <2>12 DEF IInv, ListOfRows
      <4> QED
        BY <4>1, NothingIn
    <3>4. Owned(i) = <<0, NoUps>>
      BY <2>12, <3>2, <3>3, OwnedIs, OwnedStored
    <3>5. CASE GetClan(cache', i) = 0
      BY <1>1, <2>3, <3>2, <3>3, <3>4, <3>5, OwnedIs, OwnedStored
    <3>6. CASE GetClan(cache', i) # 0
      <4>1. PICK k : k = GetClan(cache', i)
        OBVIOUS
      <4>2. k # 0 /\ k \in 1..Len(cache') /\ cache'[k].id = i
        BY <1>2, <3>6, <4>1, GetClanProps
      <4>3. k \notin 1..Len(cache)
        BY <1>2, <2>10, <2>12, <4>2, GetClanProps
      <4>4. cache'[k].bank = 0 /\ cache'[k].ups = NoUps
        BY <2>9, <2>10, <4>2, <4>3
      <4> QED
        BY <3>4, <4>1, <4>2, <4>4, OwnedIs, OwnedCached
    <3> QED
      BY <3>5, <3>6
  <2>13. CASE GetClan(cache, i) = 0 /\ load.state # "none"
    <3>1. creates = << >> /\ cache = << >>
      BY <2>13 DEF IInv, ListFirst
    <3>2. Len(new) = 0
      <4>1. T = {}
        BY <2>4, <3>1
      <4> QED
        BY <2>8, <4>1, ElementOfSeq
    <3>3. Len(cache') = 0
      BY <2>10, <3>1, <3>2
    <3>4. cache' = cache
      BY <1>2, <3>1, <3>3, EmptySeq
    <3> QED
      BY <1>1, <2>3, <3>4, TickGrows, QuietKeepsOwned
  <2> QED
    BY <2>11, <2>12, <2>13
<1> QED
  BY <1>3, <1>4

\* A change of the map leaves what a clan owns to its save, and what is on its
\* way to the table.
LEMMA ReloadKeepsOwned ==
    ASSUME IInv, SavesInv, Reload, NEW i \in 1..Len(clans)
    PROVE  Owned(i)' = Owned(i)
<1>1. cache' = << >> /\ load'.data = << >> /\ clans' = clans /\ ~shutdown
  BY DEF Reload, tables, NoLoad
<1>2. /\ cache \in Seq(Clan) /\ load.data \in Seq(Clan)
      /\ GetClan(cache', i) = 0 /\ GetClan(load'.data, i) = 0
  BY <1>1, NothingIn DEF IInv, TypeOK
<1>3. /\ Len(queue) \in Nat /\ Len(queue') = Len(queue) + 2
      /\ \A k \in 1..Len(queue) : queue'[k] = queue[k]
      /\ queue'[Len(queue) + 1].kind = "save" /\ queue'[Len(queue) + 1].data = cache
      /\ queue'[Len(queue) + 2].kind = "load"
      /\ \A k \in 1..Len(queue') : k \in 1..Len(queue) \/ k = Len(queue) + 1 \/ k = Len(queue) + 2
  BY ReloadJobs DEF SaveJob, LoadJob
<1>4. CASE GetClan(cache, i) # 0
  <2>1. PICK n : n = Len(queue) + 1
    OBVIOUS
  <2>2. PICK m : m = GetClan(cache, i)
    OBVIOUS
  <2>3. Matching(cache, i) # {}
    BY <1>2, <1>4, NotIn
  <2>4. n \in Saves(queue', i) /\ Saves(queue', i) \subseteq Nat /\ \A j \in Saves(queue', i) : j <= n
    BY <1>3, <2>1, <2>3 DEF Saves
  <2>5. cache = queue'[n].data
    BY <1>3, <2>1
  <2>6. OwnedIn(cache', load'.data, queue', clans', i) = <<cache[m].bank, cache[m].ups>>
    BY ONLY <1>2, <2>2, <2>4, <2>5, OwnedSaved
  <2>7. OwnedIn(cache, load.data, queue, clans, i) = <<cache[m].bank, cache[m].ups>>
    BY <1>4, <2>2, OwnedCached
  <2> QED
    BY <2>6, <2>7, OwnedIs
<1>5. CASE GetClan(cache, i) = 0
  <2>1. Matching(cache, i) = {}
    BY <1>2, <1>5, NotIn
  <2>2. \A k : k \in Saves(queue', i) <=> k \in Saves(queue, i)
    <3>1. \A k : k \in 1..Len(queue') <=> k \in 1..Len(queue) \/ k = Len(queue) + 1 \/ k = Len(queue) + 2
      BY <1>3
    <3>2. \A k \in 1..Len(queue) : k # Len(queue) + 1 /\ k # Len(queue) + 2
      BY <1>3
    <3> QED
      BY <1>3, <2>1, <3>1, <3>2 DEF Saves
  <2>3. CASE GetClan(load.data, i) = 0
    <3>1. \A k \in Saves(queue, i) : k \in Nat /\ queue'[k] = queue[k]
      BY <1>3 DEF Saves
    <3>2. \A k \in Nat : k - 0 = k /\ k + 0 = k
      OBVIOUS
    <3>3. \A k \in Saves(queue, i) : k - 0 \in Saves(queue', i) /\ queue'[k - 0] = queue[k]
      BY <2>2, <3>1, <3>2
    <3>4. \A k \in Saves(queue', i) : k \in Nat /\ k + 0 \in Saves(queue, i)
      BY <2>2, <3>1, <3>2
    <3>5. OwnedIn(cache', load'.data, queue', clans, i) = OwnedIn(cache', load'.data, queue, clans, i)
      <4>1. Moved(queue, queue', i, 0)
        BY <1>3, <3>3, <3>4 DEF Moved
      <4> QED
        BY ONLY <4>1, OwnedMoves
    <3>6. OwnedIn(cache', load'.data, queue, clans, i) = OwnedIn(cache, load.data, queue, clans, i)
      BY <1>2, <1>5, <2>3 DEF OwnedIn
    <3> QED
      BY <1>1, <3>5, <3>6, OwnedIs
  <2>4. CASE GetClan(load.data, i) # 0
    <3>1. PICK m : m = GetClan(load.data, i)
      OBVIOUS
    <3>2. m # 0 /\ m \in 1..Len(load.data) /\ load.data[m].id = i
      BY <1>2, <2>4, <3>1, GetClanProps
    <3>3. load.state = "done"
      BY <2>4, NothingIn DEF IInv, ListOfRows
    <3>4. m = i
      BY <3>2 DEF IInv, ListOfRows
    <3>5. clans[i].bank = load.data[m].bank /\ clans[i].ups = load.data[m].ups
      BY <3>2, <3>3, <3>4 DEF SavesInv, ListIsTable
    <3>6. Saves(queue, i) = {}
      <4>1. PICK p \in 0..Len(queue) :
              /\ Mark(p)
              /\ load.state # "none" =>
                    \A k \in (p + 1)..Len(queue) : queue[k].kind = "save" => queue[k].data = << >>
        BY <1>1 DEF SavesInv, EmptySaves
      <4>2. p = 0
        BY <3>3, <4>1 DEF Mark
      <4>3. \A k \in 1..Len(queue) : queue[k].kind = "save" => queue[k].data = << >>
        BY <3>3, <4>1, <4>2
      <4> QED
        BY <4>3 DEF Saves, Matching
    <3>7. Saves(queue', i) = {}
      BY <2>2, <3>6
    <3>8. Owned(i) = <<load.data[m].bank, load.data[m].ups>>
      BY <1>5, <3>1, <3>2, OwnedIs, OwnedListed
    <3>9. Owned(i)' = <<clans[i].bank, clans[i].ups>>
      BY <1>1, <1>2, <3>7, OwnedIs, OwnedStored
    <3> QED
      BY <3>5, <3>8, <3>9
  <2> QED
    BY <2>3, <2>4
<1> QED
  BY <1>4, <1>5

\* The end of a job that did not save the clan, and left its row alone.
LEMMA JobKeepsOwned ==
    ASSUME IInv, queue # << >>, queue' = Tail(queue), cache' = cache, NEW i, 1 \notin Saves(queue, i),
           clans'[i].bank = clans[i].bank, clans'[i].ups = clans[i].ups,
           NEW l
    PROVE  OwnedIn(cache', l, queue', clans', i) = OwnedIn(cache, l, queue, clans, i)
<1>1. /\ Len(queue) \in Nat /\ Len(queue) >= 1 /\ Len(queue') = Len(queue) - 1
      /\ \A k \in 1..(Len(queue) - 1) : queue'[k] = queue[k + 1]
  BY TailJobs DEF IInv, TypeOK
<1>2. ASSUME NEW k \in Saves(queue, i)
      PROVE  k - 1 \in Saves(queue', i) /\ queue'[k - 1] = queue[k]
  <2>1. k \in 1..Len(queue) /\ k # 1 /\ queue[k].kind = "save" /\ Matching(queue[k].data, i) # {}
    BY DEF Saves
  <2>2. k - 1 \in 1..(Len(queue) - 1) /\ (k - 1) + 1 = k
    BY <1>1, <2>1
  <2>3. queue'[k - 1] = queue[k]
    BY <1>1, <2>2
  <2> QED
    BY <1>1, <2>1, <2>2, <2>3 DEF Saves
<1>3. ASSUME NEW k \in Saves(queue', i)
      PROVE  k \in Nat /\ k + 1 \in Saves(queue, i)
  <2>1. k \in 1..Len(queue') /\ queue'[k].kind = "save" /\ Matching(queue'[k].data, i) # {}
    BY DEF Saves
  <2>2. k \in 1..(Len(queue) - 1) /\ k + 1 \in 1..Len(queue) /\ queue'[k] = queue[k + 1]
    BY <1>1, <2>1
  <2> QED
    BY <2>1, <2>2 DEF Saves
<1>4. OwnedIn(cache, l, queue', clans', i) = OwnedIn(cache, l, queue, clans, i)
  <2>1. PICK d, r, u : d = 1 /\ r = queue' /\ u = clans'
    OBVIOUS
  <2>2. Len(queue) \in Nat /\ d \in Nat
    BY <1>1, <2>1
  <2>3. u[i].bank = clans[i].bank /\ u[i].ups = clans[i].ups
    BY <2>1
  <2>4. \A k \in Saves(queue, i) : k - d \in Saves(r, i) /\ r[k - d] = queue[k]
    BY <1>2, <2>1
  <2>5. \A k \in Saves(r, i) : k \in Nat /\ k + d \in Saves(queue, i)
    BY <1>3, <2>1
  <2>6. OwnedIn(cache, l, r, u, i) = OwnedIn(cache, l, queue, clans, i)
    <3>1. Moved(queue, r, i, d)
      BY <2>2, <2>4, <2>5 DEF Moved
    <3> QED
      BY ONLY <2>3, <3>1, OwnedMoves
  <2> QED
    BY <2>1, <2>6
<1> QED
  BY <1>4

LEMMA NoSave ==
    ASSUME IInv, queue # << >>, Head(queue).kind # "save", NEW i
    PROVE  1 \notin Saves(queue, i)
  BY TailJobs DEF IInv, TypeOK, Saves

LEMMA ReadsKeepOwned ==
    ASSUME IInv, NEW i \in 1..Len(clans),
           \/ RunLogin
           \/ \E members \in 0..Cardinality(Account) : RunCount(members)
           \/ \E whole \in BOOLEAN : RunAccountSave(whole)
    PROVE  Owned(i)' = Owned(i)
<1>1. /\ queue # << >> /\ queue' = Tail(queue) /\ cache' = cache /\ clans' = clans /\ load' = load
      /\ Head(queue).kind # "save"
  BY DEF RunLogin, RunCount, RunAccountSave, Running, Finish, requests, tables
<1> QED
  BY <1>1, NoSave, JobKeepsOwned, OwnedIs

LEMMA RunCreateKeepsOwned ==
    ASSUME IInv, NEW stop \in 1..4, RunCreate(stop), NEW i \in 1..Len(clans)
    PROVE  Owned(i)' = Owned(i)
<1>1. /\ queue # << >> /\ queue' = Tail(queue) /\ cache' = cache /\ load' = load
      /\ Head(queue).kind # "save"
  BY DEF RunCreate, Running, Finish
<1>2. clans'[i] = clans[i]
  BY CreatedRows
<1> QED
  BY <1>1, <1>2, NoSave, JobKeepsOwned, OwnedIs

\* The list takes what the table has, which is all there is: older saves have
\* been carried out before it was read.
LEMMA RunLoadKeepsOwned ==
    ASSUME IInv, IInv', SavesInv, NEW stop \in ClanId, RunLoad(stop), stop = Len(clans), NEW i \in 1..Len(clans)
    PROVE  Owned(i)' = Owned(i)
<1>1. /\ queue # << >> /\ queue' = Tail(queue) /\ cache' = cache /\ clans' = clans /\ shutdown' = shutdown
      /\ Head(queue).kind = "load" /\ ~shutdown /\ load' = LoadDone(SubSeq(clans, 1, stop))
  BY DEF RunLoad, Running, Finish, tables
<1>2. PICK data : data = SubSeq(clans, 1, stop)
  OBVIOUS
<1>3. CASE load' = load
  BY <1>1, <1>3, NoSave, JobKeepsOwned, OwnedIs
<1>4. CASE load' # load
  <2>1. load.state = "pending" /\ load'.state = "done" /\ load'.data = data
    BY <1>1, <1>2, <1>4 DEF LoadDone
  <2>2. cache = << >> /\ load.data = << >>
    BY <2>1 DEF IInv, ListFirst, ListOfRows
  <2>3. GetClan(cache, i) = 0 /\ GetClan(load.data, i) = 0
    BY <2>2, NothingIn
  <2>4. Saves(queue, i) = {}
    <3>1. PICK p \in 0..Len(queue) :
            /\ Mark(p)
            /\ load.state # "none" =>
                  \A k \in (p + 1)..Len(queue) : queue[k].kind = "save" => queue[k].data = << >>
      BY <1>1 DEF SavesInv, EmptySaves
    <3>2. Len(queue) \in Nat /\ Len(queue) >= 1 /\ Head(queue) = queue[1] /\ queue \in Seq(Job)
      BY <1>1, TailJobs DEF IInv, TypeOK
    <3>3. PICK o : o = IF p = 0 THEN 0 ELSE p - 1
      OBVIOUS
    <3>4. Mark(o)'
      <4>1. load' = IF Head(queue).kind = "load" THEN LoadDone(data) ELSE load
        BY <1>1, <1>2
      <4>2. Mark(IF p = 0 THEN 0 ELSE p - 1)'
        BY ONLY <1>1, <3>1, <3>2, <4>1, TailKeepsMark
      <4> QED
        BY <3>3, <4>2, Zenon DEF Mark, Jobs
    <3>5. p = 1
      BY <2>1, <3>1, <3>2, <3>3, <3>4 DEF Mark
    <3>6. \A k \in 1..Len(queue) : k = 1 \/ k \in (p + 1)..Len(queue)
      BY <3>2, <3>5
    <3>7. \A k \in 1..Len(queue) : queue[k].kind = "save" => queue[k].data = << >>
      BY <1>1, <2>1, <3>1, <3>2, <3>6
    <3> QED
      BY <3>7 DEF Saves, Matching
  <2>5. clans \in Seq(Clan) /\ Len(clans) \in Nat /\ load'.data \in Seq(Clan)
    BY LenProperties DEF IInv, TypeOK
  <2>6. Len(data) = Len(clans) /\ data[i] = clans[i]
    <3>1. \A k \in 1..Len(clans) : clans[k] \in Clan
      BY <2>5, ElementOfSeq
    <3> QED
      BY <1>2, <2>5, <3>1
  <2>7. \A k \in 1..Len(data) : data[k].id = k
    BY <2>1 DEF IInv, ListOfRows
  <2>8. GetClan(data, i) = i /\ i # 0
    <3>1. data \in Seq(Clan) /\ i \in 1..Len(data) /\ data[i].id = i
      BY <2>1, <2>5, <2>6, <2>7
    <3>2. \A j \in 1..Len(data) : data[j].id = data[i].id => j = i
      BY <2>7, <3>1
    <3>3. GetClan(data, data[i].id) = i /\ i # 0
      BY ONLY <3>1, <3>2, OnlyIn
    <3> QED
      BY <3>1, <3>3
  <2>9. Owned(i) = <<clans[i].bank, clans[i].ups>>
    BY <2>3, <2>4, OwnedIs, OwnedStored
  <2>10. Owned(i)' = <<data[i].bank, data[i].ups>>
    BY <1>1, <2>1, <2>3, <2>8, OwnedIs, OwnedListed
  <2> QED
    BY <2>6, <2>9, <2>10
<1> QED
  BY <1>3, <1>4

\* A whole save brings a clan into the table as it is, unless a later save is
\* still to come.
LEMMA RunSaveKeepsOwned ==
    ASSUME IInv, SavesInv, NEW stop \in ClanId, RunSave(stop), stop = Len(Head(queue).data), NEW i \in 1..Len(clans)
    PROVE  Owned(i)' = Owned(i)
<1>1. queue # << >> /\ queue' = Tail(queue) /\ cache' = cache /\ load' = load
  BY DEF RunSave, Running, Finish, requests
<1>2. PICK d : d = Head(queue).data
  OBVIOUS
<1>3. /\ d \in Seq(Clan) /\ d = queue[1].data /\ queue[1].kind = "save"
      /\ Matching(d, i) = {} => clans'[i] = clans[i]
      /\ \A j \in Matching(d, i) : clans'[i].bank = d[j].bank /\ clans'[i].ups = d[j].ups
  BY <1>2, SavedRows
<1>4. /\ Len(queue) \in Nat /\ Len(queue) >= 1 /\ Len(queue') = Len(queue) - 1
      /\ \A k \in 1..(Len(queue) - 1) : queue'[k] = queue[k + 1]
  BY <1>1, TailJobs DEF IInv, TypeOK
<1>5. CASE GetClan(cache, i) # 0
  BY <1>1, <1>5, OwnedIs, OwnedCached
<1>6. CASE GetClan(cache, i) = 0 /\ GetClan(load.data, i) # 0
  BY <1>1, <1>6, OwnedIs, OwnedListed
<1>7. CASE Matching(d, i) = {}
  <2>1. 1 \notin Saves(queue, i)
    BY <1>3, <1>7 DEF Saves
  <2>2. clans'[i] = clans[i]
    BY <1>3, <1>7
  <2> QED
    BY <1>1, <2>1, <2>2, JobKeepsOwned, OwnedIs
<1>8. CASE GetClan(cache, i) = 0 /\ GetClan(load.data, i) = 0 /\ Matching(d, i) # {}
  <2>1. 1 \in Saves(queue, i) /\ Saves(queue, i) \in SUBSET (1..Len(queue))
    BY <1>3, <1>4, <1>8 DEF Saves
  <2>2. PICK k \in Saves(queue, i) : \A j \in Saves(queue, i) : j <= k
    BY <1>4, <2>1, Largest
  <2>3. Saves(queue, i) \subseteq Nat /\ k \in 1..Len(queue)
    BY <2>1
  <2>4. ASSUME NEW n \in Saves(queue', i)
        PROVE  n \in Nat \ {0} /\ n + 1 \in Saves(queue, i)
    <3>1. n \in 1..Len(queue') /\ queue'[n].kind = "save" /\ Matching(queue'[n].data, i) # {}
      BY DEF Saves
    <3>2. n \in 1..(Len(queue) - 1) /\ n + 1 \in 1..Len(queue) /\ queue'[n] = queue[n + 1]
      BY <1>4, <3>1
    <3> QED
      BY <3>1, <3>2 DEF Saves
  <2>5. PICK data : data = queue[k].data
    OBVIOUS
  <2>6. PICK m : m = GetClan(data, i)
    OBVIOUS
  <2>7. OwnedIn(cache, load.data, queue, clans, i) = <<data[m].bank, data[m].ups>>
    BY ONLY <1>8, <2>2, <2>3, <2>5, <2>6, OwnedSaved
  <2>8. CASE k = 1
    <3>1. Saves(queue', i) = {}
      <4>1. ASSUME NEW n \in Saves(queue', i) PROVE FALSE
        <5>1. n \in Nat \ {0} /\ n + 1 <= 1
          BY <2>2, <2>4, <2>8
        <5> QED
          BY <5>1
      <4> QED
        BY <4>1
    <3>2. m \in Matching(d, i)
      BY <1>3, <1>8, <2>5, <2>6, <2>8, NotIn, GetClanProps DEF Matching
    <3>3. OwnedIn(cache, load.data, queue', clans', i) = <<clans'[i].bank, clans'[i].ups>>
      BY <1>8, <3>1, OwnedStored
    <3> QED
      BY <1>1, <1>3, <2>5, <2>7, <2>8, <3>2, <3>3, OwnedIs
  <2>9. CASE k # 1
    <3>1. PICK n : n = k - 1
      OBVIOUS
    <3>2. n \in 1..(Len(queue) - 1) /\ n + 1 = k
      BY <1>4, <2>3, <2>9, <3>1
    <3>3. queue'[n] = queue[k] /\ n \in 1..Len(queue')
      BY <1>4, <3>2
    <3>4. n \in Saves(queue', i)
      BY <3>3 DEF Saves
    <3>5. Saves(queue', i) \subseteq Nat /\ \A j \in Saves(queue', i) : j <= n
      <4>1. ASSUME NEW j \in Saves(queue', i) PROVE j \in Nat /\ j <= n
        <5>1. j \in Nat /\ j + 1 <= k /\ n \in Nat /\ k = n + 1
          BY <2>2, <2>4, <3>2
        <5> QED
          BY <5>1
      <4> QED
        BY <4>1
    <3>6. data = queue'[n].data
      BY <2>5, <3>3
    <3>7. OwnedIn(cache, load.data, queue', clans', i) = <<data[m].bank, data[m].ups>>
      BY ONLY <1>8, <2>6, <3>4, <3>5, <3>6, OwnedSaved
    <3> QED
      BY <1>1, <2>7, <3>7, OwnedIs
  <2> QED
    BY <2>8, <2>9
<1> QED
  BY <1>5, <1>6, <1>7, <1>8

LEMMA NextKeepsOwned ==
    ASSUME IInv, IInv', SavesInv, Next, faults' = 0, ~shutdown', ~Business, NEW i \in 1..Len(clans)
    PROVE  Owned(i)' = Owned(i)
<1>1. ASSUME NEW s \in Slot, Connect(s) \/ Drop(s) \/ LeaveClan(s) \/ AcceptInvite(s) \/ InviteEnds(s) \/ LevelUp(s)
                         \/ \E l \in Langs : ChatLang(s, l)
      PROVE  Owned(i)' = Owned(i)
  BY <1>1, PlayersAreQuiet, QuietKeepsOwned
<1>2. CASE Asks
  BY <1>2, AsksKeepOwned
<1>3. ASSUME NEW autosave \in BOOLEAN, OnTick(autosave) PROVE Owned(i)' = Owned(i)
  <2>1. faults = 0
    BY <1>3 DEF OnTick
  <2> QED
    BY <1>3, <2>1, TickKeepsOwned
<1>4. CASE Reload
  BY <1>4, ReloadKeepsOwned
<1>5. CASE Shutdown
  BY <1>5 DEF Shutdown
<1>6. CASE RunJob
  <2>1. shutdown \in BOOLEAN
    BY DEF IInv, TypeOK
  <2>2. CASE Fail
    <3>1. shutdown' = shutdown /\ Finish(shutdown)
      BY <2>2 DEF Fail, Finish
    <3> QED
      BY <2>1, <3>1, FinishProps
  <2>3. ASSUME NEW stop \in 1..4, RunCreate(stop) PROVE Owned(i)' = Owned(i)
    BY <2>3, RunCreateKeepsOwned
  <2>4. ASSUME NEW stop \in ClanId, RunLoad(stop) PROVE Owned(i)' = Owned(i)
    <3>1. (stop = Len(clans)) \in BOOLEAN /\ Finish(stop = Len(clans))
      BY <2>4 DEF RunLoad
    <3>2. stop = Len(clans)
      BY <3>1, FinishProps
    <3> QED
      BY <2>4, <3>2, RunLoadKeepsOwned
  <2>5. ASSUME NEW stop \in ClanId, RunSave(stop) PROVE Owned(i)' = Owned(i)
    <3>1. (stop = Len(Head(queue).data)) \in BOOLEAN /\ Finish(stop = Len(Head(queue).data))
      BY <2>5 DEF RunSave
    <3>2. stop = Len(Head(queue).data)
      BY <3>1, FinishProps
    <3> QED
      BY <2>5, <3>2, RunSaveKeepsOwned
  <2>6. CASE \/ RunLogin
             \/ \E members \in 0..Cardinality(Account) : RunCount(members)
             \/ \E whole \in BOOLEAN : RunAccountSave(whole)
    BY <2>6, ReadsKeepOwned
  <2> QED
    BY <1>6, <2>2, <2>3, <2>4, <2>5, <2>6 DEF RunJob
<1> QED
  BY <1>1, <1>2, <1>3, <1>4, <1>5, <1>6 DEF Next, Asks

\* As long as the database works, nothing but paying in and buying changes what
\* a clan owns: not the saves and loads around a change of the map, whatever
\* else is in the queue, and not the answers that come late.
THEOREM BankCorrect == Spec => BankKept
<1>1. IInv /\ SavesInv /\ [Next]_vars => SavesInv' /\ IInv'
  BY NextKeepsIInv, NextKeepsSaves
<1>2. IInv /\ SavesInv /\ [Next]_vars =>
        [faults' = 0 /\ ~shutdown' /\ ~Business => \A i \in 1..Len(clans) : Owned(i)' = Owned(i)]_vars
  BY <1>1, NextKeepsOwned
<1>3. Init => IInv /\ SavesInv
  BY InitIInv, InitSaves
<1> QED
  BY <1>1, <1>2, <1>3, PTL DEF Spec, BankKept
=============================================================================
