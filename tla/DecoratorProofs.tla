--------------------------- MODULE DecoratorProofs ---------------------------
(* Proofs about Decorator, for any callers, functions and queries *)
EXTENDS Decorator, FiniteSetTheorems, SequenceTheorems, TLAPS

-----------------------------------------------------------------------------
(* The queries that missed *)

(* Rank numbers the positions that missed from 1 on, without a gap, and    *)
(* Missed lists their queries in that order (decorators.py:296-299).       *)
LEMMA RankBijective ==
    ASSUME NEW c, NEW n \in Nat, DOMAIN c.queries = 1..n
    PROVE  /\ Cardinality(Missing(c)) \in Nat
           /\ Missing(c) = {} <=> Cardinality(Missing(c)) = 0
           /\ Cardinality(Missing(c)) <= n
           /\ DOMAIN Missed(c) = 1..Cardinality(Missing(c))
           /\ \A i \in Missing(c) :
                  /\ Rank(c, i) \in 1..Cardinality(Missing(c))
                  /\ Missed(c)[Rank(c, i)] = c.queries[i]
           /\ \A k \in 1..Cardinality(Missing(c)) :
                  \E i \in Missing(c) : Rank(c, i) = k /\ Missed(c)[k] = c.queries[i]
<1> DEFINE M == Missing(c)
           m == Cardinality(M)
           upto(i) == {j \in M : j <= i}
           rank == [i \in M |-> Rank(c, i)]
<1>1. M \subseteq 1..n
    BY DEF Missing
<1>2. /\ IsFiniteSet(M)
      /\ m \in Nat
      /\ m <= n
      /\ M = {} <=> m = 0
    <2>1. IsFiniteSet(1..n) /\ Cardinality(1..n) = n
        BY FS_Interval
    <2>2. IsFiniteSet(M) /\ m <= n
        BY <1>1, <2>1, FS_Subset
    <2> QED BY <2>2, FS_CardinalityType, FS_EmptySet
<1>3. ASSUME NEW i \in M
      PROVE  /\ IsFiniteSet(upto(i))
             /\ Rank(c, i) = Cardinality(upto(i))
             /\ Rank(c, i) \in 1..m
    <2>1. upto(i) \in SUBSET M /\ i \in upto(i)
        BY <1>1
    <2>2. IsFiniteSet(upto(i)) /\ Cardinality(upto(i)) <= m
        BY <2>1, <1>2, FS_Subset
    <2>3. Cardinality(upto(i)) \in Nat /\ Cardinality(upto(i)) # 0
        BY <2>1, <2>2, FS_CardinalityType, FS_EmptySet
    <2> QED BY <2>2, <2>3, <1>2 DEF Rank
<1>4. ASSUME NEW i \in M, NEW j \in M, i < j
      PROVE  Rank(c, i) < Rank(c, j)
    <2>1. upto(i) \in SUBSET upto(j) /\ j \in upto(j) /\ j \notin upto(i)
        BY <1>1, <1>4
    <2>2. Cardinality(upto(i)) <= Cardinality(upto(j)) /\ Cardinality(upto(i)) # Cardinality(upto(j))
        BY <2>1, <1>3, FS_Subset
    <2> QED BY <2>2, <1>3
<1>5. ASSUME NEW i \in M, NEW j \in M, Rank(c, i) = Rank(c, j)
      PROVE  i = j
    <2>1. /\ i \in Int /\ j \in Int
          /\ Rank(c, i) \in Int /\ Rank(c, j) \in Int
        <3>1. i \in 1..n /\ j \in 1..n
            BY <1>1
        <3>2. Rank(c, i) \in 1..m
            BY <1>3
        <3>3. Rank(c, j) \in 1..m
            BY <1>3
        <3>4. m \in Nat
            BY <1>2
        <3> HIDE DEF m
        <3> QED BY <3>1, <3>2, <3>3, <3>4
    <2>2. ~(i < j)
        BY <2>1, <1>4, <1>5
    <2>3. ~(j < i)
        BY <2>1, <1>4, <1>5
    <2> QED BY <2>1, <2>2, <2>3
<1>6. ASSUME NEW i \in M
      PROVE  Missed(c)[Rank(c, i)] = c.queries[i]
    <2>1. (CHOOSE x \in M : Rank(c, x) = Rank(c, i)) = i
        BY <1>5
    <2> QED BY <2>1, <1>3 DEF Missed
<1>7. ASSUME NEW k \in 1..m
      PROVE  \E i \in M : Rank(c, i) = k
    <2>1. rank \in Injection(M, 1..m)
        BY <1>3, <1>5 DEF Injection, IsInjective
    <2>2. IsFiniteSet(1..m) /\ Cardinality(1..m) = m
        BY <1>2, FS_Interval
    <2>3. rank \in Surjection(M, 1..m)
        BY <2>1, <2>2, FS_Injection
    <2> QED BY <2>3 DEF Surjection
<1>8. DOMAIN Missed(c) = 1..m
    BY DEF Missed
<1> QED BY <1>2, <1>3, <1>6, <1>7, <1>8

(* Missing, Rank, Missed and the others depend on the queries of a call,   *)
(* what was found, and the names only: not on its progress or its history. *)
LEMMA SameCall ==
    ASSUME NEW c, NEW d, NEW n \in Nat, DOMAIN c.queries = 1..n,
           d.queries = c.queries, d.found = c.found, d.func = c.func, d.arg = c.arg
    PROVE  /\ Missing(d) = Missing(c)
           /\ Pending(d) = Pending(c)
           /\ Context(d) = Context(c)
           /\ \A i : Rank(d, i) = Rank(c, i)
           /\ DOMAIN Missed(d) = DOMAIN Missed(c)
           /\ \A k \in DOMAIN Missed(c) : Missed(d)[k] = Missed(c)[k]
<1>1. Missing(d) = Missing(c)
    BY DEF Missing
<1>2. Pending(d) = Pending(c)
    BY DEF Pending
<1>3. Context(d) = Context(c)
    BY DEF Context
<1>4. \A i : Rank(d, i) = Rank(c, i)
    BY <1>1 DEF Rank
<1>5. DOMAIN Missed(d) = DOMAIN Missed(c)
    BY <1>1, RankBijective
<1>6. ASSUME NEW k \in DOMAIN Missed(c)
      PROVE  Missed(d)[k] = Missed(c)[k]
    <2>1. PICK i \in Missing(c) : Rank(c, i) = k /\ Missed(c)[k] = c.queries[i]
        BY <1>6, RankBijective
    <2>2. Missed(d)[Rank(d, i)] = d.queries[i]
        BY <1>1, <2>1, RankBijective
    <2> QED BY <1>4, <2>1, <2>2
<1> QED BY <1>1, <1>2, <1>3, <1>4, <1>5, <1>6

(* The marks of a position that was not looked up, or missed, are no       *)
(* results.                                                                *)
LEMMA Marks == Unseen \notin Results /\ Miss \notin Results /\ Unseen # Miss
BY DecoratorAssumption DEF DecoratorAssumption, Results, Unseen, Miss

(* The queries of a call, and those of them that missed *)
LEMMA Shape ==
    ASSUME NEW c \in Active
    PROVE  /\ Len(c.queries) \in Nat /\ DOMAIN c.queries = 1..Len(c.queries)
           /\ Len(c.found) \in Nat /\ DOMAIN c.found = 1..Len(c.found)
           /\ Cardinality(Missing(c)) \in Nat
           /\ DOMAIN Missed(c) = 1..Cardinality(Missing(c))
           /\ \A k \in DOMAIN Missed(c) : Missed(c)[k] \in Query
           /\ Context(c) \in Contexts
<1>1. c.queries \in Seq(Query) /\ c.found \in Seq(Results \cup {Unseen, Miss})
    BY DEF Active
<1>2. /\ Len(c.queries) \in Nat /\ DOMAIN c.queries = 1..Len(c.queries)
      /\ Len(c.found) \in Nat /\ DOMAIN c.found = 1..Len(c.found)
    BY <1>1
<1>3. /\ Cardinality(Missing(c)) \in Nat
      /\ DOMAIN Missed(c) = 1..Cardinality(Missing(c))
    BY <1>2, RankBijective
<1>4. ASSUME NEW k \in DOMAIN Missed(c)
      PROVE  Missed(c)[k] \in Query
    <2>1. PICK i \in Missing(c) : Missed(c)[k] = c.queries[i]
        BY <1>2, <1>3, <1>4, RankBijective
    <2>2. i \in DOMAIN c.queries
        BY <2>1 DEF Missing
    <2> QED BY <1>1, <2>1, <2>2
<1>5. Context(c) \in Contexts
    BY DEF Context, Contexts, Active
<1> QED BY <1>2, <1>3, <1>4, <1>5

-----------------------------------------------------------------------------
(* What leaves a call sound *)

(* More spoiled contexts, and a change of the history, take nothing away. *)
LEMMA StaysSound ==
    ASSUME NEW c \in Active, NEW d \in Active, NEW S, NEW S2, S \subseteq S2,
           d.at = c.at, d.queries = c.queries, d.found = c.found, d.func = c.func,
           d.arg = c.arg, d.single = c.single, d.outputs = c.outputs, d.reply = c.reply,
           CallSound(c, S)
    PROVE  CallSound(d, S2)
<1>1. /\ Missing(d) = Missing(c)
      /\ Pending(d) = Pending(c)
      /\ Context(d) = Context(c)
      /\ DOMAIN Missed(d) = DOMAIN Missed(c)
      /\ \A k \in DOMAIN Missed(c) : Missed(d)[k] = Missed(c)[k]
    BY Shape, SameCall
<1>2. Shaped(d)
    BY <1>1 DEF CallSound, Shaped
<1>3. \A v, q : Answers(v, q, d) <=> Answers(v, q, c)
    BY <1>1 DEF Answers
<1>4. FoundSound(d, S2)
    BY <1>1, <1>3 DEF CallSound, FoundSound
<1>5. d.at = "computed" => OutputsSound(d, S2)
    BY <1>1 DEF CallSound, OutputsSound
<1>6. d.at = "returned" => ReplySound(d, S2)
    BY <1>1, <1>3 DEF CallSound, ReplySound
<1> QED BY <1>2, <1>4, <1>5, <1>6 DEF CallSound

(* Sound(cs, S): every call of cs has its type, and is sound *)
Sound(cs, S) ==
    /\ cs \in [Caller -> Resting \cup Active]
    /\ \A t \in Caller : cs[t] \in Active => CallSound(cs[t], S)

(* Bringing the history of the calls up to date keeps them sound. *)
LEMMA AwareSound ==
    ASSUME NEW cs, NEW S, Sound(cs, S), NEW R, NEW now
    PROVE  Sound(Aware(cs, R, now), S)
<1> DEFINE K(t) == {i \in cs[t].known :
                      Certain(R, now, cs[t].func, cs[t].queries[i], Key(cs[t].func, cs[t].arg))}
           d(t) == [cs[t] EXCEPT !.known = K(t)]
<1>1. Aware(cs, R, now) = [t \in Caller |-> d(t)]
    BY DEF Aware
<1>2. ASSUME NEW t \in Caller
      PROVE  /\ d(t) \in Resting \cup Active
             /\ d(t) \in Active => CallSound(d(t), S)
    <2>1. cs[t] \in Resting \cup Active /\ (cs[t] \in Active => CallSound(cs[t], S))
        BY DEF Sound
    <2>2. K(t) \subseteq cs[t].known
        OBVIOUS
    <2> HIDE DEF K
    <2>3. CASE cs[t] \in Resting
        <3>1. d(t) \in Resting
            BY <2>2, <2>3 DEF Resting
        <3>2. d(t) \notin Active
            BY <3>1 DEF Resting, Active
        <3> QED BY <3>1, <3>2
    <2>4. CASE cs[t] \in Active
        <3>1. d(t) \in Active
            BY <2>2, <2>4 DEF Active
        <3>2. /\ d(t).at = cs[t].at /\ d(t).queries = cs[t].queries /\ d(t).found = cs[t].found
              /\ d(t).func = cs[t].func /\ d(t).arg = cs[t].arg /\ d(t).single = cs[t].single
              /\ d(t).outputs = cs[t].outputs /\ d(t).reply = cs[t].reply
            BY <2>4 DEF Active
        <3>3. CallSound(d(t), S)
            BY <2>1, <2>4, <3>1, <3>2, StaysSound
        <3> QED BY <3>1, <3>3
    <2> QED BY <2>1, <2>3, <2>4
<1> HIDE DEF d
<1> QED BY <1>1, <1>2 DEF Sound

(* So does a step of one call that is sound itself. *)
LEMMA OneCallSound ==
    ASSUME NEW cs, NEW S, NEW S2, Sound(cs, S), S \subseteq S2, NEW t \in Caller, NEW d,
           d \in Resting \/ (d \in Active /\ CallSound(d, S2))
    PROVE  Sound([cs EXCEPT ![t] = d], S2)
<1> DEFINE cs2 == [cs EXCEPT ![t] = d]
<1>1. cs2 \in [Caller -> Resting \cup Active]
    BY DEF Sound
<1>2. ASSUME NEW u \in Caller, cs2[u] \in Active
      PROVE  CallSound(cs2[u], S2)
    <2>1. CASE u = t
        <3>1. cs2[u] = d
            BY <2>1 DEF Sound
        <3>2. d \notin Resting
            BY <1>2, <3>1 DEF Resting, Active
        <3> QED BY <3>1, <3>2
    <2>2. CASE u # t
        <3>1. cs2[u] = cs[u]
            BY <2>2 DEF Sound
        <3>2. CallSound(cs[u], S)
            BY <1>2, <3>1 DEF Sound
        <3> QED BY <1>2, <3>1, <3>2, StaysSound
    <2> QED BY <2>1, <2>2
<1> QED BY <1>1, <1>2 DEF Sound

-----------------------------------------------------------------------------
(* One action at a time *)

(* The invariant speaks of the calls as Sound does. *)
LEMMA InvariantParts ==
    IInv <=> /\ rows \subseteq Row /\ \A r \in rows : RowSound(r, spoiled)
             /\ clock \in Nat /\ begun \in Nat /\ spoiled \subseteq Contexts
             /\ Sound(calls, spoiled)
BY DEF IInv, TypeOK, Sound

(* A call in the middle of its steps has its type and is sound. *)
LEMMA CallAt ==
    ASSUME Sound(calls, spoiled), NEW t \in Caller, calls[t].at \in {"looking", "computed", "returned"}
    PROVE  calls[t] \in Active /\ CallSound(calls[t], spoiled)
BY DEF Sound, Resting

(* A call that has just begun is sound. *)
LEMMA BeginSound ==
    ASSUME IInv, NEW t \in Caller, NEW ask \in Asks, Begin(t, ask)
    PROVE  IInv'
<1> DEFINE K == {i \in DOMAIN ask.queries :
                   Certain(rows, clock, ask.func, ask.queries[i], Key(ask.func, ask.arg))}
           F == [i \in DOMAIN ask.queries |-> Unseen]
           d == [at |-> "looking", func |-> ask.func, arg |-> ask.arg, queries |-> ask.queries,
                 single |-> ask.single, positional |-> ask.positional,
                 found |-> F, outputs |-> <<>>, reply |-> <<>>, known |-> K]
<1>1. /\ ask \in Ask
      /\ IF ask.single THEN Len(ask.queries) = 1 ELSE ask.func \in Batched
    BY DecoratorAssumption DEF DecoratorAssumption
<1>2. /\ Len(ask.queries) \in Nat /\ DOMAIN ask.queries = 1..Len(ask.queries)
      /\ F \in Seq(Results \cup {Unseen, Miss}) /\ Len(F) = Len(ask.queries)
      /\ K \in SUBSET Nat
    <2>1. ask.queries \in Seq(Query)
        BY <1>1 DEF Ask
    <2>2. Len(ask.queries) \in Nat /\ DOMAIN ask.queries = 1..Len(ask.queries)
        BY <2>1
    <2>3. F \in [1..Len(ask.queries) -> Results \cup {Unseen, Miss}]
        BY <2>2
    <2>4. F \in Seq(Results \cup {Unseen, Miss}) /\ Len(F) = Len(ask.queries)
        BY <2>2, <2>3
    <2> QED BY <2>2, <2>4
<1>3. \A i \in DOMAIN ask.queries : F[i] \notin Results
    BY Marks
<1> HIDE DEF F, K
<1>4. d \in Active
    BY <1>1, <1>2 DEF Active, Ask
<1>5. CallSound(d, spoiled)
    BY <1>1, <1>2, <1>3 DEF CallSound, Shaped, FoundSound
<1>6. calls' = [calls EXCEPT ![t] = d]
    BY DEF Begin, F, K
<1> HIDE DEF d
<1>7. Sound(calls', spoiled)
    BY <1>4, <1>5, <1>6, InvariantParts, OneCallSound
<1> QED BY <1>7, InvariantParts DEF Begin, IInv, TypeOK, Sound

(* Marking one more position with a sound result, or as missed, keeps a    *)
(* call sound.                                                             *)
LEMMA FindingSound ==
    ASSUME NEW c \in Active, NEW S, CallSound(c, S), c.at = "looking",
           NEW i \in DOMAIN c.queries, NEW x \in Results \cup {Miss},
           x \in Results => /\ Context(c) \in S \/ Answers(x, c.queries[i], c)
                            /\ x.kind = "error" => x.func \in AllowErrors,
           NEW d, d = [c EXCEPT !.found = [@ EXCEPT ![i] = x]]
    PROVE  d \in Active /\ CallSound(d, S)
<1>1. /\ c.found \in Seq(Results \cup {Unseen, Miss}) /\ Len(c.found) = Len(c.queries)
      /\ DOMAIN c.queries = 1..Len(c.queries)
    BY Shape DEF Active, CallSound, Shaped
<1>2. /\ d.found = [c.found EXCEPT ![i] = x]
      /\ d.found \in Seq(Results \cup {Unseen, Miss}) /\ Len(d.found) = Len(c.queries)
    BY <1>1 DEF Active
<1>3. /\ d.at = c.at /\ d.queries = c.queries /\ d.func = c.func /\ d.arg = c.arg
      /\ d.single = c.single /\ d.outputs = c.outputs
    BY DEF Active
<1>4. d \in Active
    BY <1>2 DEF Active
<1>5. Shaped(d)
    BY <1>2, <1>3 DEF CallSound, Shaped
<1>6. \A v, q : Answers(v, q, d) <=> Answers(v, q, c)
    BY <1>3 DEF Answers, Context
<1>7. Context(d) = Context(c)
    BY <1>3 DEF Context
<1>8. ASSUME NEW j \in DOMAIN d.queries, d.found[j] \in Results
      PROVE  /\ Context(d) \in S \/ Answers(d.found[j], d.queries[j], d)
             /\ d.found[j].kind = "error" => d.found[j].func \in AllowErrors
    <2>1. CASE j = i
        <3>1. d.found[j] = x /\ d.queries[j] = c.queries[i]
            BY <1>1, <1>2, <1>3, <2>1
        <3>2. x \in Results
            BY <1>8, <3>1
        <3> QED BY <1>6, <1>7, <3>1, <3>2
    <2>2. CASE j # i
        <3>1. d.found[j] = c.found[j] /\ d.queries[j] = c.queries[j] /\ j \in DOMAIN c.queries
            BY <1>1, <1>2, <1>3, <2>2
        <3>2. FoundSound(c, S)
            BY DEF CallSound
        <3> QED BY <1>6, <1>7, <1>8, <3>1, <3>2 DEF FoundSound
    <2> QED BY <2>1, <2>2
<1>9. FoundSound(d, S)
    BY <1>8 DEF FoundSound
<1> QED BY <1>3, <1>4, <1>5, <1>9 DEF CallSound

(* A row that a search returns answers the query (lookup.py:336-532). *)
LEMMA SearchSound ==
    ASSUME IInv, NEW c \in Active, NEW i \in DOMAIN c.queries,
           NEW r \in Search(c.func, c.queries[i], Context(c))
    PROVE  /\ r.result \in Results
           /\ Context(c) \in spoiled \/ Answers(r.result, c.queries[i], c)
           /\ r.result.kind = "error" => r.result.func \in AllowErrors
<1>1. r \in rows /\ r.key = Context(c)
    BY DEF Search
<1>2. r.query = c.queries[i] \/ (/\ TableOf(c.func, c.queries[i]) = "semantic"
                                 /\ Similarity[<<c.queries[i], r.query>>] >= Threshold)
    BY DEF Search, TableOf
<1>3. r \in Row /\ RowSound(r, spoiled)
    BY <1>1 DEF IInv, TypeOK
<1>4. r.result \in Results
    BY <1>3 DEF Row
<1> QED BY <1>1, <1>2, <1>3, <1>4 DEF RowSound, ComputedFrom, Answers

(* A lookup keeps the invariant. *)
LEMMA LookUpSound ==
    ASSUME IInv, NEW t \in Caller, NEW i \in DOMAIN calls[t].queries, LookUp(t, i)
    PROVE  IInv'
<1> DEFINE c == calls[t]
<1>1. c \in Active /\ CallSound(c, spoiled) /\ c.at = "looking"
    BY InvariantParts, CallAt DEF LookUp
<1>2. PICK x \in Results \cup {Miss} :
          /\ calls' = [calls EXCEPT ![t].found[i] = x]
          /\ x \in Results => /\ Context(c) \in spoiled \/ Answers(x, c.queries[i], c)
                              /\ x.kind = "error" => x.func \in AllowErrors
    BY <1>1, SearchSound, Marks DEF LookUp
<1> DEFINE d == [c EXCEPT !.found = [@ EXCEPT ![i] = x]]
<1>3. calls' = [calls EXCEPT ![t] = d]
    BY <1>2, InvariantParts DEF Sound
<1>4. d \in Active /\ CallSound(d, spoiled)
    BY <1>1, <1>2, FindingSound
<1> HIDE DEF d
<1>5. Sound(calls', spoiled)
    BY <1>3, <1>4, InvariantParts, OneCallSound
<1> QED BY <1>5, InvariantParts DEF LookUp, IInv, TypeOK, Sound

(* A lookup that fails leaves a miss, which is sound anywhere. *)
LEMMA LookUpFailsSound ==
    ASSUME IInv, NEW t \in Caller, NEW i \in DOMAIN calls[t].queries, LookUpFails(t, i)
    PROVE  IInv'
<1> DEFINE c == calls[t]
           e == [c EXCEPT !.found = [@ EXCEPT ![i] = Miss]]
           d == [c EXCEPT !.found = [@ EXCEPT ![i] = Miss], !.known = @ \ {i}]
<1>1. c \in Active /\ CallSound(c, spoiled) /\ c.at = "looking"
    BY InvariantParts, CallAt DEF LookUpFails
<1>2. calls' = [calls EXCEPT ![t] = d]
    BY InvariantParts DEF LookUpFails, Sound
<1>3. e \in Active /\ CallSound(e, spoiled)
    BY <1>1, FindingSound, Marks
<1>4. /\ d.at = e.at /\ d.queries = e.queries /\ d.found = e.found
      /\ d.func = e.func /\ d.arg = e.arg /\ d.single = e.single
      /\ d.outputs = e.outputs /\ d.reply = e.reply
    BY <1>1 DEF Active
<1>5. d \in Active
    <2>1. d = [e EXCEPT !.known = @ \ {i}]
        BY <1>1 DEF Active
    <2> HIDE DEF d, e
    <2> QED BY <1>3, <2>1 DEF Active
<1> HIDE DEF d, e
<1>6. CallSound(d, spoiled)
    BY <1>3, <1>4, <1>5, StaysSound
<1>7. Sound(calls', spoiled)
    BY <1>2, <1>5, <1>6, InvariantParts, OneCallSound
<1> QED BY <1>7, InvariantParts DEF LookUpFails, IInv, TypeOK, Sound

(* A batch that misses as a whole is sound. *)
LEMMA LookUpNothingSound ==
    ASSUME IInv, NEW t \in Caller, LookUpNothing(t)
    PROVE  IInv'
<1> DEFINE c == calls[t]
           F == [i \in DOMAIN c.queries |-> Miss]
           d == [c EXCEPT !.found = F, !.known = {}]
<1>1. c \in Active /\ CallSound(c, spoiled) /\ c.at = "looking"
    BY InvariantParts, CallAt DEF LookUpNothing
<1>2. F \in Seq(Results \cup {Unseen, Miss}) /\ Len(F) = Len(c.queries)
    <2>1. Len(c.queries) \in Nat /\ DOMAIN c.queries = 1..Len(c.queries)
        BY <1>1, Shape
    <2> QED BY <2>1
<1>3. \A i \in DOMAIN c.queries : F[i] \notin Results
    BY Marks
<1>4. calls' = [calls EXCEPT ![t] = d]
    BY InvariantParts DEF LookUpNothing, Sound
<1> HIDE DEF F
<1>5. d \in Active
    BY <1>1, <1>2 DEF Active
<1>6. /\ d.at = "looking" /\ d.queries = c.queries /\ d.func = c.func
      /\ d.single = c.single /\ d.outputs = c.outputs /\ d.found = F
    BY <1>1 DEF Active
<1>7. CallSound(d, spoiled)
    BY <1>1, <1>2, <1>3, <1>6 DEF CallSound, Shaped, FoundSound
<1> HIDE DEF d
<1>8. Sound(calls', spoiled)
    BY <1>4, <1>5, <1>7, InvariantParts, OneCallSound
<1> QED BY <1>8, InvariantParts DEF LookUpNothing, IInv, TypeOK, Sound

(* A call that only found hits returns what they hold. *)
LEMMA AllHitsSound ==
    ASSUME IInv, NEW t \in Caller, AllHits(t)
    PROVE  IInv'
<1> DEFINE c == calls[t]
           d == [c EXCEPT !.at = "returned", !.known = {}, !.reply = c.found]
<1>1. c \in Active /\ CallSound(c, spoiled) /\ c.at = "looking"
    BY InvariantParts, CallAt DEF AllHits
<1>2. /\ c.found \in Seq(Results)
      /\ DOMAIN c.found = DOMAIN c.queries
      /\ \A i \in DOMAIN c.queries : c.found[i] \in Results
    <2>1. /\ c.found \in Seq(Results \cup {Unseen, Miss})
          /\ DOMAIN c.found = DOMAIN c.queries
          /\ DOMAIN c.found = 1..Len(c.found)
        BY <1>1, Shape DEF Active, CallSound, Shaped
    <2>2. \A i \in DOMAIN c.found : c.found[i] \in Results
        BY <2>1 DEF AllHits, Missing, Pending
    <2> QED BY <2>1, <2>2
<1>3. calls' = [calls EXCEPT ![t] = d]
    BY InvariantParts DEF AllHits, Sound
<1>4. d \in Active
    BY <1>1, <1>2 DEF Active
<1>5. /\ d.at = "returned" /\ d.reply = c.found /\ d.outputs = c.outputs /\ d.queries = c.queries
      /\ d.found = c.found /\ d.func = c.func /\ d.arg = c.arg /\ d.single = c.single
    BY <1>1 DEF Active
<1>6. Context(d) = Context(c) /\ \A v, q : Answers(v, q, d) <=> Answers(v, q, c)
    BY <1>5 DEF Answers, Context
<1>7. FoundSound(c, spoiled)
    BY <1>1 DEF CallSound
<1>8. FoundSound(d, spoiled)
    BY <1>5, <1>6, <1>7 DEF FoundSound
<1>9. ReplySound(d, spoiled)
    BY <1>2, <1>5, <1>6, <1>7 DEF FoundSound, ReplySound
<1>10. Shaped(d)
    BY <1>1, <1>5 DEF CallSound, Shaped
<1>11. CallSound(d, spoiled)
    BY <1>5, <1>8, <1>9, <1>10 DEF CallSound
<1> HIDE DEF d
<1>12. Sound(calls', spoiled)
    BY <1>3, <1>4, <1>11, InvariantParts, OneCallSound
<1> QED BY <1>12, InvariantParts DEF AllHits, IInv, TypeOK, Sound

(* A call whose function raises keeps nothing. *)
LEMMA RaiseSound ==
    ASSUME IInv, NEW t \in Caller, calls' = [calls EXCEPT ![t] = Raised],
           UNCHANGED <<rows, clock, begun, spoiled>>
    PROVE  IInv'
<1>1. Raised \in Resting
    BY DEF Raised, Idle, Resting
<1>2. Sound(calls', spoiled)
    BY <1>1, InvariantParts, OneCallSound
<1> QED BY <1>2, InvariantParts DEF IInv, TypeOK, Sound

(* What the function may return has its type and names the function; if    *)
(* it kept its part, output k answers the k-th query that missed.          *)
LEMMA OutputsOf ==
    ASSUME NEW c \in Active, Missing(c) # {}, NEW out \in Kept(c) \cup TooMany(c) \cup TooFew(c)
    PROVE  /\ out \in Seq(Results)
           /\ \A k \in DOMAIN out : out[k].func = c.func
           /\ out \in Kept(c) => Len(out) = Cardinality(Missing(c))
           /\ out \notin TooFew(c) =>
                  /\ Len(out) >= Cardinality(Missing(c))
                  /\ \A k \in DOMAIN Missed(c) :
                         out[k].query = Missed(c)[k] /\ out[k].arg = Received(c)
<1> DEFINE m == Cardinality(Missing(c))
<1>1. /\ m \in Nat /\ m # 0
      /\ DOMAIN Missed(c) = 1..m
      /\ \A k \in 1..m : Missed(c)[k] \in Query
    BY Shape, RankBijective
<1>2. c.func \in Func /\ Received(c) \in Arg
    BY DecoratorAssumption DEF DecoratorAssumption, Received, Active
<1> DEFINE made(o) == /\ o \in Seq(Results) /\ Len(o) = m
                      /\ \A k \in 1..m : /\ o[k].func = c.func
                                         /\ o[k].query = Missed(c)[k] /\ o[k].arg = Received(c)
<1>3. ASSUME NEW o \in Kept(c)
      PROVE  made(o)
    <2>1. PICK kind \in [1..m -> Kinds] :
              o = [k \in 1..m |-> Result(c.func, Missed(c)[k], Received(c), kind[k])]
        BY <1>1 DEF Kept
    <2>2. \A k \in 1..m : /\ Result(c.func, Missed(c)[k], Received(c), kind[k]) \in Results
                          /\ o[k] = Result(c.func, Missed(c)[k], Received(c), kind[k])
        BY <1>1, <1>2, <2>1 DEF Result, Results
    <2> HIDE DEF m
    <2>3. o \in [1..m -> Results]
        BY <2>1, <2>2
    <2>4. o \in Seq(Results) /\ Len(o) = m
        BY <1>1, <2>3
    <2>5. ASSUME NEW k \in 1..m
          PROVE  o[k].func = c.func /\ o[k].query = Missed(c)[k] /\ o[k].arg = Received(c)
        <3>1. o[k] = Result(c.func, Missed(c)[k], Received(c), kind[k])
            BY <2>2
        <3> QED BY <3>1 DEF Result
    <2> QED BY <2>4, <2>5
<1> HIDE DEF m
<1>4. CASE out \in Kept(c)
    <2>1. DOMAIN out = 1..m
        BY <1>1, <1>3, <1>4
    <2> QED BY <1>1, <1>3, <1>4, <2>1 DEF m
<1>5. CASE out \in TooMany(c) \ Kept(c)
    <2>1. PICK o \in Kept(c) : out = Append(o, o[Len(o)])
        BY <1>5 DEF TooMany
    <2>2. made(o) /\ o[m] \in Results
        BY <1>1, <1>3
    <2>3. /\ out \in Seq(Results) /\ Len(out) = m + 1 /\ DOMAIN out = 1..(m + 1)
          /\ \A k \in 1..m : out[k] = o[k]
          /\ out[m + 1] = o[m]
        BY <1>1, <2>1, <2>2
    <2>4. \A k \in 1..(m + 1) : (out[k] = o[k] /\ k \in 1..m) \/ out[k] = o[m]
        BY <1>1, <2>3
    <2>5. m \in 1..m
        BY <1>1
    <2> QED BY <1>1, <1>5, <2>2, <2>3, <2>4, <2>5 DEF m
<1>6. CASE out \in TooFew(c) \ Kept(c)
    <2>1. PICK o \in Kept(c) : out = Tail(o)
        BY <1>6 DEF TooFew
    <2>2. made(o)
        BY <1>3
    <2>3. out \in Seq(Results) /\ \A k \in DOMAIN out : out[k] = o[k + 1] /\ k + 1 \in 1..m
        BY <1>1, <2>1, <2>2
    <2> QED BY <1>6, <2>2, <2>3
<1> QED BY <1>4, <1>5, <1>6

(* A call for which the function ran is sound, and so are the others when  *)
(* its context is spoiled.                                                 *)
LEMMA ExecuteSound ==
    ASSUME IInv, NEW t \in Caller, Execute(t)
    PROVE  IInv'
<1> DEFINE c == calls[t]
<1>1. c \in Active /\ CallSound(c, spoiled) /\ c.at = "looking"
    BY InvariantParts, CallAt DEF Execute
<1>2. PICK out \in Kept(c) \cup TooMany(c) \cup TooFew(c) :
          /\ calls' = [calls EXCEPT ![t].at = "computed", ![t].outputs = out]
          /\ spoiled' = IF Key(c.func, Received(c)) = Context(c) /\ out \notin TooFew(c)
                        THEN spoiled
                        ELSE spoiled \cup {Context(c)}
    BY DEF Execute
<1> DEFINE d == [c EXCEPT !.at = "computed", !.outputs = out]
<1>3. calls' = [calls EXCEPT ![t] = d]
    BY <1>2, InvariantParts DEF Sound
<1>4. /\ Pending(c) = {} /\ Missing(c) # {}
      /\ UNCHANGED <<rows, clock, begun>>
    BY DEF Execute
<1>5. /\ out \in Seq(Results)
      /\ \A k \in DOMAIN out : out[k].func = c.func
      /\ out \in Kept(c) => Len(out) = Cardinality(Missing(c))
      /\ out \notin TooFew(c) =>
             /\ Len(out) >= Cardinality(Missing(c))
             /\ \A k \in DOMAIN Missed(c) :
                    out[k].query = Missed(c)[k] /\ out[k].arg = Received(c)
    BY <1>1, <1>4, OutputsOf
<1>6. /\ d \in Active
      /\ d.at = "computed" /\ d.outputs = out /\ d.queries = c.queries
      /\ d.found = c.found /\ d.func = c.func /\ d.arg = c.arg /\ d.single = c.single
    BY <1>1, <1>5 DEF Active
<1> HIDE DEF d
<1>7. /\ Missing(d) = Missing(c) /\ Pending(d) = Pending(c) /\ Context(d) = Context(c)
      /\ DOMAIN Missed(d) = DOMAIN Missed(c)
      /\ \A k \in DOMAIN Missed(c) : Missed(d)[k] = Missed(c)[k]
    BY <1>1, <1>6, Shape, SameCall
<1>8. spoiled \subseteq spoiled' /\ spoiled' \subseteq Contexts
    BY <1>1, <1>2, Shape, InvariantParts
<1>9. Shaped(d)
    <2>1. ASSUME c.single
          PROVE  Len(out) = 1
        <3>1. out \in Kept(c)
            BY <2>1 DEF TooMany, TooFew
        <3>2. DOMAIN c.queries = 1..1
            BY <1>1, <2>1, Shape DEF CallSound, Shaped
        <3>3. 1 \in Nat
            OBVIOUS
        <3>4. /\ Cardinality(Missing(c)) \in Nat /\ Cardinality(Missing(c)) <= 1
              /\ Missing(c) = {} <=> Cardinality(Missing(c)) = 0
            BY <3>2, <3>3, RankBijective
        <3> QED BY <1>4, <1>5, <3>1, <3>4
    <2> QED BY <1>1, <1>4, <1>6, <1>7, <2>1 DEF CallSound, Shaped
<1>10. FoundSound(d, spoiled')
    <2>1. \A v, q : Answers(v, q, d) <=> Answers(v, q, c)
        BY <1>6, <1>7 DEF Answers
    <2> QED BY <1>1, <1>6, <1>7, <1>8, <2>1 DEF CallSound, FoundSound
<1>11. OutputsSound(d, spoiled')
    <2>1. CASE Context(c) \in spoiled'
        BY <1>5, <1>6, <1>7, <2>1 DEF OutputsSound
    <2>2. CASE Context(c) \notin spoiled'
        <3>1. Key(c.func, Received(c)) = Context(c) /\ out \notin TooFew(c)
            BY <1>2, <2>2
        <3>2. DOMAIN Missed(c) = 1..Cardinality(Missing(c)) /\ Cardinality(Missing(c)) \in Nat
            BY <1>1, Shape
        <3>3. Len(out) >= Cardinality(Missing(c)) /\ DOMAIN out = 1..Len(out) /\ Len(out) \in Nat
            BY <1>5, <3>1
        <3>4. \A k \in DOMAIN Missed(c) : k \in DOMAIN out
            BY <3>2, <3>3
        <3> QED BY <1>5, <1>6, <1>7, <3>1, <3>3, <3>4 DEF OutputsSound, ComputedFrom
    <2> QED BY <2>1, <2>2
<1>12. CallSound(d, spoiled')
    BY <1>6, <1>9, <1>10, <1>11 DEF CallSound
<1>13. Sound(calls', spoiled')
    BY <1>3, <1>6, <1>8, <1>12, InvariantParts, OneCallSound
<1>14. \A r \in rows' : RowSound(r, spoiled')
    BY <1>4, <1>8, InvariantParts DEF RowSound
<1> QED BY <1>4, <1>8, <1>13, <1>14 DEF IInv, TypeOK, Sound

(* The rows a store adds hold what their names say.  With one output too   *)
(* many a call adds none: it fails before it stores.                       *)
LEMMA AddedSound ==
    ASSUME IInv, NEW c \in Active, CallSound(c, spoiled), c.at = "computed",
           Len(c.outputs) <= Cardinality(Missing(c))
    PROVE  /\ Added(c) \subseteq Row
           /\ \A r \in Added(c) : RowSound(r, spoiled)
<1> SUFFICES ASSUME NEW r \in Added(c)
             PROVE  r \in Row /\ RowSound(r, spoiled)
    OBVIOUS
<1>1. PICK k \in Worth(c) :
          r = [query |-> Missed(c)[k], key |-> Context(c), ts |-> clock,
               table |-> TableOf(c.func, Missed(c)[k]), result |-> c.outputs[k]]
    BY DEF Added
<1>2. /\ c.outputs \in Seq(Results) /\ k \in DOMAIN c.outputs
      /\ c.func \in AllowErrors \/ c.outputs[k].kind # "error"
    BY DEF Worth, Active
<1>3. k \in DOMAIN Missed(c) /\ Missed(c)[k] \in Query /\ Context(c) \in Contexts
    <2>1. /\ Cardinality(Missing(c)) \in Nat
          /\ DOMAIN Missed(c) = 1..Cardinality(Missing(c))
          /\ \A j \in DOMAIN Missed(c) : Missed(c)[j] \in Query
          /\ Context(c) \in Contexts
        BY Shape
    <2>2. DOMAIN c.outputs = 1..Len(c.outputs) /\ Len(c.outputs) \in Nat
        BY <1>2
    <2> QED BY <1>2, <2>1, <2>2
<1>4. c.outputs[k] \in Results /\ clock \in Nat
    BY <1>2 DEF IInv, TypeOK
<1>5. TableOf(c.func, Missed(c)[k]) \in {"exact", "semantic"}
    BY DEF TableOf
<1>6. r \in Row
    BY <1>1, <1>3, <1>4, <1>5 DEF Row
<1>7. /\ c.outputs[k].func = c.func
      /\ Context(c) \in spoiled \/ ComputedFrom(c.outputs[k], Missed(c)[k], Context(c))
    BY <1>2, <1>3 DEF CallSound, OutputsSound
<1>8. r.key = Context(c) /\ r.query = Missed(c)[k] /\ r.result = c.outputs[k]
    BY <1>1
<1> QED BY <1>2, <1>6, <1>7, <1>8 DEF RowSound

(* Merging as many outputs as queries missed with the answers of the cache *)
(* gives every position an answer of its own (decorators.py:340-365).      *)
LEMMA MergedSound ==
    ASSUME NEW S, NEW c \in Active, CallSound(c, S), c.at = "computed",
           Len(c.outputs) = Cardinality(Missing(c)),
           NEW d, d = [c EXCEPT !.at = "returned", !.known = {}, !.reply = Merged(c)]
    PROVE  d \in Active /\ CallSound(d, S)
<1>1. /\ c.outputs \in Seq(Results) /\ c.queries \in Seq(Query)
      /\ DOMAIN c.outputs = 1..Cardinality(Missing(c))
      /\ DOMAIN c.queries = 1..Len(c.queries) /\ Len(c.queries) \in Nat
      /\ DOMAIN Missed(c) = DOMAIN c.outputs
      /\ DOMAIN c.found = DOMAIN c.queries
      /\ c.found \in Seq(Results \cup {Unseen, Miss})
    BY Shape DEF Active, CallSound, Shaped
<1>2. /\ Shaped(c) /\ FoundSound(c, S) /\ OutputsSound(c, S)
      /\ Pending(c) = {}
    BY DEF CallSound, Shaped
<1>3. ASSUME NEW i \in DOMAIN c.queries
      PROVE  \/ /\ i \in Missing(c)
                /\ Rank(c, i) \in DOMAIN c.outputs
                /\ Missed(c)[Rank(c, i)] = c.queries[i]
                /\ Merged(c)[i] = c.outputs[Rank(c, i)]
             \/ /\ i \notin Missing(c)
                /\ c.found[i] \in Results
                /\ Merged(c)[i] = c.found[i]
    <2>1. CASE i \in Missing(c)
        BY <1>1, <2>1, RankBijective DEF Merged
    <2>2. CASE i \notin Missing(c)
        <3>1. c.found[i] \in Results \cup {Unseen, Miss}
            BY <1>1
        <3>2. c.found[i] # Miss /\ c.found[i] # Unseen
            BY <1>2, <2>2 DEF Missing, Pending
        <3> QED BY <2>2, <3>1, <3>2 DEF Merged
    <2> QED BY <2>1, <2>2
<1>4. Merged(c) \in Seq(Results) /\ DOMAIN Merged(c) = DOMAIN c.queries
    <2>1. \A i \in DOMAIN c.queries : Merged(c)[i] \in Results
        BY <1>1, <1>3
    <2>2. Merged(c) = [i \in DOMAIN c.queries |-> Merged(c)[i]]
        BY DEF Merged
    <2>3. Merged(c) \in [1..Len(c.queries) -> Results]
        BY <1>1, <2>1, <2>2
    <2>4. Merged(c) \in Seq(Results)
        <3> HIDE DEF Merged
        <3> QED BY <1>1, <2>3, SeqDef
    <2>5. DOMAIN Merged(c) = 1..Len(c.queries)
        BY <2>3
    <2> QED BY <1>1, <2>4, <2>5
<1>5. d \in Active
    BY <1>4 DEF Active
<1>6. /\ d.at = "returned" /\ d.reply = Merged(c) /\ d.outputs = c.outputs /\ d.queries = c.queries
      /\ d.found = c.found /\ d.func = c.func /\ d.arg = c.arg /\ d.single = c.single
    BY DEF Active
<1>7. Context(d) = Context(c) /\ \A v, q : Answers(v, q, d) <=> Answers(v, q, c)
    BY <1>6 DEF Answers, Context
<1>8. Shaped(d) /\ FoundSound(d, S)
    BY <1>2, <1>6, <1>7 DEF Shaped, FoundSound
<1>9. ASSUME NEW i \in DOMAIN c.queries
      PROVE  /\ Context(c) \in S \/ Answers(Merged(c)[i], c.queries[i], c)
             /\ Merged(c)[i].kind = "error" =>
                    \/ Merged(c)[i].func \in AllowErrors
                    \/ \E k \in DOMAIN c.outputs : c.outputs[k] = Merged(c)[i]
    <2>1. CASE i \in Missing(c)
        <3>1. /\ Rank(c, i) \in DOMAIN c.outputs /\ Rank(c, i) \in DOMAIN Missed(c)
              /\ Missed(c)[Rank(c, i)] = c.queries[i] /\ Merged(c)[i] = c.outputs[Rank(c, i)]
            BY <1>1, <1>3, <2>1
        <3>2. Context(c) \in S \/ ComputedFrom(c.outputs[Rank(c, i)], c.queries[i], Context(c))
            BY <1>2, <3>1 DEF OutputsSound
        <3> QED BY <3>1, <3>2 DEF ComputedFrom, Answers
    <2>2. CASE i \notin Missing(c)
        BY <1>2, <1>3, <2>2 DEF FoundSound
    <2> QED BY <2>1, <2>2
<1>10. ReplySound(d, S)
    BY <1>4, <1>6, <1>7, <1>9 DEF ReplySound
<1> QED BY <1>5, <1>6, <1>8, <1>10 DEF CallSound

(* A batch keeps the invariant, whether it stores and merges or fails. *)
LEMMA StoreBatchSound ==
    ASSUME IInv, NEW t \in Caller, StoreBatch(t)
    PROVE  IInv'
<1> DEFINE c == calls[t]
           d == [c EXCEPT !.at = "returned", !.known = {}, !.reply = Merged(c)]
<1>1. c \in Active /\ CallSound(c, spoiled) /\ c.at = "computed"
    BY InvariantParts, CallAt DEF StoreBatch
<1>2. UNCHANGED <<clock, begun, spoiled>>
    BY DEF StoreBatch
<1>3. CASE rows' = rows /\ calls' = [calls EXCEPT ![t] = Raised]
    BY <1>2, <1>3, RaiseSound
<1>4. CASE /\ ~(Len(c.outputs) > Cardinality(Missing(c)))
           /\ rows' = rows \cup Added(c)
           /\ calls' = Aware(IF Len(c.outputs) < Cardinality(Missing(c))
                             THEN [calls EXCEPT ![t] = Raised]
                             ELSE [calls EXCEPT ![t].at = "returned", ![t].known = {},
                                                ![t].reply = Merged(c)],
                             rows', clock)
    <2>1. Len(c.outputs) \in Nat /\ Cardinality(Missing(c)) \in Nat
        BY <1>1, Shape DEF Active
    <2>2. rows' \subseteq Row /\ \A r \in rows' : RowSound(r, spoiled)
        BY <1>1, <1>4, <2>1, AddedSound, InvariantParts
    <2>3. Sound(calls', spoiled)
        <3>1. CASE calls' = Aware([calls EXCEPT ![t] = Raised], rows', clock)
            <4>1. Raised \in Resting
                BY DEF Raised, Idle, Resting
            <4>2. Sound([calls EXCEPT ![t] = Raised], spoiled)
                BY <4>1, InvariantParts, OneCallSound
            <4> QED BY <3>1, <4>2, AwareSound
        <3>2. CASE /\ Len(c.outputs) = Cardinality(Missing(c))
                   /\ calls' = Aware([calls EXCEPT ![t].at = "returned", ![t].known = {},
                                                   ![t].reply = Merged(c)],
                                     rows', clock)
            <4>1. calls' = Aware([calls EXCEPT ![t] = d], rows', clock)
                BY <3>2, InvariantParts DEF Sound
            <4>2. d \in Active /\ CallSound(d, spoiled)
                BY <1>1, <3>2, MergedSound
            <4> HIDE DEF d
            <4>3. Sound([calls EXCEPT ![t] = d], spoiled)
                BY <4>2, InvariantParts, OneCallSound
            <4> QED BY <4>1, <4>3, AwareSound
        <3> QED BY <1>4, <2>1, <3>1, <3>2
    <2> QED BY <1>2, <2>2, <2>3, InvariantParts DEF IInv, TypeOK, Sound
<1> QED BY <1>3, <1>4 DEF StoreBatch

(* A call of one query returns what the function gave, stored or not. *)
LEMMA SingleSound ==
    ASSUME NEW S, NEW c \in Active, CallSound(c, S), c.at = "computed", c.func \notin Batched,
           NEW d, d = [c EXCEPT !.at = "returned", !.known = {}, !.reply = c.outputs]
    PROVE  /\ d \in Active /\ CallSound(d, S)
           /\ Len(c.outputs) <= Cardinality(Missing(c))
<1>1. Shaped(c) /\ FoundSound(c, S) /\ OutputsSound(c, S)
    BY DEF CallSound
<1>2. /\ Len(c.queries) = 1 /\ Len(c.outputs) = 1
      /\ Missing(c) # {} /\ c.outputs \in Seq(Results)
    BY <1>1 DEF Shaped, Active
<1>3. DOMAIN c.queries = 1..1 /\ DOMAIN c.outputs = 1..1
    BY <1>2, Shape
<1>4. /\ Missing(c) = {1} /\ Cardinality(Missing(c)) = 1
      /\ DOMAIN Missed(c) = 1..1 /\ Missed(c)[1] = c.queries[1]
    <2>1. Missing(c) = {1}
        BY <1>2, <1>3 DEF Missing
    <2>2. Cardinality(Missing(c)) = 1
        BY <2>1, FS_Singleton
    <2>3. DOMAIN Missed(c) = 1..1
        BY <2>2, Shape
    <2>4. 1 \in Missing(c) /\ Rank(c, 1) \in 1..1 /\ Missed(c)[Rank(c, 1)] = c.queries[1]
        <3>1. 1 \in Nat
            OBVIOUS
        <3> QED BY <1>3, <2>1, <2>2, <3>1, RankBijective
    <2>5. Rank(c, 1) = 1
        BY <2>4
    <2> QED BY <2>1, <2>2, <2>3, <2>4, <2>5
<1>5. /\ d \in Active
      /\ d.at = "returned" /\ d.reply = c.outputs /\ d.outputs = c.outputs /\ d.queries = c.queries
      /\ d.found = c.found /\ d.func = c.func /\ d.arg = c.arg /\ d.single = c.single
    BY <1>2 DEF Active
<1>6. Context(d) = Context(c) /\ \A v, q : Answers(v, q, d) <=> Answers(v, q, c)
    BY <1>5 DEF Answers, Context
<1>7. Shaped(d) /\ FoundSound(d, S)
    BY <1>1, <1>5, <1>6 DEF Shaped, FoundSound
<1>8. Context(c) \in S \/ Answers(c.outputs[1], c.queries[1], c)
    BY <1>1, <1>4 DEF OutputsSound, ComputedFrom, Answers
<1>9. ReplySound(d, S)
    BY <1>3, <1>5, <1>6, <1>8 DEF ReplySound
<1> QED BY <1>2, <1>4, <1>5, <1>7, <1>9 DEF CallSound

(* A single store keeps the invariant, whatever it evicts. *)
LEMMA StoreOneSound ==
    ASSUME IInv, NEW t \in Caller, StoreOne(t)
    PROVE  IInv'
<1> DEFINE c == calls[t]
           d == [c EXCEPT !.at = "returned", !.known = {}, !.reply = c.outputs]
<1>1. c \in Active /\ CallSound(c, spoiled) /\ c.at = "computed" /\ c.func \notin Batched
    BY InvariantParts, CallAt DEF StoreOne
<1>2. PICK left \in (IF Worth(c) = {} THEN {rows} ELSE Spared), new \in {{}, Added(c)} :
          /\ rows' = left \cup new
          /\ calls' = Aware([calls EXCEPT ![t].at = "returned", ![t].known = {}, ![t].reply = c.outputs],
                            left \cup new, clock)
    BY DEF StoreOne
<1>3. left \subseteq rows
    BY <1>2 DEF Spared, Without
<1>4. /\ d \in Active /\ CallSound(d, spoiled)
      /\ Len(c.outputs) <= Cardinality(Missing(c))
    BY <1>1, SingleSound
<1>5. rows' \subseteq Row /\ \A r \in rows' : RowSound(r, spoiled)
    BY <1>1, <1>2, <1>3, <1>4, AddedSound, InvariantParts
<1>6. [calls EXCEPT ![t].at = "returned", ![t].known = {}, ![t].reply = c.outputs]
        = [calls EXCEPT ![t] = d]
    BY InvariantParts DEF Sound
<1> HIDE DEF d
<1>7. Sound([calls EXCEPT ![t] = d], spoiled)
    BY <1>4, InvariantParts, OneCallSound
<1>8. Sound(calls', spoiled)
    BY <1>2, <1>6, <1>7, AwareSound
<1> QED BY <1>5, <1>8, InvariantParts DEF StoreOne, IInv, TypeOK, Sound

(* So do rows that go, and time that passes. *)
LEMMA DropTickSound ==
    ASSUME IInv, Drop \/ Tick
    PROVE  IInv'
<1>1. CASE Drop
    <2>1. PICK x \in rows : rows' = Without(x) /\ calls' = Aware(calls, Without(x), clock)
        BY <1>1 DEF Drop
    <2>2. rows' \subseteq rows
        BY <2>1 DEF Without
    <2>3. Sound(calls', spoiled)
        BY <2>1, InvariantParts, AwareSound
    <2> QED BY <1>1, <2>2, <2>3, InvariantParts DEF Drop, IInv, TypeOK, Sound
<1>2. CASE Tick
    <2>1. Sound(calls', spoiled)
        BY <1>2, InvariantParts, AwareSound DEF Tick
    <2> QED BY <1>2, <2>1, InvariantParts DEF Tick, IInv, TypeOK, Sound
<1> QED BY <1>1, <1>2

-----------------------------------------------------------------------------
(* The theorems *)

(* Whatever several callers do at once, every row, every call at each of   *)
(* its steps, and the type of every variable are as IInv says.             *)
THEOREM Inductive == Spec => []IInv
<1>1. Init => IInv
    <2>1. Init => Sound(calls, spoiled)
        BY DEF Init, Idle, Sound, Resting, Active
    <2> QED BY <2>1, InvariantParts DEF Init
<1>2. IInv /\ [Next]_vars => IInv'
    <2> SUFFICES ASSUME IInv, [Next]_vars
                 PROVE  IInv'
        OBVIOUS
    <2>1. ASSUME NEW t \in Caller, NEW ask \in Asks, Begin(t, ask)
          PROVE  IInv'
        BY <2>1, BeginSound
    <2>2. ASSUME NEW t \in Caller, NEW i \in DOMAIN calls[t].queries, LookUp(t, i)
          PROVE  IInv'
        BY <2>2, LookUpSound
    <2>11. ASSUME NEW t \in Caller, NEW i \in DOMAIN calls[t].queries, LookUpFails(t, i)
           PROVE  IInv'
        BY <2>11, LookUpFailsSound
    <2>3. ASSUME NEW t \in Caller, LookUpNothing(t)
          PROVE  IInv'
        BY <2>3, LookUpNothingSound
    <2>4. ASSUME NEW t \in Caller, AllHits(t)
          PROVE  IInv'
        BY <2>4, AllHitsSound
    <2>5. ASSUME NEW t \in Caller, Execute(t)
          PROVE  IInv'
        BY <2>5, ExecuteSound
    <2>6. ASSUME NEW t \in Caller, Raise(t)
          PROVE  IInv'
        BY <2>6, RaiseSound DEF Raise
    <2>7. ASSUME NEW t \in Caller, StoreBatch(t)
          PROVE  IInv'
        BY <2>7, StoreBatchSound
    <2>8. ASSUME NEW t \in Caller, StoreOne(t)
          PROVE  IInv'
        BY <2>8, StoreOneSound
    <2>9. CASE Drop \/ Tick
        BY <2>9, DropTickSound
    <2>10. CASE UNCHANGED vars
        BY <2>10, InvariantParts DEF vars, IInv, TypeOK, Sound
    <2> QED BY <2>1, <2>2, <2>3, <2>4, <2>5, <2>6, <2>7, <2>8, <2>9, <2>10, <2>11
            DEF Next, Proceed
<1> QED BY <1>1, <1>2, PTL DEF Spec

(* Every answer a call returns belongs to the query at its position and to *)
(* the call's context (decorators.py:340-365), for any number of callers,  *)
(* functions and queries.                                                  *)
THEOREM AnswersBelong == Spec => []Answered
<1>1. IInv => Answered
    <2> SUFFICES ASSUME IInv, NEW t \in Returned
                 PROVE  \/ Context(calls[t]) \in spoiled
                        \/ /\ DOMAIN calls[t].reply = DOMAIN calls[t].queries
                           /\ \A i \in DOMAIN calls[t].queries :
                                  Answers(calls[t].reply[i], calls[t].queries[i], calls[t])
        BY DEF Answered
    <2>1. t \in Caller /\ calls[t].at = "returned"
        BY DEF Returned
    <2>2. CallSound(calls[t], spoiled)
        BY <2>1, InvariantParts, CallAt
    <2> QED BY <2>1, <2>2 DEF CallSound, ReplySound
<1> QED BY <1>1, Inductive, PTL

(* No caller gets the error of another caller's run, unless the function   *)
(* that returned it was told to cache errors (storage_ops.py:273-286).     *)
THEOREM ErrorsStay == Spec => []ErrorsNotShared
<1>1. IInv => ErrorsNotShared
    <2> SUFFICES ASSUME IInv, NEW t \in Returned, NEW i \in DOMAIN calls[t].reply,
                        calls[t].reply[i].kind = "error"
                 PROVE  \/ calls[t].reply[i].func \in AllowErrors
                        \/ \E k \in DOMAIN calls[t].outputs : calls[t].outputs[k] = calls[t].reply[i]
        BY DEF ErrorsNotShared
    <2>1. t \in Caller /\ calls[t].at = "returned"
        BY DEF Returned
    <2>2. CallSound(calls[t], spoiled)
        BY <2>1, InvariantParts, CallAt
    <2> QED BY <2>1, <2>2 DEF CallSound, ReplySound
<1> QED BY <1>1, Inductive, PTL

-----------------------------------------------------------------------------
(* No run for an answer that is there *)

(* A query is closer to itself than any other query is, and close enough   *)
(* for a search.                                                           *)
SelfClosest ==
    \A q, r \in Query :
        /\ Similarity[<<q, r>>] \in Int /\ Threshold \in Int
        /\ Similarity[<<q, q>>] >= Threshold
        /\ r # q => Similarity[<<q, r>>] < Similarity[<<q, q>>]

(* A lookup of a query of which all rows are readable and unexpired is a   *)
(* hit unless it fails: no row it could find is another (lookup.py:464-532,*)
(* lancedb.py:371-567).                                                    *)
LEMMA CertainHits ==
    ASSUME SelfClosest, IInv, NEW c \in Active, NEW i \in DOMAIN c.queries,
           Certain(rows, clock, c.func, c.queries[i], Context(c))
    PROVE  /\ Search(c.func, c.queries[i], Context(c)) # {}
           /\ \A r \in Search(c.func, c.queries[i], Context(c)) : Readable(r) /\ ~Expired(r)
<1> DEFINE q == c.queries[i]
           own == {r \in rows : r.table = TableOf(c.func, q) /\ r.key = Context(c) /\ r.query = q}
           near == {r \in rows : r.table = TableOf(c.func, q) /\ r.key = Context(c)}
<1>1. q \in Query /\ \A r \in rows : r.query \in Query /\ r.ts \in Nat
    <2>1. c.queries \in Seq(Query)
        BY DEF Active
    <2> QED BY <2>1 DEF IInv, TypeOK, Row
<1>2. own # {} /\ \A r \in own : Readable(r) /\ clock - r.ts <= TTL
    BY DEF Certain
<1>3. Search(c.func, q, Context(c)) = own
    <2>1. CASE TableOf(c.func, q) = "exact"
        BY <2>1 DEF Search
    <2>2. CASE TableOf(c.func, q) # "exact"
        <3>1. Search(c.func, q, Context(c)) =
                 {r \in near : /\ Similarity[<<q, r.query>>] >= Threshold
                              /\ \A s \in near : Similarity[<<q, s.query>>] <= Similarity[<<q, r.query>>]}
            BY <2>2 DEF Search
        <3>2. ASSUME NEW r \in own
              PROVE  r \in Search(c.func, q, Context(c))
            BY <1>1, <3>1, <3>2 DEF SelfClosest
        <3>3. ASSUME NEW r \in Search(c.func, q, Context(c))
              PROVE  r \in own
            <4>1. PICK s \in own : TRUE
                BY <1>2
            <4>2. r \in near /\ s \in near /\ s.query = q
                BY <3>1, <3>3, <4>1
            <4>3. Similarity[<<q, q>>] <= Similarity[<<q, r.query>>]
                BY <3>1, <3>3, <4>2
            <4>4. r.query = q
                BY <1>1, <4>2, <4>3 DEF SelfClosest
            <4> QED BY <4>2, <4>4
        <3> QED BY <3>2, <3>3
    <2> QED BY <2>1, <2>2
<1>4. \A r \in own : ~Expired(r)
    <2>1. TTL \in Nat /\ clock \in Nat
        BY DecoratorAssumption DEF DecoratorAssumption, IInv, TypeOK
    <2> QED BY <1>1, <1>2, <2>1 DEF Expired
<1> QED BY <1>2, <1>3, <1>4

(* Once the history is up to date, what a call counts on is certain. *)
LEMMA AwareKnown ==
    ASSUME NEW cs, NEW R, NEW now, NEW t \in Caller,
           cs[t] \in Resting \cup Active,
           \A i \in cs[t].known : i \in DOMAIN cs[t].queries /\ cs[t].found[i] # Miss
    PROVE  KnownSound(Aware(cs, R, now)[t], R, now)
<1> DEFINE K == {i \in cs[t].known :
                   Certain(R, now, cs[t].func, cs[t].queries[i], Key(cs[t].func, cs[t].arg))}
           d == [cs[t] EXCEPT !.known = K]
<1>1. Aware(cs, R, now)[t] = d
    BY DEF Aware
<1>2. CASE cs[t] \in Resting
    <2>1. d.known = {}
        BY <1>2 DEF Resting
    <2> QED BY <1>1, <2>1 DEF KnownSound
<1>3. CASE cs[t] \in Active
    <2> HIDE DEF K
    <2>1. /\ d.known = K /\ d.queries = cs[t].queries /\ d.found = cs[t].found
          /\ d.func = cs[t].func /\ d.arg = cs[t].arg
        BY <1>3 DEF Active
    <2> QED BY <1>1, <2>1 DEF KnownSound, Context, K
<1> QED BY <1>2, <1>3

(* Each step of a call leaves sound what the calls count on. *)
LEMMA KnownStep ==
    ASSUME SelfClosest, IInv, NothingKnownMissed, NEW t \in Caller, Proceed(t)
    PROVE  NothingKnownMissed'
<1> DEFINE c == calls[t]
<1>1. /\ calls \in [Caller -> Resting \cup Active]
      /\ \A u \in Caller : KnownSound(calls[u], rows, clock)
    BY DEF IInv, TypeOK, NothingKnownMissed
<1>2. ASSUME NEW d, calls' = [calls EXCEPT ![t] = d], KnownSound(d, rows, clock),
             UNCHANGED <<rows, clock>>
      PROVE  NothingKnownMissed'
    BY <1>1, <1>2 DEF NothingKnownMissed
<1>3. KnownSound(Raised, rows, clock)
    BY DEF Raised, Idle, KnownSound
<1>4. ASSUME NEW d, d.known = {}
      PROVE  \A R, now : KnownSound(d, R, now)
    BY <1>4 DEF KnownSound
<1>5. ASSUME NEW i \in DOMAIN c.queries, LookUp(t, i)
      PROVE  NothingKnownMissed'
    <2>1. c \in Active /\ DOMAIN c.found = 1..Len(c.found) /\ c.found \in Seq(Results \cup {Unseen, Miss})
        BY <1>5, InvariantParts, CallAt, Shape DEF LookUp, Active
    <2>2. PICK x : /\ calls' = [calls EXCEPT ![t].found[i] = x]
                   /\ x # Miss \/ ~Certain(rows, clock, c.func, c.queries[i], Context(c))
        <3>1. \A r \in Search(c.func, c.queries[i], Context(c)) : r.result # Miss
            BY <2>1, SearchSound, Marks
        <3> QED BY <1>5, <2>1, <3>1, CertainHits DEF LookUp
    <2> DEFINE d == [c EXCEPT !.found = [@ EXCEPT ![i] = x]]
    <2>3. calls' = [calls EXCEPT ![t] = d]
        BY <1>1, <2>2
    <2>4. /\ d.known = c.known /\ d.queries = c.queries /\ d.func = c.func /\ d.arg = c.arg
          /\ d.found = [c.found EXCEPT ![i] = x]
        BY <2>1 DEF Active
    <2> HIDE DEF d
    <2>5. Context(d) = Context(c)
        BY <2>4 DEF Context
    <2>6. KnownSound(c, rows, clock)
        BY <1>1
    <2>7. ASSUME NEW j \in d.known
          PROVE  /\ j \in DOMAIN d.queries
                 /\ Certain(rows, clock, d.func, d.queries[j], Context(d))
                 /\ d.found[j] # Miss
        <3>1. /\ j \in DOMAIN c.queries /\ c.found[j] # Miss
              /\ Certain(rows, clock, c.func, c.queries[j], Context(c))
            BY <2>4, <2>6, <2>7 DEF KnownSound
        <3>2. d.found[j] # Miss
            <4>1. CASE j = i
                <5>1. x # Miss
                    BY <2>2, <3>1, <4>1
                <5>2. i \in DOMAIN c.found
                    BY <1>5, <2>1, Shape, InvariantParts, CallAt DEF LookUp, CallSound, Shaped
                <5> QED BY <2>4, <4>1, <5>1, <5>2
            <4>2. CASE j # i
                <5>1. DOMAIN c.found = DOMAIN c.queries
                    BY <1>5, <2>1, Shape, InvariantParts, CallAt DEF LookUp, CallSound, Shaped
                <5> QED BY <2>4, <3>1, <4>2, <5>1
            <4> QED BY <4>1, <4>2
        <3> QED BY <2>4, <2>5, <3>1, <3>2
    <2>8. KnownSound(d, rows, clock)
        BY <2>7 DEF KnownSound
    <2> QED BY <1>2, <1>5, <2>3, <2>8 DEF LookUp
<1>12. ASSUME NEW i \in DOMAIN c.queries, LookUpFails(t, i)
       PROVE  NothingKnownMissed'
    <2> DEFINE d == [c EXCEPT !.found = [@ EXCEPT ![i] = Miss], !.known = @ \ {i}]
    <2>1. c \in Active /\ DOMAIN c.found = DOMAIN c.queries
        BY <1>12, Shape, InvariantParts, CallAt DEF LookUpFails, CallSound, Shaped
    <2>2. calls' = [calls EXCEPT ![t] = d]
        BY <1>1, <1>12 DEF LookUpFails
    <2>3. /\ d.known = c.known \ {i} /\ d.queries = c.queries /\ d.func = c.func /\ d.arg = c.arg
          /\ d.found = [c.found EXCEPT ![i] = Miss]
        BY <2>1 DEF Active
    <2> HIDE DEF d
    <2>4. ASSUME NEW j \in d.known
          PROVE  /\ j \in DOMAIN d.queries
                 /\ Certain(rows, clock, d.func, d.queries[j], Context(d))
                 /\ d.found[j] # Miss
        <3>1. /\ j \in DOMAIN c.queries /\ c.found[j] # Miss /\ j # i
              /\ Certain(rows, clock, c.func, c.queries[j], Context(c))
            BY <1>1, <2>3, <2>4 DEF KnownSound
        <3>2. Context(d) = Context(c)
            BY <2>3 DEF Context
        <3> QED BY <2>1, <2>3, <3>1, <3>2
    <2>5. KnownSound(d, rows, clock)
        BY <2>4 DEF KnownSound
    <2> QED BY <1>2, <1>12, <2>2, <2>5 DEF LookUpFails
<1>6. CASE LookUpNothing(t)
    <2> DEFINE F == [i \in DOMAIN c.queries |-> Miss]
               d == [c EXCEPT !.found = F, !.known = {}]
    <2>1. c \in Active
        BY <1>6, InvariantParts, CallAt DEF LookUpNothing
    <2>2. calls' = [calls EXCEPT ![t] = d]
        BY <1>1, <1>6 DEF LookUpNothing
    <2> HIDE DEF F
    <2>3. d.known = {}
        BY <2>1 DEF Active
    <2> HIDE DEF d
    <2> QED BY <1>2, <1>4, <1>6, <2>2, <2>3 DEF LookUpNothing
<1>7. CASE AllHits(t)
    <2> DEFINE d == [c EXCEPT !.at = "returned", !.known = {}, !.reply = c.found]
    <2>1. c \in Active
        BY <1>7, InvariantParts, CallAt DEF AllHits
    <2>2. calls' = [calls EXCEPT ![t] = d] /\ d.known = {}
        BY <1>1, <1>7, <2>1 DEF AllHits, Active
    <2> HIDE DEF d
    <2> QED BY <1>2, <1>4, <1>7, <2>2 DEF AllHits
<1>8. CASE Execute(t)
    <2>1. c \in Active
        BY <1>8, InvariantParts, CallAt DEF Execute
    <2>2. PICK out : calls' = [calls EXCEPT ![t].at = "computed", ![t].outputs = out]
        BY <1>8 DEF Execute
    <2> DEFINE d == [c EXCEPT !.at = "computed", !.outputs = out]
    <2>3. calls' = [calls EXCEPT ![t] = d]
        BY <1>1, <2>2
    <2>4. /\ d.known = c.known /\ d.queries = c.queries /\ d.found = c.found
          /\ d.func = c.func /\ d.arg = c.arg
        BY <2>1 DEF Active
    <2> HIDE DEF d
    <2>5. KnownSound(c, rows, clock)
        BY <1>1
    <2>6. KnownSound(d, rows, clock)
        BY <2>4, <2>5 DEF KnownSound, Context
    <2> QED BY <1>2, <1>8, <2>3, <2>6 DEF Execute
<1>9. CASE Raise(t)
    BY <1>2, <1>3, <1>9 DEF Raise
<1>13. ASSUME NEW e \in Resting \cup Active, e.known = {},
              calls' = Aware([calls EXCEPT ![t] = e], rows', clock), clock' = clock
       PROVE  NothingKnownMissed'
    <2> DEFINE cs == [calls EXCEPT ![t] = e]
    <2>1. ASSUME NEW u \in Caller
          PROVE  /\ cs[u] \in Resting \cup Active
                 /\ \A i \in cs[u].known : i \in DOMAIN cs[u].queries /\ cs[u].found[i] # Miss
        <3>1. CASE u = t
            BY <1>1, <1>13, <3>1
        <3>2. CASE u # t
            BY <1>1, <3>2 DEF KnownSound
        <3> QED BY <3>1, <3>2
    <2> HIDE DEF cs
    <2>2. \A u \in Caller : KnownSound(calls'[u], rows', clock')
        BY <1>13, <2>1, AwareKnown DEF cs
    <2> QED BY <2>2 DEF NothingKnownMissed
<1>10. CASE StoreBatch(t)
    <2> DEFINE d == [c EXCEPT !.at = "returned", !.known = {}, !.reply = Merged(c)]
    <2>1. c \in Active /\ CallSound(c, spoiled) /\ c.at = "computed" /\ clock' = clock
        BY <1>10, InvariantParts, CallAt DEF StoreBatch
    <2>2. CASE calls' = [calls EXCEPT ![t] = Raised] /\ rows' = rows
        BY <1>2, <1>3, <2>1, <2>2
    <2>3. CASE calls' = Aware([calls EXCEPT ![t] = Raised], rows', clock)
        <3>1. Raised \in Resting \cup Active /\ Raised.known = {}
            BY DEF Raised, Idle, Resting
        <3> QED BY <1>13, <2>1, <2>3, <3>1
    <2>4. CASE /\ Len(c.outputs) = Cardinality(Missing(c))
               /\ calls' = Aware([calls EXCEPT ![t].at = "returned", ![t].known = {},
                                               ![t].reply = Merged(c)],
                                 rows', clock)
        <3>1. calls' = Aware([calls EXCEPT ![t] = d], rows', clock)
            BY <1>1, <2>4
        <3>2. d \in Active
            BY <2>1, <2>4, MergedSound
        <3>3. d.known = {}
            BY <2>1 DEF Active
        <3> HIDE DEF d
        <3> QED BY <1>13, <2>1, <3>1, <3>2, <3>3
    <2>5. Len(c.outputs) \in Nat /\ Cardinality(Missing(c)) \in Nat
        BY <2>1, Shape DEF Active
    <2>6. \/ calls' = [calls EXCEPT ![t] = Raised] /\ rows' = rows
          \/ calls' = Aware([calls EXCEPT ![t] = Raised], rows', clock)
          \/ /\ Len(c.outputs) = Cardinality(Missing(c))
             /\ calls' = Aware([calls EXCEPT ![t].at = "returned", ![t].known = {},
                                             ![t].reply = Merged(c)],
                               rows', clock)
        BY <1>10, <2>5 DEF StoreBatch
    <2> QED BY <2>2, <2>3, <2>4, <2>6
<1>11. CASE StoreOne(t)
    <2> DEFINE d == [c EXCEPT !.at = "returned", !.known = {}, !.reply = c.outputs]
    <2>1. c \in Active /\ CallSound(c, spoiled) /\ c.at = "computed" /\ c.func \notin Batched
        BY <1>11, InvariantParts, CallAt DEF StoreOne
    <2>2. calls' = Aware([calls EXCEPT ![t] = d], rows', clock) /\ clock' = clock
        BY <1>1, <1>11 DEF StoreOne
    <2>3. d \in Active /\ d.known = {}
        BY <2>1, SingleSound DEF Active
    <2> HIDE DEF d
    <2> QED BY <1>13, <2>2, <2>3
<1> QED BY <1>5, <1>6, <1>7, <1>8, <1>9, <1>10, <1>11, <1>12 DEF Proceed

(* The function does not run for a query whose answer has been stored,     *)
(* readable and unexpired since the call began, unless the lookup failed,  *)
(* however many rows and callers there are: a lookup under the call's      *)
(* names finds it (decorators.py:212-260, lancedb.py:371-617).             *)
THEOREM NoNeedlessRuns == ASSUME SelfClosest PROVE Spec => NoNeedlessRun
<1>1. Init => NothingKnownMissed
    BY DEF Init, Idle, NothingKnownMissed, KnownSound
<1>2. IInv /\ NothingKnownMissed /\ [Next]_vars => NothingKnownMissed'
    <2> SUFFICES ASSUME IInv, NothingKnownMissed, [Next]_vars
                 PROVE  NothingKnownMissed'
        OBVIOUS
    <2>1. /\ calls \in [Caller -> Resting \cup Active]
          /\ \A u \in Caller : KnownSound(calls[u], rows, clock)
        BY DEF IInv, TypeOK, NothingKnownMissed
    <2>2. ASSUME NEW t \in Caller, Proceed(t)
          PROVE  NothingKnownMissed'
        BY <2>2, KnownStep
    <2>3. ASSUME NEW t \in Caller, NEW ask \in Asks, Begin(t, ask)
          PROVE  NothingKnownMissed'
        <3>1. ASSUME NEW u \in Caller
              PROVE  KnownSound(calls'[u], rows, clock)
            <4>1. CASE u = t
                BY <2>1, <2>3, <4>1, Marks DEF Begin, KnownSound, Context
            <4>2. CASE u # t
                BY <2>1, <2>3, <4>2 DEF Begin
            <4> QED BY <4>1, <4>2
        <3> QED BY <2>3, <3>1 DEF Begin, NothingKnownMissed
    <2>4. ASSUME NEW R, NEW now, calls' = Aware(calls, R, now), rows' = R, clock' = now
          PROVE  NothingKnownMissed'
        BY <2>1, <2>4, AwareKnown DEF NothingKnownMissed, KnownSound
    <2>5. CASE Drop
        BY <2>4, <2>5 DEF Drop
    <2>6. CASE Tick
        BY <2>4, <2>6 DEF Tick
    <2>7. CASE UNCHANGED vars
        BY <2>7 DEF vars, NothingKnownMissed
    <2> QED BY <2>2, <2>3, <2>5, <2>6, <2>7 DEF Next
<1>3. NothingKnownMissed => \A t \in Caller :
          calls[t].at = "looking" /\ calls'[t].at = "computed"
              => Missing(calls[t]) \cap calls[t].known = {}
    BY DEF NothingKnownMissed, KnownSound, Missing
<1> QED BY <1>1, <1>2, <1>3, Inductive, PTL DEF Spec, NoNeedlessRun
=============================================================================
