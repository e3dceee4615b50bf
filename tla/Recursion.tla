------------------------------- MODULE Recursion -------------------------------
(***************************************************************************)
(* That a recursive definition f[x \in S] == Def(f, x) defines a function,  *)
(* if f is used only for what comes before x in a well-founded relation R.  *)
(* S, R and Def are parameters: an instance for each definition supplies    *)
(* them.                                                                    *)
(***************************************************************************)
EXTENDS TLAPS

CONSTANTS S, R, Def(_, _)

(* Every set of members of S has one that none of them comes before *)
WellFounded ==
    \A T \in SUBSET S : T # {} => \E x \in T : \A y \in T : <<y, x>> \notin R

(* Def(f, x) depends on f only in what comes before x *)
Progressive ==
    \A f, g : \A x \in S :
        (\A y \in S : <<y, x>> \in R => f[y] = g[y]) => Def(f, x) = Def(g, x)

Closed(C) == C \in SUBSET S /\ \A x \in C, y \in S : <<y, x>> \in R => y \in C

Solves(f, C) == f = [x \in C |-> Def(f, x)]

(* Two solutions agree where both are defined. *)
LEMMA SolutionsAgree ==
    ASSUME WellFounded, Progressive, NEW C, NEW D, Closed(C), Closed(D),
           NEW f, NEW g, Solves(f, C), Solves(g, D), NEW z \in C \cap D
    PROVE  f[z] = g[z]
<1> DEFINE T == {x \in C \cap D : f[x] # g[x]}
<1>1. SUFFICES ASSUME T # {} PROVE FALSE
    OBVIOUS
<1>2. PICK x \in T : \A y \in T : <<y, x>> \notin R
    <2>1. T \in SUBSET S
        BY DEF Closed
    <2> HIDE DEF T
    <2> QED BY <1>1, <2>1 DEF WellFounded
<1>3. x \in S /\ x \in C /\ x \in D
    BY DEF Closed
<1>4. ASSUME NEW y \in S, <<y, x>> \in R PROVE f[y] = g[y]
    BY <1>2, <1>3, <1>4 DEF Closed
<1>5. Def(f, x) = Def(g, x)
    BY <1>3, <1>4 DEF Progressive
<1>6. f[x] = Def(f, x) /\ g[x] = Def(g, x)
    <2>1. \A u \in C : f[u] = Def(f, u)
        BY DEF Solves
    <2>2. \A u \in D : g[u] = Def(g, u)
        BY DEF Solves
    <2> QED BY <1>3, <2>1, <2>2
<1> QED BY <1>5, <1>6

Covers(C, f, z) == Closed(C) /\ Solves(f, C) /\ z \in C

Covered == {z \in S : \E C, f : Covers(C, f, z)}

Value(z) == CHOOSE v : \E C, f : Covers(C, f, z) /\ v = f[z]

(* On every part that has a solution, the value is the solution's. *)
LEMMA ValueOf ==
    ASSUME WellFounded, Progressive, NEW C, NEW f, NEW z, Covers(C, f, z)
    PROVE  Value(z) = f[z]
<1>1. \E v : \E D, g : Covers(D, g, z) /\ v = g[z]
    OBVIOUS
<1>2. PICK D, g : Covers(D, g, z) /\ Value(z) = g[z]
    BY <1>1, Zenon DEF Value
<1> QED BY <1>2, SolutionsAgree DEF Covers

(* Put together, the solutions solve what they cover. *)
LEMMA ValuesSolve ==
    ASSUME WellFounded, Progressive, NEW f, f = [z \in Covered |-> Value(z)]
    PROVE  Closed(Covered) /\ Solves(f, Covered)
<1>1. ASSUME NEW C, NEW g, NEW z, Covers(C, g, z)
      PROVE  C \subseteq Covered
    BY <1>1 DEF Covers, Covered, Closed
<1>2. Closed(Covered)
    <2> SUFFICES ASSUME NEW x \in Covered, NEW y \in S, <<y, x>> \in R
                 PROVE  y \in Covered
        BY DEF Closed, Covered
    <2>1. PICK C, g : Covers(C, g, x)
        BY DEF Covered
    <2>2. y \in C
        BY <2>1 DEF Covers, Closed
    <2> QED BY <1>1, <2>1, <2>2
<1>3. ASSUME NEW x \in Covered PROVE f[x] = Def(f, x)
    <2>1. PICK C, g : Covers(C, g, x)
        BY DEF Covered
    <2>2. \A y \in C : f[y] = g[y]
        <3> SUFFICES ASSUME NEW y \in C PROVE f[y] = g[y]
            OBVIOUS
        <3>1. Covers(C, g, y)
            BY <2>1 DEF Covers
        <3>2. Value(y) = g[y]
            BY <3>1, ValueOf
        <3> QED BY <1>1, <2>1, <3>2
    <2>3. x \in S /\ x \in C /\ Closed(C) /\ g[x] = Def(g, x)
        <3>1. \A u \in C : g[u] = Def(g, u)
            BY <2>1 DEF Covers, Solves
        <3> QED BY <2>1, <3>1 DEF Covers, Closed
    <2>4. Def(f, x) = Def(g, x)
        BY <2>2, <2>3 DEF Progressive, Closed
    <2> QED BY <2>2, <2>3, <2>4
<1> QED BY <1>2, <1>3 DEF Solves

(* A recursive definition defines a function that satisfies it. *)
THEOREM Defines ==
    ASSUME WellFounded, Progressive,
           NEW f, f = CHOOSE g : g = [x \in S |-> Def(g, x)]
    PROVE  f = [x \in S |-> Def(f, x)]
<1>1. Covered = S
    <2> DEFINE T == S \ Covered
               h == [z \in Covered |-> Value(z)]
    <2>1. SUFFICES ASSUME T # {} PROVE FALSE
        BY DEF Covered
    <2>2. PICK x \in T : \A y \in T : <<y, x>> \notin R
        BY <2>1 DEF WellFounded
    <2> DEFINE C == Covered \cup {x}
               g == [z \in C |-> IF z = x THEN Def(h, x) ELSE h[z]]
    <2>3. Closed(Covered) /\ Solves(h, Covered)
        BY ValuesSolve
    <2>4. x \in S /\ x \notin Covered
        OBVIOUS
    <2>5. \A y \in S : <<y, x>> \in R => y \in Covered
        BY <2>2
    <2>6. \A y \in Covered : g[y] = h[y]
        BY <2>4
    <2>7. g[x] = Def(h, x)
        OBVIOUS
    <2> DEFINE body == [z \in C |-> Def(g, z)]
    <2>8. ASSUME NEW z \in C PROVE g[z] = Def(g, z)
        <3>1. Def(g, x) = Def(h, x)
            BY <2>4, <2>5, <2>6 DEF Progressive
        <3>2. ASSUME z \in Covered PROVE g[z] = Def(g, z)
            <4>1. z \in S /\ \A y \in S : <<y, z>> \in R => g[y] = h[y]
                BY <2>3, <2>6, <3>2 DEF Closed
            <4>2. Def(g, z) = Def(h, z)
                BY <4>1 DEF Progressive
            <4>3. \A u \in Covered : h[u] = Def(h, u)
                BY <2>3 DEF Solves
            <4> QED BY <2>6, <3>2, <4>2, <4>3
        <3> QED BY <2>7, <3>1, <3>2
    <2>9. Solves(g, C)
        BY <2>8 DEF Solves
    <2>10. Closed(C)
        BY <2>3, <2>4, <2>5 DEF Closed
    <2>11. Covers(C, g, x)
        BY <2>9, <2>10 DEF Covers
    <2> QED BY <2>4, <2>11 DEF Covered
<1>2. \E g : g = [x \in S |-> Def(g, x)]
    BY <1>1, ValuesSolve DEF Solves
<1> QED BY <1>2, Zenon
=============================================================================
