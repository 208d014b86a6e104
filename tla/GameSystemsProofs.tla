--------------------------- MODULE GameSystemsProofs ---------------------------
(***************************************************************************)
(* Theorems about the two game systems: the buff manager, for any sets of  *)
(* ids, effects, levels, durations and command lists and any number of     *)
(* calls, and the combat formula, for any values of an attacker's members. *)
(***************************************************************************)
EXTENDS BuffManager, Combat, FiniteSetTheorems, WellFoundedInduction, TLAPS

-----------------------------------------------------------------------------
(* What lists of commands and sets of buffs add                            *)

(* A non-empty set of naturals has a least element: induction, in the form *)
(* of a least counterexample.                                              *)
LEMMA LeastElement ==
    ASSUME NEW T \in SUBSET Nat, T # {}
    PROVE  \E n \in T : \A m \in T : n <= m
<1> DEFINE R == OpToRel(<, Nat)
<1>1. IsWellFoundedOn(R, Nat)
  BY NatLessThanWellFounded
<1>2. \A x, y \in Nat : x < y => <<x, y>> \in R
  BY DEF OpToRel
<1> HIDE DEF R
<1>3. PICK n \in T : \A m \in T : ~(<<m, n>> \in R)
  BY <1>1, WFMin
<1>4. ASSUME NEW m \in T PROVE n <= m
  <2>1. n \in Nat /\ m \in Nat
    OBVIOUS
  <2>2. ~(m < n)
    BY <1>2, <1>3, <2>1
  <2>3. QED BY <2>1, <2>2
<1>5. QED BY <1>4

(* A non-empty set of parts of a finite set has a member none of whose     *)
(* parts with one element less is in the set.                              *)
LEMMA SmallestSet ==
    ASSUME NEW D, IsFiniteSet(D), NEW T \in SUBSET SUBSET D, T # {}
    PROVE  \E S \in T : \A x \in S : S \ {x} \notin T
<1> DEFINE R == StrictSubsetOrdering(D)
<1>1. IsWellFoundedOn(R, FiniteSubsetsOf(D)) /\ FiniteSubsetsOf(D) = SUBSET D
  BY FS_StrictSubsetOrderingWellFounded, FS_FiniteSubsetsOfFinite
<1>2. ASSUME NEW S \in SUBSET D, NEW x \in S
      PROVE  <<S \ {x}, S>> \in R
  BY DEF StrictSubsetOrdering
<1> HIDE DEF R
<1>3. PICK S \in T : \A U \in T : ~(<<U, S>> \in R)
  BY <1>1, WFMin
<1>4. QED BY <1>2, <1>3

(* The deltas of a list of commands add up to an integer.                  *)
LEMMA DeltaType ==
    ASSUME NEW commands \in CommandLists, NEW attr \in Attrs
    PROVE  Delta(commands, attr) \in Int
<1> DEFINE d(i) == IF commands[i].attrId = attr THEN commands[i].delta ELSE 0
           IsSum(f, n) == f = [i \in 0 .. n |-> IF i = 0 THEN 0 ELSE f[i - 1] + d(i)]
           size == Len(commands)
<1>1. commands \in Seq(Commands) /\ size \in Nat
  BY BuffAssumption
<1>2. \A i \in 1 .. size : d(i) \in Int
  <2> TAKE i \in 1 .. size
  <2>1. commands[i] \in Commands
    BY <1>1
  <2>2. commands[i].delta \in Int
    BY <2>1 DEF Commands
  <2>3. QED BY <2>2
<1> HIDE DEF d
<1> DEFINE T == {n \in 0 .. size : ~ \E f \in [0 .. n -> Int] : IsSum(f, n)}
<1>3. T = {}
  <2> SUFFICES ASSUME T # {} PROVE FALSE
    OBVIOUS
  <2>1. PICK n \in T : \A m \in T : n <= m
    <3>1. T \in SUBSET Nat
      BY <1>1
    <3>2. QED BY <3>1, LeastElement
  <2>2. n # 0
    <3> SUFFICES ASSUME n = 0 PROVE FALSE
      OBVIOUS
    <3> DEFINE f == [i \in 0 .. 0 |-> 0]
    <3>1. f \in [0 .. 0 -> Int] /\ IsSum(f, 0)
      OBVIOUS
    <3>2. QED BY <3>1
  <2>3. n \in 1 .. size /\ n - 1 \in 0 .. size /\ ~(n <= n - 1)
    BY <1>1, <2>2
  <2>4. PICK g \in [0 .. n - 1 -> Int] : IsSum(g, n - 1)
    BY <2>1, <2>3
  <2> DEFINE f == [i \in 0 .. n |-> IF i = n THEN g[n - 1] + d(n) ELSE g[i]]
  <2>5. f \in [0 .. n -> Int]
    BY <1>2, <2>3
  <2>6. ASSUME NEW i \in 0 .. n
        PROVE  f[i] = IF i = 0 THEN 0 ELSE f[i - 1] + d(i)
    <3>1. CASE i = n
      BY <2>3, <3>1
    <3>2. CASE i # n
      <4>1. i \in 0 .. n - 1
        BY <2>3, <3>2
      <4>2. g[i] = IF i = 0 THEN 0 ELSE g[i - 1] + d(i)
        BY <2>4, <4>1
      <4>3. i # 0 => i - 1 \in 0 .. n - 1
        BY <4>1
      <4>4. QED BY <2>3, <4>1, <4>2, <4>3
    <3>3. QED BY <3>1, <3>2
  <2>7. IsSum(f, n)
    BY <2>5, <2>6
  <2>8. QED BY <2>1, <2>5, <2>7
<1> HIDE DEF T
<1> DEFINE sum == CHOOSE f : IsSum(f, size)
<1>4. \E f : IsSum(f, size)
  <2>1. size \in 0 .. size
    BY <1>1
  <2>2. QED BY <1>3, <2>1 DEF T
<1>5. IsSum(sum, size)
  BY <1>4
<1>6. Delta(commands, attr) = sum[size]
  BY DEF Delta, d
<1> HIDE DEF sum
<1>7. {n \in 0 .. size : sum[n] \notin Int} = {}
  <2> DEFINE B == {n \in 0 .. size : sum[n] \notin Int}
  <2> SUFFICES ASSUME B # {} PROVE FALSE
    OBVIOUS
  <2>1. PICK n \in B : \A m \in B : n <= m
    <3>1. B \in SUBSET Nat
      BY <1>1
    <3>2. QED BY <3>1, LeastElement
  <2>2. sum[n] = IF n = 0 THEN 0 ELSE sum[n - 1] + d(n)
    BY <1>5
  <2>3. n # 0
    BY <2>2
  <2>4. n \in 1 .. size /\ n - 1 \in 0 .. size /\ ~(n <= n - 1)
    BY <1>1, <2>3
  <2>5. sum[n - 1] \in Int
    BY <2>1, <2>4
  <2>6. QED BY <1>2, <2>2, <2>3, <2>4, <2>5
<1>8. size \in 0 .. size
  BY <1>1
<1>9. QED BY <1>6, <1>7, <1>8

(* A sum of what the buffs in each part of a set add: it may take them in  *)
(* any order.                                                              *)
Additive(sum, commandsOf, attr) ==
    /\ sum \in [SUBSET DOMAIN commandsOf -> Int]
    /\ sum[{}] = 0
    /\ \A S \in SUBSET DOMAIN commandsOf : \A x \in S :
         sum[S] = Delta(commandsOf[x], attr) + sum[S \ {x}]

(* The definition Total chooses its function by.                           *)
Sums(sum, commandsOf, attr) ==
    sum = [S \in SUBSET DOMAIN commandsOf |->
             IF S = {} THEN 0
             ELSE LET id == CHOOSE x \in S : TRUE
                  IN Delta(commandsOf[id], attr) + sum[S \ {id}]]

(* For a finite map there is such a function.                              *)
LEMMA SumsExist ==
    ASSUME NEW map, IsFiniteSet(DOMAIN map), NEW attr
    PROVE  \E sum : Sums(sum, map, attr)
<1> DEFINE D == DOMAIN map
           P(n) == {S \in SUBSET D : Cardinality(S) <= n}
           d(x) == Delta(map[x], attr)
           some(S) == CHOOSE x \in S : TRUE
           IsSum(f, n) == f = [S \in P(n) |-> IF S = {} THEN 0
                                              ELSE d(some(S)) + f[S \ {some(S)}]]
           T == {n \in 0 .. Cardinality(D) : ~ \E f : IsSum(f, n)}
<1>1. /\ Cardinality(D) \in Nat
      /\ \A S \in SUBSET D : /\ IsFiniteSet(S) /\ Cardinality(S) \in Nat
                             /\ Cardinality(S) <= Cardinality(D)
  BY FS_CardinalityType, FS_Subset
<1>2. \A S \in SUBSET D : S # {} => some(S) \in S
  OBVIOUS
<1>3. \A S \in SUBSET D : S # {} => Cardinality(S \ {some(S)}) = Cardinality(S) - 1
                                    /\ S \ {some(S)} \in SUBSET D
  BY <1>1, <1>2, FS_RemoveElement
<1> HIDE DEF d, some
<1>4. T = {}
  <2> SUFFICES ASSUME T # {} PROVE FALSE
    OBVIOUS
  <2>1. PICK n \in T : \A m \in T : n <= m
    <3>1. T \in SUBSET Nat
      BY <1>1
    <3>2. QED BY <3>1, LeastElement
  <2>2. n # 0
    <3> SUFFICES ASSUME n = 0 PROVE FALSE
      OBVIOUS
    <3>1. \A S \in P(0) : S = {}
      <4> TAKE S \in P(0)
      <4>1. S \in SUBSET D /\ Cardinality(S) = 0
        BY <1>1
      <4>2. QED BY <1>1, <4>1, FS_EmptySet
    <3> DEFINE f == [S \in P(0) |-> 0]
    <3>2. IsSum(f, 0)
      BY <3>1
    <3>3. QED BY <3>2
  <2>3. n \in 0 .. Cardinality(D) /\ n - 1 \in 0 .. Cardinality(D) /\ ~(n <= n - 1)
    BY <1>1, <2>2
  <2>4. PICK g : IsSum(g, n - 1)
    BY <2>1, <2>3
  <2> DEFINE f == [S \in P(n) |->
                     IF S \in P(n - 1) THEN g[S] ELSE d(some(S)) + g[S \ {some(S)}]]
  <2>5. ASSUME NEW S \in P(n)
        PROVE  f[S] = IF S = {} THEN 0 ELSE d(some(S)) + f[S \ {some(S)}]
    <3> DEFINE rest == S \ {some(S)}
    <3>1. S # {} => rest \in P(n - 1) /\ rest \in P(n)
      BY <1>1, <1>3, <2>3
    <3>2. S # {} => f[rest] = g[rest]
      BY <3>1
    <3>3. CASE S \in P(n - 1)
      <4>1. g[S] = IF S = {} THEN 0 ELSE d(some(S)) + g[S \ {some(S)}]
        BY <2>4, <3>3
      <4>2. QED BY <3>2, <3>3, <4>1
    <3>4. CASE S \notin P(n - 1)
      <4>1. S # {}
        BY <1>1, <2>3, <3>4, FS_EmptySet
      <4>2. QED BY <3>2, <3>4, <4>1
    <3>5. QED BY <3>3, <3>4
  <2>6. IsSum(f, n)
    <3> HIDE DEF P
    <3>1. f = [S \in P(n) |-> f[S]]
      OBVIOUS
    <3> HIDE DEF f
    <3>2. QED BY <2>5, <3>1
  <2>7. QED BY <2>1, <2>6
<1> HIDE DEF T
<1>5. PICK f : IsSum(f, Cardinality(D))
  <2>1. Cardinality(D) \in 0 .. Cardinality(D)
    BY <1>1
  <2>2. QED BY <1>4, <2>1 DEF T
<1>6. P(Cardinality(D)) = SUBSET D
  BY <1>1
<1>7. Sums(f, map, attr)
  BY <1>5, <1>6 DEF Sums, d, some
<1>8. QED BY <1>7

(* What Total's function returns for a finite map: integers, and the sum   *)
(* over a set is, for whichever of its buffs, that buff's and the others'. *)
LEMMA SumsAdditive ==
    ASSUME NEW map, IsFiniteSet(DOMAIN map), NEW attr,
           \A x \in DOMAIN map : Delta(map[x], attr) \in Int,
           NEW sum, Sums(sum, map, attr)
    PROVE  Additive(sum, map, attr)
<1> DEFINE D == DOMAIN map
           d(x) == Delta(map[x], attr)
           some(S) == CHOOSE x \in S : TRUE
<1>1. \A S \in SUBSET D : S # {} => some(S) \in S
  OBVIOUS
<1>2. /\ DOMAIN sum = SUBSET D
      /\ \A S \in SUBSET D :
           sum[S] = IF S = {} THEN 0 ELSE d(some(S)) + sum[S \ {some(S)}]
      /\ sum = [S \in SUBSET D |-> sum[S]]
  <2> HIDE DEF d, some
  <2>1. sum = [S \in SUBSET D |-> IF S = {} THEN 0
                                  ELSE d(some(S)) + sum[S \ {some(S)}]]
    BY DEF Sums, d, some
  <2>2. QED BY <2>1
<1>3. \A x \in D : d(x) \in Int
  OBVIOUS
<1> HIDE DEF d, some
<1>4. ASSUME NEW S \in SUBSET D
      PROVE  sum[S] \in Int
  <2> DEFINE T == {U \in SUBSET D : sum[U] \notin Int}
  <2> SUFFICES ASSUME T # {} PROVE FALSE
    OBVIOUS
  <2>1. PICK U \in T : \A x \in U : U \ {x} \notin T
    <3>1. T \in SUBSET SUBSET D
      OBVIOUS
    <3>2. QED BY <3>1, SmallestSet
  <2>2. sum[U] = IF U = {} THEN 0 ELSE d(some(U)) + sum[U \ {some(U)}]
    BY <1>2
  <2>3. U # {}
    BY <2>2
  <2>4. some(U) \in U /\ some(U) \in D /\ U \ {some(U)} \in SUBSET D
    BY <1>1, <2>3
  <2>5. sum[U \ {some(U)}] \in Int
    BY <2>1, <2>4
  <2>6. QED BY <1>3, <2>2, <2>3, <2>4, <2>5
<1>5. ASSUME NEW S \in SUBSET D, NEW x \in S
      PROVE  sum[S] = d(x) + sum[S \ {x}]
  <2> DEFINE T == {U \in SUBSET D : \E y \in U : sum[U] # d(y) + sum[U \ {y}]}
  <2> SUFFICES ASSUME T # {} PROVE FALSE
    OBVIOUS
  <2>1. PICK U \in T : \A y \in U : U \ {y} \notin T
    <3>1. T \in SUBSET SUBSET D
      OBVIOUS
    <3>2. QED BY <3>1, SmallestSet
  <2>2. PICK y \in U : sum[U] # d(y) + sum[U \ {y}]
    BY <2>1
  <2>3. PICK c \in U : sum[U] = d(c) + sum[U \ {c}]
    <3>1. U # {}
      BY <2>2
    <3>2. QED BY <1>1, <1>2, <3>1
  <2>4. y # c
    BY <2>2, <2>3
  <2>5. /\ y \in U \ {c} /\ c \in U \ {y} /\ c \in D /\ y \in D
        /\ U \ {c} \in SUBSET D /\ U \ {y} \in SUBSET D
        /\ (U \ {c}) \ {y} = (U \ {y}) \ {c} /\ (U \ {c}) \ {y} \in SUBSET D
    BY <2>4
  <2>6. sum[U \ {c}] = d(y) + sum[(U \ {c}) \ {y}]
    BY <2>1, <2>5
  <2>7. sum[U \ {y}] = d(c) + sum[(U \ {y}) \ {c}]
    BY <2>1, <2>5
  <2> DEFINE r == sum[(U \ {c}) \ {y}]
  <2>8. d(c) \in Int /\ d(y) \in Int /\ r \in Int
    BY <1>3, <1>4, <2>5
  <2>9. sum[U] = d(c) + (d(y) + r) /\ d(y) + sum[U \ {y}] = d(y) + (d(c) + r)
    BY <2>3, <2>5, <2>6, <2>7
  <2> HIDE DEF r
  <2>10. QED BY <2>2, <2>8, <2>9
<1>6. sum[{}] = 0
  <2>1. {} \in SUBSET D
    OBVIOUS
  <2>2. QED BY <1>2, <2>1
<1>7. sum \in [SUBSET D -> Int]
  BY <1>2, <1>4
<1>8. QED BY <1>5, <1>6, <1>7 DEF Additive, d

(* So Total is such a sum over all buffs.                                  *)
LEMMA TotalIsSum ==
    ASSUME NEW map, IsFiniteSet(DOMAIN map), NEW attr,
           \A x \in DOMAIN map : Delta(map[x], attr) \in Int
    PROVE  \E sum : Additive(sum, map, attr) /\ Total(map, attr) = sum[DOMAIN map]
<1> DEFINE sum == CHOOSE f : Sums(f, map, attr)
<1>1. Sums(sum, map, attr)
  BY SumsExist
<1>2. Total(map, attr) = sum[DOMAIN map]
  BY DEF Total, Sums
<1> HIDE DEF sum
<1>3. QED BY <1>1, <1>2, SumsAdditive

(* Two maps that agree on a set of buffs have the same sums over it.       *)
LEMMA SumsAgree ==
    ASSUME NEW map, NEW more, NEW attr, NEW f, NEW g,
           Additive(f, map, attr), Additive(g, more, attr),
           IsFiniteSet(DOMAIN map), DOMAIN map \subseteq DOMAIN more,
           \A x \in DOMAIN map : more[x] = map[x]
    PROVE  f[DOMAIN map] = g[DOMAIN map]
<1> DEFINE D == DOMAIN map
           T == {S \in SUBSET D : f[S] # g[S]}
<1> SUFFICES ASSUME T # {} PROVE FALSE
  OBVIOUS
<1>1. PICK S \in T : \A x \in S : S \ {x} \notin T
  <2>1. T \in SUBSET SUBSET D
    OBVIOUS
  <2>2. QED BY <2>1, SmallestSet
<1>2. S # {}
  BY <1>1 DEF Additive
<1>3. PICK x \in S : TRUE
  BY <1>2
<1>4. x \in D /\ S \in SUBSET D /\ S \in SUBSET DOMAIN more /\ S \ {x} \in SUBSET D
  OBVIOUS
<1>5. f[S \ {x}] = g[S \ {x}]
  BY <1>1, <1>3, <1>4
<1>6. f[S] = Delta(map[x], attr) + f[S \ {x}]
  BY <1>3, <1>4 DEF Additive
<1>7. g[S] = Delta(more[x], attr) + g[S \ {x}]
  BY <1>3, <1>4 DEF Additive
<1>8. QED BY <1>1, <1>4, <1>5, <1>6, <1>7

(* A buff entered adds its commands to the total.                          *)
LEMMA TotalWith ==
    ASSUME NEW map, IsMap(map, Ids, CommandLists), IsFiniteSet(DOMAIN map),
           NEW id \in Ids, id \notin DOMAIN map, NEW commands \in CommandLists,
           NEW attr \in Attrs
    PROVE  /\ IsFiniteSet(DOMAIN With(map, id, commands))
           /\ Total(map, attr) \in Int
           /\ Total(With(map, id, commands), attr)
                = Total(map, attr) + Delta(commands, attr)
<1> DEFINE more == With(map, id, commands)
           D == DOMAIN map
<1>1. /\ DOMAIN more = D \cup {id} /\ more[id] = commands
      /\ \A x \in D : more[x] = map[x]
  BY DEF With
<1>2. IsFiniteSet(DOMAIN more)
  BY <1>1, FS_AddElement
<1>3. /\ \A x \in D : Delta(map[x], attr) \in Int
      /\ \A x \in DOMAIN more : Delta(more[x], attr) \in Int
  <2>1. \A x \in D : map[x] \in CommandLists
    BY DEF IsMap
  <2>2. \A x \in DOMAIN more : more[x] \in CommandLists
    BY <1>1, <2>1
  <2>3. QED BY <2>1, <2>2, DeltaType
<1> HIDE DEF more
<1>4. PICK f : Additive(f, map, attr) /\ Total(map, attr) = f[D]
  BY <1>3, TotalIsSum
<1>5. PICK g : Additive(g, more, attr) /\ Total(more, attr) = g[DOMAIN more]
  BY <1>2, <1>3, TotalIsSum
<1>6. f[D] = g[D]
  <2>1. D \subseteq DOMAIN more
    BY <1>1
  <2>2. QED BY <1>1, <1>4, <1>5, <2>1, SumsAgree
<1>7. g[DOMAIN more] = Delta(commands, attr) + g[D]
  <2>1. DOMAIN more \in SUBSET DOMAIN more /\ id \in DOMAIN more
        /\ DOMAIN more \ {id} = D
    BY <1>1
  <2>2. g[DOMAIN more] = Delta(more[id], attr) + g[DOMAIN more \ {id}]
    BY <1>5, <2>1 DEF Additive
  <2>3. QED BY <1>1, <2>1, <2>2
<1>8. Delta(commands, attr) \in Int /\ f[D] \in Int
  <2>1. D \in SUBSET D
    OBVIOUS
  <2>2. QED BY <1>4, <2>1, DeltaType DEF Additive
<1>9. Total(more, attr) = Total(map, attr) + Delta(commands, attr)
  BY <1>4, <1>5, <1>6, <1>7, <1>8
<1>10. QED BY <1>2, <1>4, <1>8, <1>9 DEF more

(* A buff erased takes its commands out of it.                             *)
LEMMA TotalWithout ==
    ASSUME NEW map, IsMap(map, Ids, CommandLists), IsFiniteSet(DOMAIN map),
           NEW id \in DOMAIN map, NEW attr \in Attrs
    PROVE  /\ IsFiniteSet(DOMAIN Without(map, id))
           /\ Total(map, attr) \in Int
           /\ Total(Without(map, id), attr)
                = Total(map, attr) - Delta(map[id], attr)
<1> DEFINE rest == Without(map, id)
<1>1. /\ IsMap(rest, Ids, CommandLists)
      /\ DOMAIN rest = DOMAIN map \ {id}
      /\ \A x \in DOMAIN rest : rest[x] = map[x]
  BY DEF Without, IsMap
<1>2. IsFiniteSet(DOMAIN rest)
  BY <1>1, FS_RemoveElement
<1>3. id \in Ids /\ map[id] \in CommandLists
  BY DEF IsMap
<1>4. With(rest, id, map[id]) = map
  <2>1. map = [k \in DOMAIN map |-> map[k]]
    BY DEF IsMap
  <2>2. DOMAIN rest \cup {id} = DOMAIN map
    BY <1>1
  <2> HIDE DEF rest
  <2>3. QED BY <1>1, <2>1, <2>2 DEF With
<1> HIDE DEF rest
<1>5. /\ Total(rest, attr) \in Int
      /\ Total(map, attr) = Total(rest, attr) + Delta(map[id], attr)
  <2>1. id \notin DOMAIN rest
    BY <1>1
  <2>2. QED BY <1>1, <1>2, <1>3, <1>4, <2>1, TotalWith
<1>6. Delta(map[id], attr) \in Int
  BY <1>3, DeltaType
<1>7. QED BY <1>2, <1>5, <1>6 DEF rest

(* Without buffs the total is nothing.                                     *)
LEMMA TotalEmpty ==
    ASSUME NEW map, DOMAIN map = {}, NEW attr
    PROVE  Total(map, attr) = 0
<1>1. IsFiniteSet(DOMAIN map)
  BY FS_EmptySet
<1>2. PICK f : Additive(f, map, attr) /\ Total(map, attr) = f[DOMAIN map]
  BY <1>1, TotalIsSum
<1>3. QED BY <1>2 DEF Additive

-----------------------------------------------------------------------------
(* The operators on maps and calls                                         *)

(* The next-state relation, restated for one choice of AddBuff's arguments,*)
(* so that each proof has one case per outcome.                            *)
LEMMA AddBuffCases ==
    ASSUME AddBuff
    PROVE  \E id \in Ids, buff \in NewBuff, commands \in CommandLists \cup {<< >>} :
             \/ Restack(id, buff)
             \/ Reject(id, buff)
             \/ commands \in CommandLists /\ AddNew(id, buff, commands)
             \/ commands \in CommandLists /\ Replace(id, buff, commands)
<1>1. PICK id \in Ids, buff \in NewBuff :
        \/ Restack(id, buff)
        \/ Reject(id, buff)
        \/ \E commands \in CommandLists :
             AddNew(id, buff, commands) \/ Replace(id, buff, commands)
  BY DEF AddBuff
<1>2. CASE Restack(id, buff) \/ Reject(id, buff)
  BY <1>2
<1>3. CASE \E commands \in CommandLists :
             AddNew(id, buff, commands) \/ Replace(id, buff, commands)
  BY <1>3
<1>4. QED BY <1>1, <1>2, <1>3

(* A new buff is an entry of m_byId.                                       *)
LEMMA NewBuffIsEntry ==
    ASSUME NEW buff \in NewBuff
    PROVE  /\ buff \in BuffEntry /\ buff.effectId \in Effects
           /\ buff.remainTime \in Int /\ buff.remainTime > 0
<1>1. /\ buff.effectId \in Effects /\ buff.level \in Levels
      /\ buff.remainTime \in Durations /\ buff.enchantTimes = 0
      /\ buff = [effectId |-> buff.effectId, level |-> buff.level,
                 remainTime |-> buff.remainTime,
                 enchantTimes |-> buff.enchantTimes]
  BY DEF NewBuff
<1>2. \A d \in Durations : d \in Int /\ d > 0
  BY BuffAssumption
<1>3. buff.remainTime \in Int /\ buff.remainTime > 0
  BY <1>1, <1>2
<1>4. 0 \in 0 .. EnchantWidth - 1
  BY BuffAssumption
<1>5. QED BY <1>1, <1>3, <1>4 DEF BuffEntry

(* Adding to and erasing from a map keeps its type.                        *)
LEMMA WithType ==
    ASSUME NEW map, NEW K, NEW V, IsMap(map, K, V), NEW k \in K, NEW v \in V
    PROVE  /\ IsMap(With(map, k, v), K, V)
           /\ DOMAIN With(map, k, v) = DOMAIN map \cup {k}
           /\ With(map, k, v)[k] = v
           /\ \A x \in DOMAIN map \ {k} : With(map, k, v)[x] = map[x]
BY DEF IsMap, With

(* Erasing a key keeps the type and the other keys' values.                *)
LEMMA WithoutType ==
    ASSUME NEW map, NEW K, NEW V, IsMap(map, K, V), NEW k
    PROVE  /\ IsMap(Without(map, k), K, V)
           /\ DOMAIN Without(map, k) = DOMAIN map \ {k}
           /\ \A x \in DOMAIN map \ {k} : Without(map, k)[x] = map[x]
BY DEF IsMap, Without

(* Applying and rolling back commands keeps the stats integers.            *)
LEMMA StatsType ==
    ASSUME NEW array \in [Attrs -> Int], NEW commands \in CommandLists
    PROVE  /\ Applied(array, commands) \in [Attrs -> Int]
           /\ RolledBack(array, commands) \in [Attrs -> Int]
BY DeltaType DEF Applied, RolledBack

-----------------------------------------------------------------------------
(* The inductive invariant *)

(* NoneOverdue holds between ticks only; inside a tick it is the buffs not *)
(* yet collected that have time left.                                      *)
OverdueAreCollected ==
    \A id \in DOMAIN m_byId \ expired : m_byId[id].remainTime > 0

BuffInv == TypeOK /\ IndexesAgree /\ ExpiredAreActive /\ OverdueAreCollected

(* What NeverWeakened asks of one step. *)
LevelsKept ==
    \A e \in DOMAIN m_byEffect \cap DOMAIN m_byEffect' :
      m_byId'[m_byEffect'[e]].level >= m_byId[m_byEffect[e]].level

(* Levels are integers, so an unchanged level is not a lower one.          *)
LEMMA LevelType ==
    ASSUME BuffInv
    PROVE  \A e \in DOMAIN m_byEffect :
             /\ m_byEffect[e] \in DOMAIN m_byId
             /\ m_byId[m_byEffect[e]].level \in Int
<1>1. IsMap(m_byId, Ids, BuffEntry) /\ IndexesAgree
  BY DEF BuffInv, TypeOK
<1>2. \A x \in DOMAIN m_byId : m_byId[x].level \in Levels
  BY <1>1 DEF IsMap, BuffEntry
<1>3. \A l \in Levels : l \in Int
  BY BuffAssumption
<1>4. QED BY <1>1, <1>2, <1>3 DEF IndexesAgree

(* A step that keeps the level of each effect that stays.                  *)
LEMMA SameLevels ==
    ASSUME BuffInv,
           \A e \in DOMAIN m_byEffect \cap DOMAIN m_byEffect' :
             m_byId'[m_byEffect'[e]].level = m_byId[m_byEffect[e]].level
    PROVE  LevelsKept
BY LevelType DEF LevelsKept

(* AddBuff for an effect that is not active: a fresh id under a fresh effect.*)
LEMMA AddNewKeeps ==
    ASSUME BuffInv, NEW id \in Ids, NEW buff \in NewBuff,
           NEW commands \in CommandLists, AddNew(id, buff, commands)
    PROVE  BuffInv' /\ LevelsKept
<1>1. /\ IsMap(m_byId, Ids, BuffEntry) /\ IsMap(m_byEffect, Effects, Ids)
      /\ IsMap(m_commands, Ids, CommandLists) /\ buff \in BuffEntry
      /\ buff.effectId \in Effects /\ buff.remainTime > 0
  BY NewBuffIsEntry DEF BuffInv, TypeOK
<1>2. /\ IsMap(m_byId', Ids, BuffEntry)
      /\ DOMAIN m_byId' = DOMAIN m_byId \cup {id}
      /\ m_byId'[id] = buff
      /\ \A x \in DOMAIN m_byId \ {id} : m_byId'[x] = m_byId[x]
  BY <1>1, WithType DEF AddNew
<1>3. /\ IsMap(m_byEffect', Effects, Ids)
      /\ DOMAIN m_byEffect' = DOMAIN m_byEffect \cup {buff.effectId}
      /\ m_byEffect'[buff.effectId] = id
      /\ \A x \in DOMAIN m_byEffect \ {buff.effectId} :
           m_byEffect'[x] = m_byEffect[x]
  <2>1. m_byEffect' = With(m_byEffect, buff.effectId, id)
    BY DEF AddNew
  <2>2. QED BY <1>1, <2>1, WithType
<1>4. /\ IsMap(m_commands', Ids, CommandLists)
      /\ DOMAIN m_commands' = DOMAIN m_commands \cup {id}
  <2>1. m_commands' = With(m_commands, id, commands)
    BY DEF AddNew
  <2>2. QED BY <1>1, <2>1, WithType
<1>5. /\ id \notin DOMAIN m_byId /\ buff.effectId \notin DOMAIN m_byEffect
      /\ expired = {} /\ expired' = {}
      /\ adds < MaxAdds /\ adds' = adds + 1
  BY DEF AddNew, Adding
<1>6. stats' \in [Attrs -> Int]
  BY StatsType DEF AddNew, BuffInv, TypeOK
<1>7. TypeOK'
  BY <1>2, <1>3, <1>4, <1>5, <1>6, BuffAssumption DEF BuffInv, TypeOK
<1>8. IndexesAgree'
  BY <1>2, <1>3, <1>4, <1>5 DEF BuffInv, IndexesAgree
<1>9. ExpiredAreActive' /\ OverdueAreCollected'
  BY <1>1, <1>2, <1>5 DEF BuffInv, ExpiredAreActive, OverdueAreCollected
<1>10. LevelsKept
  <2>1. \A e \in DOMAIN m_byEffect : m_byEffect[e] \in DOMAIN m_byId
    BY DEF BuffInv, IndexesAgree
  <2>2. \A e \in DOMAIN m_byEffect :
          m_byId'[m_byEffect'[e]].level = m_byId[m_byEffect[e]].level
    BY <1>2, <1>3, <1>5, <2>1
  <2>3. QED BY <2>2, SameLevels
<1>11. QED BY <1>7, <1>8, <1>9, <1>10 DEF BuffInv

(* AddBuff at the same level changes only time and restack count of one buff.*)
LEMMA RestackKeeps ==
    ASSUME BuffInv, NEW id \in Ids, NEW buff \in NewBuff, Restack(id, buff)
    PROVE  BuffInv' /\ LevelsKept
<1> DEFINE existing == m_byEffect[buff.effectId]
           entry == [m_byId[existing] EXCEPT
                       !.remainTime = buff.remainTime,
                       !.enchantTimes = (@ + 1) % EnchantWidth]
<1>1. /\ IsMap(m_byId, Ids, BuffEntry)
      /\ existing \in DOMAIN m_byId
      /\ buff.remainTime \in Int /\ buff.remainTime > 0
  BY BuffAssumption DEF BuffInv, TypeOK, IndexesAgree, Restack, Existing, Restacked, NewBuff
<1>2. m_byId' = [m_byId EXCEPT ![existing] = entry]
  BY <1>1 DEF Restack, Existing, Restacked, IsMap
<1>3. m_byId[existing] \in BuffEntry
  BY <1>1 DEF IsMap
<1>4. /\ entry \in BuffEntry
      /\ entry.effectId = m_byId[existing].effectId
      /\ entry.level = m_byId[existing].level
      /\ entry.remainTime > 0
  <2>1. m_byId[existing].enchantTimes \in Nat
    BY <1>3, BuffAssumption DEF BuffEntry
  <2>2. (m_byId[existing].enchantTimes + 1) % EnchantWidth
          \in 0 .. EnchantWidth - 1
    BY <2>1, BuffAssumption
  <2>3. QED BY <1>1, <1>3, <2>2 DEF BuffEntry
<1> HIDE DEF existing, entry
<1>5. /\ IsMap(m_byId', Ids, BuffEntry)
      /\ DOMAIN m_byId' = DOMAIN m_byId
      /\ m_byId'[existing] = entry
      /\ \A x \in DOMAIN m_byId \ {existing} : m_byId'[x] = m_byId[x]
  BY <1>1, <1>2, <1>4 DEF IsMap
<1>6. /\ \A x \in DOMAIN m_byId : /\ m_byId'[x].effectId = m_byId[x].effectId
                                  /\ m_byId'[x].level = m_byId[x].level
      /\ expired = {} /\ adds < MaxAdds /\ adds' = adds + 1
      /\ UNCHANGED <<m_byEffect, m_commands, stats, expired>>
  BY <1>4, <1>5 DEF Restack, Existing, Restacked, Adding
<1>7. TypeOK'
  BY <1>5, <1>6, BuffAssumption DEF BuffInv, TypeOK
<1>8. IndexesAgree'
  BY <1>5, <1>6 DEF BuffInv, IndexesAgree
<1>9. ExpiredAreActive' /\ OverdueAreCollected'
  BY <1>4, <1>5, <1>6 DEF BuffInv, ExpiredAreActive, OverdueAreCollected
<1>10. LevelsKept
  <2>1. \A e \in DOMAIN m_byEffect : m_byEffect[e] \in DOMAIN m_byId
    BY DEF BuffInv, IndexesAgree
  <2>2. QED BY <1>6, <2>1, SameLevels
<1>11. QED BY <1>7, <1>8, <1>9, <1>10 DEF BuffInv

(* AddBuff at a higher level: the old id goes, the new one takes its effect.*)
LEMMA ReplaceKeeps ==
    ASSUME BuffInv, NEW id \in Ids, NEW buff \in NewBuff,
           NEW commands \in CommandLists, Replace(id, buff, commands)
    PROVE  BuffInv' /\ LevelsKept
<1> DEFINE existing == m_byEffect[buff.effectId]
<1>1. /\ IsMap(m_byId, Ids, BuffEntry) /\ IsMap(m_byEffect, Effects, Ids)
      /\ IsMap(m_commands, Ids, CommandLists) /\ buff \in BuffEntry
      /\ buff.effectId \in Effects /\ buff.remainTime > 0
  BY NewBuffIsEntry DEF BuffInv, TypeOK
<1>2. /\ id \notin DOMAIN m_byId /\ buff.effectId \in DOMAIN m_byEffect
      /\ existing \in DOMAIN m_byId /\ existing # id
      /\ m_byId[existing].effectId = buff.effectId
      /\ expired = {} /\ expired' = {}
      /\ adds < MaxAdds /\ adds' = adds + 1
      /\ stats' = Applied(RolledBack(stats, m_commands[existing]), commands)
      /\ m_commands' = With(Without(m_commands, existing), id, commands)
      /\ m_byId' = With(Without(m_byId, existing), id, buff)
      /\ m_byEffect' = With(Without(m_byEffect, buff.effectId),
                            buff.effectId, id)
  BY DEF Replace, Existing, Outranks, Adding, BuffInv, IndexesAgree
<1> HIDE DEF existing
<1>3. /\ IsMap(m_byId', Ids, BuffEntry)
      /\ DOMAIN m_byId' = (DOMAIN m_byId \ {existing}) \cup {id}
      /\ m_byId'[id] = buff
      /\ \A x \in DOMAIN m_byId \ {existing} : m_byId'[x] = m_byId[x]
  <2> DEFINE rest == Without(m_byId, existing)
  <2>1. /\ IsMap(rest, Ids, BuffEntry)
        /\ DOMAIN rest = DOMAIN m_byId \ {existing}
        /\ \A x \in DOMAIN m_byId \ {existing} : rest[x] = m_byId[x]
    BY <1>1, WithoutType
  <2>2. m_byId' = With(rest, id, buff)
    BY <1>2
  <2> HIDE DEF rest
  <2>3. /\ IsMap(m_byId', Ids, BuffEntry)
        /\ DOMAIN m_byId' = DOMAIN rest \cup {id}
        /\ m_byId'[id] = buff
        /\ \A x \in DOMAIN rest \ {id} : m_byId'[x] = rest[x]
    BY <1>1, <2>1, <2>2, WithType
  <2>4. QED BY <1>2, <2>1, <2>3
<1>4. /\ IsMap(m_byEffect', Effects, Ids)
      /\ DOMAIN m_byEffect' = DOMAIN m_byEffect
      /\ m_byEffect'[buff.effectId] = id
      /\ \A x \in DOMAIN m_byEffect \ {buff.effectId} :
           m_byEffect'[x] = m_byEffect[x]
  <2> DEFINE rest == Without(m_byEffect, buff.effectId)
  <2>1. /\ IsMap(rest, Effects, Ids)
        /\ DOMAIN rest = DOMAIN m_byEffect \ {buff.effectId}
        /\ \A x \in DOMAIN m_byEffect \ {buff.effectId} : rest[x] = m_byEffect[x]
    BY <1>1, WithoutType
  <2>2. m_byEffect' = With(rest, buff.effectId, id)
    BY <1>2
  <2> HIDE DEF rest
  <2> DEFINE effect == buff.effectId
  <2>3. effect \in Effects /\ m_byEffect' = With(rest, effect, id)
    BY <1>1, <2>2
  <2> HIDE DEF effect
  <2>4. /\ IsMap(m_byEffect', Effects, Ids)
        /\ DOMAIN m_byEffect' = DOMAIN rest \cup {effect}
        /\ m_byEffect'[effect] = id
        /\ \A x \in DOMAIN rest \ {effect} : m_byEffect'[x] = rest[x]
    <3>1. /\ IsMap(With(rest, effect, id), Effects, Ids)
          /\ DOMAIN With(rest, effect, id) = DOMAIN rest \cup {effect}
          /\ With(rest, effect, id)[effect] = id
          /\ \A x \in DOMAIN rest \ {effect} :
               With(rest, effect, id)[x] = rest[x]
      BY <2>1, <2>3 DEF With, IsMap
    <3>2. QED BY <2>3, <3>1, Zenon
  <2>5. QED BY <1>2, <2>1, <2>4 DEF effect
<1>5. /\ IsMap(m_commands', Ids, CommandLists)
      /\ DOMAIN m_commands' = (DOMAIN m_commands \ {existing}) \cup {id}
  <2> DEFINE rest == Without(m_commands, existing)
  <2>1. /\ IsMap(rest, Ids, CommandLists)
        /\ DOMAIN rest = DOMAIN m_commands \ {existing}
    BY <1>1, WithoutType
  <2>2. m_commands' = With(rest, id, commands)
    BY <1>2
  <2> HIDE DEF rest
  <2>3. /\ IsMap(m_commands', Ids, CommandLists)
        /\ DOMAIN m_commands' = DOMAIN rest \cup {id}
    BY <2>1, <2>2, WithType
  <2>4. QED BY <2>1, <2>3
<1>6. stats' \in [Attrs -> Int]
  <2>1. m_commands[existing] \in CommandLists
    BY <1>1, <1>2 DEF BuffInv, IndexesAgree, IsMap
  <2>2. RolledBack(stats, m_commands[existing]) \in [Attrs -> Int]
    BY <2>1, StatsType DEF BuffInv, TypeOK
  <2>3. QED BY <1>2, <2>2, StatsType
<1>7. TypeOK'
  BY <1>2, <1>3, <1>4, <1>5, <1>6, BuffAssumption DEF BuffInv, TypeOK
<1>8. IndexesAgree'
  <2>1. DOMAIN m_commands = DOMAIN m_byId
    BY DEF BuffInv, IndexesAgree
  <2>2. \A x \in DOMAIN m_byId \ {existing} :
          /\ m_byId[x].effectId \in DOMAIN m_byEffect
          /\ m_byId[x].effectId # buff.effectId
          /\ m_byEffect[m_byId[x].effectId] = x
    BY <1>2 DEF BuffInv, IndexesAgree, existing
  <2>3. \A e \in DOMAIN m_byEffect \ {buff.effectId} :
          /\ m_byEffect[e] \in DOMAIN m_byId \ {existing}
          /\ m_byId[m_byEffect[e]].effectId = e
    BY <1>2 DEF BuffInv, IndexesAgree
  <2>4. QED
    BY <1>2, <1>3, <1>4, <1>5, <2>1, <2>2, <2>3 DEF IndexesAgree
<1>9. ExpiredAreActive' /\ OverdueAreCollected'
  BY <1>1, <1>2, <1>3 DEF BuffInv, ExpiredAreActive, OverdueAreCollected
<1>10. LevelsKept
  <2>1. m_byId'[m_byEffect'[buff.effectId]].level
          >= m_byId[m_byEffect[buff.effectId]].level
    <3>1. buff.level > m_byId[existing].level
      BY DEF Replace, Existing, Outranks, existing
    <3>2. m_byId[existing].level \in Int
      BY <1>2, LevelType DEF existing
    <3>3. buff.level \in Int
      BY BuffAssumption DEF NewBuff
    <3>4. buff.level >= m_byId[existing].level
      BY <3>1, <3>2, <3>3
    <3>5. QED BY <1>3, <1>4, <3>4 DEF existing
  <2>2. ASSUME NEW e \in DOMAIN m_byEffect \ {buff.effectId}
        PROVE  m_byId'[m_byEffect'[e]].level >= m_byId[m_byEffect[e]].level
    <3>1. m_byEffect[e] \in DOMAIN m_byId \ {existing}
      BY <1>2 DEF BuffInv, IndexesAgree
    <3>2. m_byId[m_byEffect[e]].level \in Int
      BY LevelType
    <3>3. m_byId'[m_byEffect'[e]] = m_byId[m_byEffect[e]]
      BY <1>3, <1>4, <3>1
    <3>4. QED BY <3>2, <3>3
  <2>3. QED BY <2>1, <2>2 DEF LevelsKept
<1>11. QED BY <1>7, <1>8, <1>9, <1>10 DEF BuffInv

(* RemoveBuff for an active buff, called from outside or by TickAll.       *)
LEMMA RemovalKeeps ==
    ASSUME BuffInv, NEW id \in Ids, Removal(id), expired' = expired \ {id},
           adds' = adds
    PROVE  BuffInv' /\ LevelsKept
<1> DEFINE effect == m_byId[id].effectId
<1>1. /\ IsMap(m_byId, Ids, BuffEntry) /\ IsMap(m_byEffect, Effects, Ids)
      /\ IsMap(m_commands, Ids, CommandLists)
  BY DEF BuffInv, TypeOK
<1>2. /\ id \in DOMAIN m_byId /\ id \in DOMAIN m_commands
      /\ effect \in DOMAIN m_byEffect /\ m_byEffect[effect] = id
      /\ stats' = RolledBack(stats, m_commands[id])
      /\ m_commands' = Without(m_commands, id)
      /\ m_byEffect' = Without(m_byEffect, effect)
      /\ m_byId' = Without(m_byId, id)
  BY DEF Removal, BuffInv, IndexesAgree
<1> HIDE DEF effect
<1>3. /\ IsMap(m_byId', Ids, BuffEntry)
      /\ DOMAIN m_byId' = DOMAIN m_byId \ {id}
      /\ \A x \in DOMAIN m_byId \ {id} : m_byId'[x] = m_byId[x]
  BY <1>1, <1>2, WithoutType
<1>4. /\ IsMap(m_byEffect', Effects, Ids)
      /\ DOMAIN m_byEffect' = DOMAIN m_byEffect \ {effect}
      /\ \A x \in DOMAIN m_byEffect \ {effect} : m_byEffect'[x] = m_byEffect[x]
  BY <1>1, <1>2, WithoutType
<1>5. /\ IsMap(m_commands', Ids, CommandLists)
      /\ DOMAIN m_commands' = DOMAIN m_commands \ {id}
  BY <1>1, <1>2, WithoutType
<1>6. stats' \in [Attrs -> Int]
  <2>1. m_commands[id] \in CommandLists
    BY <1>1, <1>2 DEF IsMap
  <2>2. QED BY <1>2, <2>1, StatsType DEF BuffInv, TypeOK
<1>7. TypeOK'
  BY <1>3, <1>4, <1>5, <1>6 DEF BuffInv, TypeOK
<1>8. IndexesAgree'
  <2>1. DOMAIN m_commands = DOMAIN m_byId
    BY DEF BuffInv, IndexesAgree
  <2>2. \A x \in DOMAIN m_byId \ {id} :
          /\ m_byId[x].effectId \in DOMAIN m_byEffect \ {effect}
          /\ m_byEffect[m_byId[x].effectId] = x
    BY <1>2 DEF BuffInv, IndexesAgree
  <2>3. \A e \in DOMAIN m_byEffect \ {effect} :
          /\ m_byEffect[e] \in DOMAIN m_byId \ {id}
          /\ m_byId[m_byEffect[e]].effectId = e
    BY <1>2 DEF BuffInv, IndexesAgree, effect
  <2>4. QED
    BY <1>3, <1>4, <1>5, <2>1, <2>2, <2>3 DEF IndexesAgree
<1>9. ExpiredAreActive' /\ OverdueAreCollected'
  BY <1>3 DEF BuffInv, ExpiredAreActive, OverdueAreCollected
<1>10. LevelsKept
  <2>1. \A e \in DOMAIN m_byEffect \ {effect} :
          m_byEffect[e] \in DOMAIN m_byId \ {id}
    BY <1>2 DEF BuffInv, IndexesAgree, effect
  <2>2. \A e \in DOMAIN m_byEffect \cap DOMAIN m_byEffect' :
          m_byId'[m_byEffect'[e]].level = m_byId[m_byEffect[e]].level
    BY <1>3, <1>4, <2>1
  <2>3. QED BY <2>2, SameLevels
<1>11. QED BY <1>7, <1>8, <1>9, <1>10 DEF BuffInv

(* TickAll's first loop: what is left with time is not overdue.            *)
LEMMA TickKeeps ==
    ASSUME BuffInv, TickAll
    PROVE  BuffInv' /\ LevelsKept
<1>1. /\ IsMap(m_byId, Ids, BuffEntry) /\ expired = {}
      /\ UNCHANGED <<m_byEffect, m_commands, stats, adds>>
  BY DEF BuffInv, TypeOK, TickAll, TimeIsUp
<1> DEFINE aged(x) == [m_byId[x] EXCEPT !.remainTime = @ - TickTenths]
<1>2. m_byId' = [x \in DOMAIN m_byId |-> aged(x)]
  BY DEF TickAll, TimeIsUp
<1>3. ASSUME NEW x \in DOMAIN m_byId
      PROVE  /\ aged(x) \in BuffEntry
             /\ aged(x).effectId = m_byId[x].effectId
             /\ aged(x).level = m_byId[x].level
             /\ aged(x).remainTime = m_byId[x].remainTime - TickTenths
             /\ m_byId[x].remainTime \in Int
  <2>1. m_byId[x] \in BuffEntry
    BY <1>1 DEF IsMap
  <2>2. m_byId[x].remainTime \in Int /\ m_byId[x].remainTime - TickTenths \in Int
    BY <2>1 DEF BuffEntry, TickTenths
  <2>3. QED BY <2>1, <2>2 DEF BuffEntry
<1> HIDE DEF aged
<1>4. /\ IsMap(m_byId', Ids, BuffEntry)
      /\ DOMAIN m_byId' = DOMAIN m_byId
      /\ \A x \in DOMAIN m_byId :
           /\ m_byId'[x].effectId = m_byId[x].effectId
           /\ m_byId'[x].level = m_byId[x].level
           /\ m_byId'[x].remainTime = m_byId[x].remainTime - TickTenths
           /\ m_byId[x].remainTime \in Int
  BY <1>1, <1>2, <1>3 DEF IsMap
<1>5. expired' = {x \in DOMAIN m_byId : m_byId[x].remainTime - TickTenths <= 0}
  BY DEF TickAll, TimeIsUp
<1>6. TypeOK'
  <2>1. expired' \in SUBSET Ids
    BY <1>1, <1>5 DEF IsMap
  <2>2. QED BY <1>1, <1>4, <2>1 DEF BuffInv, TypeOK
<1>7. IndexesAgree'
  BY <1>1, <1>4 DEF BuffInv, IndexesAgree
<1>8. ExpiredAreActive'
  BY <1>4, <1>5 DEF ExpiredAreActive
<1>9. OverdueAreCollected'
  <2>1. ASSUME NEW x \in DOMAIN m_byId, x \notin expired'
        PROVE  m_byId'[x].remainTime > 0
    <3>1. ~(m_byId[x].remainTime - TickTenths <= 0)
      BY <1>5, <2>1
    <3>2. m_byId[x].remainTime \in Int /\ TickTenths \in Int
      BY <1>4 DEF TickTenths
    <3>3. m_byId[x].remainTime - TickTenths > 0
      BY <3>1, <3>2
    <3>4. QED BY <1>4, <3>3
  <2>2. QED BY <1>4, <2>1 DEF OverdueAreCollected
<1>10. LevelsKept
  <2>1. \A e \in DOMAIN m_byEffect : m_byEffect[e] \in DOMAIN m_byId
    BY DEF BuffInv, IndexesAgree
  <2>2. QED BY <1>1, <1>4, <2>1, SameLevels
<1>11. QED BY <1>6, <1>7, <1>8, <1>9, <1>10 DEF BuffInv

(* A manager without buffs satisfies the invariant.                        *)
LEMMA InitHolds == Init => BuffInv
<1> SUFFICES ASSUME Init PROVE BuffInv
  OBVIOUS
<1>1. DOMAIN m_byId = {} /\ DOMAIN m_byEffect = {} /\ DOMAIN m_commands = {}
  BY DEF Init
<1>2. /\ IsMap(m_byId, Ids, BuffEntry) /\ IsMap(m_byEffect, Effects, Ids)
      /\ IsMap(m_commands, Ids, CommandLists)
  BY <1>1 DEF Init, IsMap
<1>3. TypeOK
  BY <1>2, BuffAssumption DEF Init, TypeOK
<1>4. QED
  BY <1>1, <1>3 DEF Init, BuffInv, IndexesAgree, ExpiredAreActive,
     OverdueAreCollected

(* Every step keeps the invariant, and no step lowers the level of an      *)
(* effect that stays.                                                      *)
LEMMA StepHolds ==
    ASSUME BuffInv, [Next]_vars
    PROVE  BuffInv' /\ LevelsKept
<1>1. CASE AddBuff
  <2>1. PICK id \in Ids, buff \in NewBuff, commands \in CommandLists \cup {<< >>} :
          \/ Restack(id, buff)
          \/ Reject(id, buff)
          \/ commands \in CommandLists /\ AddNew(id, buff, commands)
          \/ commands \in CommandLists /\ Replace(id, buff, commands)
    BY <1>1, AddBuffCases
  <2>2. CASE Restack(id, buff)
    BY <2>2, RestackKeeps
  <2>3. CASE Reject(id, buff)
    <3>1. BuffInv'
      BY <2>3, BuffAssumption DEF Reject, Existing, Adding, BuffInv, TypeOK,
         IndexesAgree, ExpiredAreActive, OverdueAreCollected
    <3>2. LevelsKept
      BY <2>3, SameLevels DEF Reject, Existing
    <3>3. QED BY <3>1, <3>2
  <2>4. CASE commands \in CommandLists /\ AddNew(id, buff, commands)
    BY <2>4, AddNewKeeps
  <2>5. CASE commands \in CommandLists /\ Replace(id, buff, commands)
    BY <2>5, ReplaceKeeps
  <2>6. QED BY <2>1, <2>2, <2>3, <2>4, <2>5
<1>2. CASE RemoveBuff
  <2>1. PICK id \in Ids : Removal(id)
    BY <1>2 DEF RemoveBuff
  <2>2. expired' = expired \ {id} /\ adds' = adds
    BY <1>2 DEF RemoveBuff
  <2>3. QED BY <2>1, <2>2, RemovalKeeps
<1>3. CASE TickAll
  BY <1>3, TickKeeps
<1>4. CASE Expire
  <2>1. PICK id \in expired : Removal(id) /\ expired' = expired \ {id}
    BY <1>4 DEF Expire
  <2>2. id \in Ids /\ adds' = adds
    BY <1>4 DEF Expire, BuffInv, TypeOK
  <2>3. QED BY <2>1, <2>2, RemovalKeeps
<1>5. CASE UNCHANGED vars
  <2>1. BuffInv'
    BY <1>5 DEF vars, BuffInv, TypeOK, IndexesAgree, ExpiredAreActive,
       OverdueAreCollected, IsMap
  <2>2. LevelsKept
    BY <1>5, SameLevels DEF vars
  <2>3. QED BY <2>1, <2>2
<1>6. QED BY <1>1, <1>2, <1>3, <1>4, <1>5 DEF Next

-----------------------------------------------------------------------------
(* The stats                                                               *)

(* The invariant of the stats: they are the base ones and what the active  *)
(* buffs add, of which there are finitely many.                            *)
StatsInv == IsFiniteSet(DOMAIN m_commands) /\ StatsAreActiveBuffs

(* The commands of active buffs are lists of commands, and stats integers. *)
LEMMA StatsTypes ==
    ASSUME BuffInv
    PROVE  /\ IsMap(m_commands, Ids, CommandLists)
           /\ DOMAIN m_commands = DOMAIN m_byId
           /\ \A id \in DOMAIN m_commands : m_commands[id] \in CommandLists
           /\ \A a \in Attrs : stats[a] \in Int /\ BaseStats[a] \in Int
BY BuffAssumption DEF BuffInv, TypeOK, IndexesAgree, IsMap

(* AddBuff for an effect that is not active.                               *)
LEMMA AddNewStats ==
    ASSUME BuffInv, StatsInv, NEW id \in Ids, NEW buff, NEW commands \in CommandLists,
           AddNew(id, buff, commands)
    PROVE  StatsInv'
<1>1. /\ id \notin DOMAIN m_commands
      /\ m_commands' = With(m_commands, id, commands)
      /\ stats' = Applied(stats, commands)
  BY StatsTypes DEF AddNew, Adding
<1>2. IsMap(m_commands, Ids, CommandLists) /\ IsFiniteSet(DOMAIN m_commands)
  BY StatsTypes DEF StatsInv
<1>3. ASSUME NEW a \in Attrs
      PROVE  /\ IsFiniteSet(DOMAIN m_commands')
             /\ stats'[a] = BaseStats[a] + Total(m_commands', a)
  <2>1. /\ IsFiniteSet(DOMAIN m_commands') /\ Total(m_commands, a) \in Int
        /\ Total(m_commands', a) = Total(m_commands, a) + Delta(commands, a)
    BY <1>1, <1>2, TotalWith
  <2>2. stats[a] = BaseStats[a] + Total(m_commands, a)
    BY DEF StatsInv, StatsAreActiveBuffs
  <2>3. stats'[a] = stats[a] + Delta(commands, a)
    BY <1>1 DEF Applied
  <2>4. Delta(commands, a) \in Int /\ BaseStats[a] \in Int
    BY DeltaType, StatsTypes
  <2>5. QED BY <2>1, <2>2, <2>3, <2>4
<1>4. IsFiniteSet(DOMAIN m_commands')
  <2>1. DOMAIN m_commands' = DOMAIN m_commands \cup {id}
    BY <1>1 DEF With
  <2>2. QED BY <1>2, <2>1, FS_AddElement
<1>5. QED BY <1>3, <1>4 DEF StatsInv, StatsAreActiveBuffs

(* AddBuff over a lower level: the old buff's commands out, the new one's  *)
(* in.                                                                     *)
LEMMA ReplaceStats ==
    ASSUME BuffInv, StatsInv, NEW id \in Ids, NEW buff, NEW commands \in CommandLists,
           Replace(id, buff, commands)
    PROVE  StatsInv'
<1> DEFINE old == Existing(buff)
           rest == Without(m_commands, old)
<1>1. /\ id \notin DOMAIN m_commands /\ buff.effectId \in DOMAIN m_byEffect
      /\ m_commands' = With(rest, id, commands)
      /\ stats' = Applied(RolledBack(stats, m_commands[old]), commands)
  BY StatsTypes DEF Replace, Adding
<1>2. old \in DOMAIN m_commands
  BY <1>1, StatsTypes DEF Existing, BuffInv, IndexesAgree
<1>3. IsMap(m_commands, Ids, CommandLists) /\ IsFiniteSet(DOMAIN m_commands)
  BY StatsTypes DEF StatsInv
<1>4. /\ IsMap(rest, Ids, CommandLists) /\ DOMAIN rest = DOMAIN m_commands \ {old}
      /\ id \notin DOMAIN rest /\ IsFiniteSet(DOMAIN rest)
  <2>1. DOMAIN rest = DOMAIN m_commands \ {old} /\ IsMap(rest, Ids, CommandLists)
    BY <1>3, WithoutType
  <2>2. IsFiniteSet(DOMAIN m_commands \ {old})
    BY <1>3, FS_RemoveElement
  <2>3. QED BY <1>1, <2>1, <2>2
<1>5. ASSUME NEW a \in Attrs
      PROVE  stats'[a] = BaseStats[a] + Total(m_commands', a)
  <2>1. /\ Total(m_commands, a) \in Int
        /\ Total(rest, a) = Total(m_commands, a) - Delta(m_commands[old], a)
    BY <1>2, <1>3, TotalWithout
  <2> HIDE DEF rest
  <2>2. Total(m_commands', a) = Total(rest, a) + Delta(commands, a)
    BY <1>1, <1>4, TotalWith
  <2>3. stats[a] = BaseStats[a] + Total(m_commands, a)
    BY DEF StatsInv, StatsAreActiveBuffs
  <2>4. stats'[a] = (stats[a] - Delta(m_commands[old], a)) + Delta(commands, a)
    BY <1>1 DEF Applied, RolledBack
  <2>5. /\ Delta(commands, a) \in Int /\ BaseStats[a] \in Int
        /\ Delta(m_commands[old], a) \in Int
    BY <1>2, DeltaType, StatsTypes
  <2>6. QED BY <2>1, <2>2, <2>3, <2>4, <2>5
<1>6. IsFiniteSet(DOMAIN m_commands')
  <2>1. DOMAIN m_commands' = DOMAIN rest \cup {id}
    BY <1>1 DEF With
  <2>2. QED BY <1>4, <2>1, FS_AddElement
<1>7. QED BY <1>5, <1>6 DEF StatsInv, StatsAreActiveBuffs

(* A buff removed, by a call or by a tick: its commands out.               *)
LEMMA RemovalStats ==
    ASSUME BuffInv, StatsInv, NEW id, Removal(id)
    PROVE  StatsInv'
<1>1. /\ id \in DOMAIN m_commands /\ m_commands' = Without(m_commands, id)
      /\ stats' = RolledBack(stats, m_commands[id])
  BY StatsTypes DEF Removal
<1>2. IsMap(m_commands, Ids, CommandLists) /\ IsFiniteSet(DOMAIN m_commands)
  BY StatsTypes DEF StatsInv
<1>3. ASSUME NEW a \in Attrs
      PROVE  stats'[a] = BaseStats[a] + Total(m_commands', a)
  <2>1. /\ Total(m_commands, a) \in Int
        /\ Total(m_commands', a) = Total(m_commands, a) - Delta(m_commands[id], a)
    BY <1>1, <1>2, TotalWithout
  <2>2. stats[a] = BaseStats[a] + Total(m_commands, a)
    BY DEF StatsInv, StatsAreActiveBuffs
  <2>3. stats'[a] = stats[a] - Delta(m_commands[id], a)
    BY <1>1 DEF RolledBack
  <2>4. Delta(m_commands[id], a) \in Int /\ BaseStats[a] \in Int
    BY <1>1, DeltaType, StatsTypes
  <2>5. QED BY <2>1, <2>2, <2>3, <2>4
<1>4. IsFiniteSet(DOMAIN m_commands')
  <2>1. DOMAIN m_commands' = DOMAIN m_commands \ {id}
    BY <1>1 DEF Without
  <2>2. QED BY <1>2, <2>1, FS_RemoveElement
<1>5. QED BY <1>3, <1>4 DEF StatsInv, StatsAreActiveBuffs

-----------------------------------------------------------------------------
(* The theorems                                                            *)

(* The types of the maps, of the stats and of the set of expired buffs.    *)
THEOREM TypeCorrect == Spec => []TypeOK
<1>1. BuffInv => TypeOK
  BY DEF BuffInv
<1>2. QED BY <1>1, InitHolds, StepHolds, PTL DEF Spec

(* The three maps agree after any sequence of calls.                       *)
THEOREM IndexesCorrect == Spec => []IndexesAgree
<1>1. BuffInv => IndexesAgree
  BY DEF BuffInv
<1>2. QED BY <1>1, InitHolds, StepHolds, PTL DEF Spec

(* TickAll finds every buff it has collected, and no buff is active between *)
(* ticks with its time used up.                                            *)
THEOREM TicksCorrect == Spec => []TickIsExact
<1>1. BuffInv => TickIsExact
  BY DEF BuffInv, OverdueAreCollected, TickIsExact, NoneOverdue
<1>2. QED BY <1>1, InitHolds, StepHolds, PTL DEF Spec

(* No step lowers the level of an effect that stays on the character.      *)
THEOREM LevelsNeverDrop == Spec => NeverWeakened
<1>1. BuffInv /\ [Next]_vars => [LevelsKept]_vars
  BY StepHolds
<1>2. QED BY <1>1, InitHolds, StepHolds, PTL DEF Spec, NeverWeakened, LevelsKept

(* StatsAreActiveBuffs is an invariant: after any history of calls the     *)
(* stats are the base ones plus the commands of the buffs active now.      *)
THEOREM StatsCorrect == Spec => []StatsAreActiveBuffs
<1>1. Init => StatsInv
  <2> SUFFICES ASSUME Init PROVE StatsInv
    OBVIOUS
  <2>1. DOMAIN m_commands = {} /\ stats = BaseStats
    BY DEF Init
  <2>2. ASSUME NEW a \in Attrs
        PROVE  stats[a] = BaseStats[a] + Total(m_commands, a)
    <3>1. Total(m_commands, a) = 0 /\ BaseStats[a] \in Int
      BY <2>1, TotalEmpty, BuffAssumption
    <3>2. QED BY <2>1, <3>1
  <2>3. QED BY <2>1, <2>2, FS_EmptySet DEF StatsInv, StatsAreActiveBuffs
<1>2. BuffInv /\ StatsInv /\ [Next]_vars => StatsInv'
  <2> SUFFICES ASSUME BuffInv, StatsInv, [Next]_vars PROVE StatsInv'
    OBVIOUS
  <2>1. CASE AddBuff
    <3>1. PICK id \in Ids, buff \in NewBuff, commands \in CommandLists \cup {<< >>} :
            \/ Restack(id, buff)
            \/ Reject(id, buff)
            \/ commands \in CommandLists /\ AddNew(id, buff, commands)
            \/ commands \in CommandLists /\ Replace(id, buff, commands)
      BY <2>1, AddBuffCases
    <3>2. CASE Restack(id, buff) \/ Reject(id, buff)
      <4>1. UNCHANGED <<m_commands, stats>>
        BY <3>2 DEF Restack, Reject
      <4>2. QED BY <4>1 DEF StatsInv, StatsAreActiveBuffs
    <3>3. CASE commands \in CommandLists /\ AddNew(id, buff, commands)
      BY <3>3, AddNewStats
    <3>4. CASE commands \in CommandLists /\ Replace(id, buff, commands)
      BY <3>4, ReplaceStats
    <3>5. QED BY <3>1, <3>2, <3>3, <3>4
  <2>2. CASE RemoveBuff \/ Expire
    <3>1. PICK id : Removal(id)
      BY <2>2 DEF RemoveBuff, Expire
    <3>2. QED BY <3>1, RemovalStats
  <2>3. CASE TickAll \/ UNCHANGED vars
    <3>1. UNCHANGED <<m_commands, stats>>
      BY <2>3 DEF TickAll, vars
    <3>2. QED BY <3>1 DEF StatsInv, StatsAreActiveBuffs
  <2>4. QED BY <2>1, <2>2, <2>3 DEF Next
<1>3. StatsInv => StatsAreActiveBuffs
  BY DEF StatsInv
<1>4. QED BY <1>1, <1>2, <1>3, InitHolds, StepHolds, PTL DEF Spec

-----------------------------------------------------------------------------
(* The combat formula                                                      *)

(* The members are numbers and flags.                                      *)
LEMMA MemberTypes ==
    ASSUME NEW s \in CombatStats
    PROVE  /\ s.strength \in Nat /\ s.agility \in Nat /\ s.level \in Nat
           /\ s.weaponDamageMin \in Nat /\ s.weaponDamageMax \in Nat
           /\ s.offhandDamageMin \in Nat /\ s.offhandDamageMax \in Nat
           /\ s.equipmentBonus \in Int /\ s.buffDamageMultiplier \in Nat
           /\ s.currentHP \in Nat /\ s.currentMP \in Nat /\ s.conversionRate \in Nat
           /\ s.hpConversionActive \in BOOLEAN /\ s.mpConversionActive \in BOOLEAN
<1>1. Equipment \subseteq Int
  BY StatsAssumption DEF Equipment
<1> QED
  BY <1>1, StatsAssumption DEF CombatStats

(* A quotient is what it is of, but for the remainder.                     *)
LEMMA Quotient ==
    ASSUME NEW a \in Nat, NEW m \in Nat \ {0}
    PROVE  a \div m \in Nat /\ \E r \in Nat : r < m /\ a = m * (a \div m) + r
<1>1. a \div m \in Nat
  OBVIOUS
<1>2. a % m \in 0 .. m - 1 /\ a = m * (a \div m) + (a % m)
  OBVIOUS
<1> QED
  BY <1>1, <1>2

(* A larger number has no smaller quotient.                                *)
LEMMA QuotientGrows ==
    ASSUME NEW a \in Nat, NEW b \in Nat, a <= b, NEW m \in Nat \ {0}
    PROVE  a \div m <= b \div m
<1> DEFINE p == a \div m
           q == b \div m
<1>1. PICK r \in Nat : r < m /\ p \in Nat /\ a = m * p + r
  BY Quotient
<1>2. PICK t \in Nat : t < m /\ q \in Nat /\ b = m * q + t
  BY Quotient
<1> HIDE DEF p, q
<1>3. ASSUME q < p PROVE FALSE
  <2>1. p >= q + 1
    BY <1>1, <1>2, <1>3
  <2>2. m * p >= m * (q + 1)
    BY <1>1, <1>2, <2>1
  <2>3. m * (q + 1) = m * q + m
    BY <1>2
  <2>4. /\ m * p \in Int /\ m * q \in Int /\ r \in Int /\ t \in Int
        /\ r >= 0 /\ t < m
    BY <1>1, <1>2
  <2> HIDE DEF p, q
  <2> QED
    BY <1>1, <1>2, <2>2, <2>3, <2>4
<1> QED
  BY <1>1, <1>2, <1>3 DEF p, q

(* Products of natural numbers grow with both factors.                     *)
LEMMA ProductGrows ==
    ASSUME NEW a \in Nat, NEW b \in Nat, NEW c \in Nat, NEW d \in Nat, a <= c, b <= d
    PROVE  a * b \in Nat /\ c * d \in Nat /\ a * b <= c * d
<1>1. a * b <= c * b /\ c * b <= c * d
  <2>1. (c - a) * b >= 0 /\ c * (d - b) >= 0
    OBVIOUS
  <2> QED
    BY <2>1
<1> QED
  BY <1>1

-----------------------------------------------------------------------------
(* The roundings of the layers                                             *)

(* The layers before the multiplier are a number; their quotients lose     *)
(* less than three points, in fortieths.                                   *)
LEMMA LayersRound ==
    ASSUME NEW s \in CombatStats, s.strength * 2 + s.level * 3 >= 1
    PROVE  LET e == 40 * (s.strength * 2 + s.level * 3 + s.equipmentBonus)
                      + 10 * s.agility + 20 * (s.weaponDamageMin + s.weaponDamageMax)
                      + (IF s.offhandDamageMax > 0
                           THEN 12 * (s.offhandDamageMin + s.offhandDamageMax) ELSE 0)
           IN  /\ Unbuffed(s) \in Int
               /\ 40 * Unbuffed(s) <= e /\ e < 40 * Unbuffed(s) + 120
<1> DEFINE b == s.strength * 2 + s.level * 3
           w == s.weaponDamageMin + s.weaponDamageMax
           o == s.offhandDamageMin + s.offhandDamageMax
           e == 40 * (b + s.equipmentBonus) + 10 * s.agility + 20 * w
                  + (IF s.offhandDamageMax > 0 THEN 12 * o ELSE 0)
           qa == s.agility \div 4
           qw == w \div 2
           qo == o \div 2
           qp == (qo * 60) \div 100
<1>1. b \in Nat /\ w \in Nat /\ o \in Nat /\ s.agility \in Nat /\ s.equipmentBonus \in Int
  BY MemberTypes
<1>2. PICK ra \in Nat : ra < 4 /\ qa \in Nat /\ s.agility = 4 * qa + ra
  <2> DEFINE a == s.agility
  <2>1. a \in Nat
    BY <1>1
  <2> HIDE DEF a
  <2>2. a \div 4 \in Nat /\ \E r \in Nat : r < 4 /\ a = 4 * (a \div 4) + r
    BY <2>1, Quotient
  <2> QED
    BY <2>2 DEF a
<1>3. PICK rw \in Nat : rw < 2 /\ qw \in Nat /\ w = 2 * qw + rw
  <2> HIDE DEF w
  <2> QED
    BY <1>1, Quotient
<1>4. PICK ro \in Nat : ro < 2 /\ qo \in Nat /\ o = 2 * qo + ro
  <2> HIDE DEF o
  <2> QED
    BY <1>1, Quotient
<1>5. PICK rp \in Nat : rp < 100 /\ qp \in Nat /\ qo * 60 = 100 * qp + rp
  <2> HIDE DEF qo
  <2>1. qo * 60 \in Nat
    BY <1>4
  <2> DEFINE a == qo * 60
  <2>3. a \in Nat
    BY <2>1
  <2> HIDE DEF a
  <2>2. a \div 100 \in Nat /\ \E r \in Nat : r < 100 /\ a = 100 * (a \div 100) + r
    BY <2>3, Quotient
  <2> QED
    BY <2>2 DEF a
<1>6. Unbuffed(s) = b + qa + qw + (IF s.offhandDamageMax > 0 THEN qp ELSE 0) + s.equipmentBonus
  <2>1. CalcBaseDamage(s) = b + qa
    <3>1. CalcBaseDamage(s) = Greater(b + qa, 1)
      BY DEF CalcBaseDamage
    <3> HIDE DEF b, qa
    <3>2. b >= 1
      BY DEF b
    <3> QED
      BY <1>1, <1>2, <3>1, <3>2 DEF Greater
  <2>2. CalcWeaponDamage(s) = qw + (IF s.offhandDamageMax > 0 THEN qp ELSE 0)
    BY DEF CalcWeaponDamage
  <2> HIDE DEF b, qa, qw, qp
  <2> QED
    BY <1>1, <1>2, <1>3, <1>5, <2>1, <2>2 DEF Unbuffed
<1> HIDE DEF b, w, o, qa, qw, qo, qp
<1>7. /\ Unbuffed(s) \in Int
      /\ 40 * Unbuffed(s) <= e /\ e < 40 * Unbuffed(s) + 120
  BY <1>1, <1>2, <1>3, <1>4, <1>5, <1>6
<1> QED
  BY <1>7 DEF b, w, o

(* A conversion is a quarter of the product, but for the fraction.         *)
LEMMA ConversionRounds ==
    ASSUME NEW s \in CombatStats
    PROVE  LET c == s.conversionRate * ((IF s.hpConversionActive THEN s.currentHP ELSE 0)
                                         + (IF s.mpConversionActive THEN s.currentMP ELSE 0))
           IN  /\ CalcConversionBonus(s) \in Nat /\ c \in Nat
               /\ 4 * CalcConversionBonus(s) <= c /\ c <= 4 * CalcConversionBonus(s) + 6
<1> DEFINE h == IF s.hpConversionActive THEN s.currentHP ELSE 0
           p == IF s.mpConversionActive THEN s.currentMP ELSE 0
           k == s.conversionRate
<1>1. h \in Nat /\ p \in Nat /\ k \in Nat
  BY MemberTypes
<1>2. ASSUME NEW x \in Nat
      PROVE  Truncated(x, 4) \in Nat /\ \E r \in Nat : r < 4 /\ x = 4 * Truncated(x, 4) + r
  BY <1>2, Quotient DEF Truncated
<1>3. Truncated(0, 4) = 0
  BY DEF Truncated
<1>4. CalcConversionBonus(s) = Truncated(h * k, 4) + Truncated(p * k, 4)
  <2>1. s.hpConversionActive \in BOOLEAN /\ s.mpConversionActive \in BOOLEAN
    BY MemberTypes
  <2>2. (IF s.hpConversionActive THEN Truncated(s.currentHP * s.conversionRate, 4) ELSE 0)
          = Truncated(h * k, 4)
    <3>1. CASE s.hpConversionActive
      BY <3>1
    <3>2. CASE ~s.hpConversionActive
      <4>1. h * k = 0
        BY <1>1, <3>2
      <4> QED
        BY <1>3, <3>2, <4>1
    <3> QED
      BY <3>1, <3>2
  <2>3. (IF s.mpConversionActive THEN Truncated(s.currentMP * s.conversionRate, 4) ELSE 0)
          = Truncated(p * k, 4)
    <3>1. CASE s.mpConversionActive
      BY <3>1
    <3>2. CASE ~s.mpConversionActive
      <4>1. p * k = 0
        BY <1>1, <3>2
      <4> QED
        BY <1>3, <3>2, <4>1
    <3> QED
      BY <3>1, <3>2
  <2> QED
    BY <2>2, <2>3 DEF CalcConversionBonus
<1> HIDE DEF h, p, k
<1>5. h * k \in Nat /\ p * k \in Nat /\ k * (h + p) = h * k + p * k
  BY <1>1
<1>6. PICK r \in Nat : r < 4 /\ Truncated(h * k, 4) \in Nat /\ h * k = 4 * Truncated(h * k, 4) + r
  BY <1>2, <1>5
<1>7. PICK t \in Nat : t < 4 /\ Truncated(p * k, 4) \in Nat /\ p * k = 4 * Truncated(p * k, 4) + t
  BY <1>2, <1>5
<1>8. /\ CalcConversionBonus(s) \in Nat /\ k * (h + p) \in Nat
      /\ 4 * CalcConversionBonus(s) <= k * (h + p)
      /\ k * (h + p) <= 4 * CalcConversionBonus(s) + 6
  BY <1>4, <1>5, <1>6, <1>7
<1> QED
  BY <1>8 DEF h, p, k

(* The whole formula, with its seven roundings.                            *)
LEMMA FormulaRounds ==
    ASSUME NEW s \in CombatStats, Exact(s) >= 160, Unbuffed(s) >= 0,
           s.strength * 2 + s.level * 3 >= 1
    PROVE  LET lost == Exact(s) - 160 * CalculateDamage(s)
           IN  lost >= 0 /\ lost < 120 * s.buffDamageMultiplier + 480
<1> DEFINE e == 40 * (s.strength * 2 + s.level * 3 + s.equipmentBonus)
                  + 10 * s.agility + 20 * (s.weaponDamageMin + s.weaponDamageMax)
                  + (IF s.offhandDamageMax > 0
                       THEN 12 * (s.offhandDamageMin + s.offhandDamageMax) ELSE 0)
           c == s.conversionRate * ((IF s.hpConversionActive THEN s.currentHP ELSE 0)
                                     + (IF s.mpConversionActive THEN s.currentMP ELSE 0))
           m == s.buffDamageMultiplier
           u == Unbuffed(s)
           v == CalcConversionBonus(s)
           q == (u * m) \div 4
<1>1. /\ u \in Nat /\ e \in Int /\ m \in Nat
      /\ 40 * u <= e /\ e < 40 * u + 120
  BY LayersRound, MemberTypes
<1>2. v \in Nat /\ c \in Nat /\ 4 * v <= c /\ c <= 4 * v + 6
  BY ConversionRounds
<1>3. Exact(s) = e * m + 40 * c
  <2> DEFINE k == s.conversionRate
             hp == (IF s.hpConversionActive THEN s.currentHP ELSE 0)
                     + (IF s.mpConversionActive THEN s.currentMP ELSE 0)
  <2>1. Exact(s) = e * m + 40 * k * hp
    BY DEF Exact
  <2>2. k \in Nat /\ hp \in Nat
    BY MemberTypes
  <2>3. c = k * hp
    OBVIOUS
  <2> HIDE DEF e, m, k, hp, c
  <2>4. 40 * k * hp = 40 * (k * hp)
    BY <2>2
  <2> QED
    BY <2>1, <2>3, <2>4
<1>4. CalculateDamage(s) = Greater(q + v, 1) /\ q \in Nat
      /\ \E r \in Nat : r < 4 /\ u * m = 4 * q + r
  <2> HIDE DEF u, m, v
  <2>1. u * m \in Nat
    BY <1>1
  <2>2. Truncated(u * m, 4) = q
    BY <2>1 DEF Truncated
  <2>3. CalculateDamage(s) = Greater(q + v, 1)
    BY <2>2 DEF CalculateDamage, u, m, v
  <2> DEFINE a == u * m
  <2>4. a \in Nat
    BY <2>1
  <2> HIDE DEF a
  <2>5. a \div 4 \in Nat /\ \E r \in Nat : r < 4 /\ a = 4 * (a \div 4) + r
    BY <2>4, Quotient
  <2> QED
    BY <2>3, <2>5 DEF a
<1> HIDE DEF e, c, m, u, v, q
<1>5. PICK r \in Nat : r < 4 /\ u * m = 4 * q + r
  BY <1>4
<1>6. 40 * (u * m) <= e * m /\ e * m <= 40 * (u * m) + 120 * m
  <2>1. (e - 40 * u) * m >= 0 /\ (40 * u + 120 - e) * m >= 0
    BY <1>1
  <2>2. /\ (e - 40 * u) * m = e * m - 40 * (u * m)
        /\ (40 * u + 120 - e) * m = 40 * (u * m) + 120 * m - e * m
    BY <1>1
  <2> QED
    BY <1>1, <2>1, <2>2
<1>7. e * m \in Int /\ u * m \in Int
  BY <1>1
<1>8. /\ Exact(s) \in Int
      /\ 160 * (q + v) <= Exact(s) /\ Exact(s) < 160 * (q + v) + 120 * m + 480
  BY <1>1, <1>2, <1>3, <1>4, <1>5, <1>6, <1>7
<1>9. \/ CalculateDamage(s) = q + v
      \/ CalculateDamage(s) = 1 /\ q + v <= 1
  BY <1>2, <1>4 DEF Greater
<1>10. LET lost == Exact(s) - 160 * CalculateDamage(s)
       IN  lost >= 0 /\ lost < 120 * m + 480
  BY <1>1, <1>2, <1>4, <1>8, <1>9
<1> QED
  BY <1>10 DEF m

-----------------------------------------------------------------------------
(* Growth                                                                  *)

(* Every member at least what it was.                                      *)
AtLeast(t, s) ==
    /\ t.strength >= s.strength /\ t.agility >= s.agility /\ t.level >= s.level
    /\ t.weaponDamageMin >= s.weaponDamageMin /\ t.weaponDamageMax >= s.weaponDamageMax
    /\ t.offhandDamageMin >= s.offhandDamageMin /\ t.offhandDamageMax >= s.offhandDamageMax
    /\ t.equipmentBonus >= s.equipmentBonus /\ t.buffDamageMultiplier >= s.buffDamageMultiplier
    /\ t.currentHP >= s.currentHP /\ t.currentMP >= s.currentMP
    /\ t.conversionRate >= s.conversionRate
    /\ s.hpConversionActive => t.hpConversionActive
    /\ s.mpConversionActive => t.mpConversionActive

(* The first three layers grow with their members, and with a second       *)
(* weapon.                                                                 *)
LEMMA LayersGrow ==
    ASSUME NEW s \in CombatStats, NEW t \in CombatStats, AtLeast(t, s)
    PROVE  Unbuffed(s) \in Int /\ Unbuffed(t) \in Int /\ Unbuffed(s) <= Unbuffed(t)
<1>1. ASSUME NEW a \in Nat, NEW b \in Nat, a <= b, NEW m \in Nat \ {0}
      PROVE  a \div m \in Nat /\ b \div m \in Nat /\ a \div m <= b \div m
  BY <1>1, Quotient, QuotientGrows
<1>2. /\ CalcBaseDamage(s) \in Int /\ CalcBaseDamage(t) \in Int
      /\ CalcBaseDamage(s) <= CalcBaseDamage(t)
  <2> DEFINE p == s.agility
             q == t.agility
             b == s.strength * 2 + s.level * 3
             c == t.strength * 2 + t.level * 3
  <2>1. p \in Nat /\ q \in Nat /\ p <= q /\ b \in Nat /\ c \in Nat /\ b <= c
    BY MemberTypes DEF AtLeast
  <2>2. /\ CalcBaseDamage(s) = Greater(b + (p \div 4), 1)
        /\ CalcBaseDamage(t) = Greater(c + (q \div 4), 1)
    BY DEF CalcBaseDamage
  <2> HIDE DEF p, q, b, c
  <2>3. p \div 4 \in Nat /\ q \div 4 \in Nat /\ p \div 4 <= q \div 4
    BY <1>1, <2>1
  <2> QED
    BY <2>1, <2>2, <2>3 DEF Greater
<1>3. /\ CalcWeaponDamage(s) \in Nat /\ CalcWeaponDamage(t) \in Nat
      /\ CalcWeaponDamage(s) <= CalcWeaponDamage(t)
  <2> DEFINE p == s.weaponDamageMin + s.weaponDamageMax
             q == t.weaponDamageMin + t.weaponDamageMax
             f == s.offhandDamageMin + s.offhandDamageMax
             g == t.offhandDamageMin + t.offhandDamageMax
  <2>1. /\ p \in Nat /\ q \in Nat /\ p <= q /\ f \in Nat /\ g \in Nat /\ f <= g
        /\ s.offhandDamageMax > 0 => t.offhandDamageMax > 0
    BY MemberTypes DEF AtLeast
  <2>2. /\ CalcWeaponDamage(s) = (p \div 2) +
             (IF s.offhandDamageMax > 0 THEN ((f \div 2) * 60) \div 100 ELSE 0)
        /\ CalcWeaponDamage(t) = (q \div 2) +
             (IF t.offhandDamageMax > 0 THEN ((g \div 2) * 60) \div 100 ELSE 0)
    BY DEF CalcWeaponDamage
  <2> HIDE DEF p, q, f, g
  <2>3. p \div 2 \in Nat /\ q \div 2 \in Nat /\ p \div 2 <= q \div 2
    BY <1>1, <2>1
  <2>4. f \div 2 \in Nat /\ g \div 2 \in Nat /\ f \div 2 <= g \div 2
    BY <1>1, <2>1
  <2> DEFINE x == (f \div 2) * 60
             y == (g \div 2) * 60
  <2>5. x \in Nat /\ y \in Nat /\ x <= y
    BY <2>4
  <2> HIDE DEF x, y
  <2>6. x \div 100 \in Nat /\ y \div 100 \in Nat /\ x \div 100 <= y \div 100
    BY <1>1, <2>5
  <2> QED
    BY <2>1, <2>2, <2>3, <2>6 DEF x, y
<1>4. /\ s.equipmentBonus \in Int /\ t.equipmentBonus \in Int
      /\ s.equipmentBonus <= t.equipmentBonus
  BY MemberTypes DEF AtLeast
<1> QED
  BY <1>2, <1>3, <1>4 DEF Unbuffed

(* The conversion grows with the points, the rate and the skill.           *)
LEMMA ConversionGrows ==
    ASSUME NEW s \in CombatStats, NEW t \in CombatStats, AtLeast(t, s)
    PROVE  /\ CalcConversionBonus(s) \in Nat /\ CalcConversionBonus(t) \in Nat
           /\ CalcConversionBonus(s) <= CalcConversionBonus(t)
<1>1. ASSUME NEW a \in Nat, NEW b \in Nat, NEW c \in Nat, NEW d \in Nat, a <= c, b <= d
      PROVE  /\ Truncated(a * b, 4) \in Nat /\ Truncated(c * d, 4) \in Nat
             /\ Truncated(a * b, 4) <= Truncated(c * d, 4)
  <2> DEFINE x == a * b
             y == c * d
  <2>1. x \in Nat /\ y \in Nat /\ x <= y
    BY <1>1, ProductGrows
  <2> HIDE DEF x, y
  <2>2. Truncated(x, 4) = x \div 4 /\ Truncated(y, 4) = y \div 4
    BY <2>1 DEF Truncated
  <2>3. x \div 4 \in Nat /\ y \div 4 \in Nat /\ x \div 4 <= y \div 4
    BY <2>1, Quotient, QuotientGrows
  <2> QED
    BY <2>2, <2>3 DEF x, y
<1> DEFINE h(r) == Truncated(r.currentHP * r.conversionRate, 4)
           p(r) == Truncated(r.currentMP * r.conversionRate, 4)
<1>2. h(s) \in Nat /\ h(t) \in Nat /\ h(s) <= h(t)
  BY <1>1, MemberTypes DEF AtLeast
<1>3. p(s) \in Nat /\ p(t) \in Nat /\ p(s) <= p(t)
  BY <1>1, MemberTypes DEF AtLeast
<1>4. \A r \in {s, t} : CalcConversionBonus(r)
                          = (IF r.hpConversionActive THEN h(r) ELSE 0)
                              + (IF r.mpConversionActive THEN p(r) ELSE 0)
  BY DEF CalcConversionBonus
<1>5. /\ s.hpConversionActive => t.hpConversionActive
      /\ s.mpConversionActive => t.mpConversionActive
  BY DEF AtLeast
<1> HIDE DEF h, p
<1> QED
  BY <1>2, <1>3, <1>4, <1>5

(* So the damage grows, when no penalty outweighs the layers.              *)
LEMMA DamageGrows ==
    ASSUME NEW s \in CombatStats, NEW t \in CombatStats, AtLeast(t, s), Unbuffed(s) >= 0
    PROVE  CalculateDamage(t) >= CalculateDamage(s)
<1> DEFINE x == Unbuffed(s) * s.buffDamageMultiplier
           y == Unbuffed(t) * t.buffDamageMultiplier
           v == CalcConversionBonus(s)
           w == CalcConversionBonus(t)
<1>1. x \in Nat /\ y \in Nat /\ x <= y
  <2>1. /\ Unbuffed(s) \in Nat /\ Unbuffed(t) \in Nat /\ Unbuffed(s) <= Unbuffed(t)
        /\ s.buffDamageMultiplier \in Nat /\ t.buffDamageMultiplier \in Nat
        /\ s.buffDamageMultiplier <= t.buffDamageMultiplier
    BY LayersGrow, MemberTypes DEF AtLeast
  <2> QED
    BY <2>1, ProductGrows
<1>2. v \in Nat /\ w \in Nat /\ v <= w
  BY ConversionGrows
<1>3. /\ CalculateDamage(s) = Greater(Truncated(x, 4) + v, 1)
      /\ CalculateDamage(t) = Greater(Truncated(y, 4) + w, 1)
  BY DEF CalculateDamage
<1> HIDE DEF x, y, v, w
<1>4. Truncated(x, 4) = x \div 4 /\ Truncated(y, 4) = y \div 4
  BY <1>1 DEF Truncated
<1>5. x \div 4 \in Nat /\ y \div 4 \in Nat /\ x \div 4 <= y \div 4
  BY <1>1, Quotient, QuotientGrows
<1> QED
  BY <1>2, <1>3, <1>4, <1>5 DEF Greater

(* A higher level never earns more of the same monster.                    *)
LEMMA ShareDeclines ==
    ASSUME NEW a \in Nat, NEW b \in Nat, a <= b, NEW m \in Nat
    PROVE  CalcExpDeclineRate(b, m) <= CalcExpDeclineRate(a, m)
<1>1. \A d \in Int : CalcExpDeclineRate(d + m, m)
         = IF d <= 5 THEN 100 ELSE IF d <= 10 THEN 80 ELSE
           IF d <= 15 THEN 50 ELSE IF d <= 20 THEN 20 ELSE 1
  <2> SUFFICES ASSUME NEW d \in Int
               PROVE  CalcExpDeclineRate(d + m, m)
                        = IF d <= 5 THEN 100 ELSE IF d <= 10 THEN 80 ELSE
                          IF d <= 15 THEN 50 ELSE IF d <= 20 THEN 20 ELSE 1
    OBVIOUS
  <2>1. d + m - m = d
    OBVIOUS
  <2> QED
    BY <2>1 DEF CalcExpDeclineRate
<1>2. a - m \in Int /\ b - m \in Int /\ a - m <= b - m
      /\ a - m + m = a /\ b - m + m = b
  OBVIOUS
<1> QED
  BY <1>1, <1>2

-----------------------------------------------------------------------------
(* The specification of the formula                                        *)

(* The members keep their types.                                           *)
Members == attacker \in CombatStats /\ monster \in Monster

(* A growing character keeps its types, and every member is at least what  *)
(* it was.                                                                 *)
LEMMA GrowthTypes ==
    ASSUME Members, Grow
    PROVE  Members' /\ AtLeast(attacker', attacker)
<1>1. attacker \in CombatStats /\ monster' = monster /\ monster \in Monster
  BY DEF Members, Grow
<1>2. attacker' \in CombatStats /\ (attacker.hpConversionActive => attacker'.hpConversionActive)
      /\ (attacker.mpConversionActive => attacker'.mpConversionActive)
  <2>1. \/ attacker' \in {[attacker EXCEPT !.strength = v] : v \in Strength}
               \cup {[attacker EXCEPT !.agility = v] : v \in Agility}
               \cup {[attacker EXCEPT !.level = v] : v \in Level}
               \cup {[attacker EXCEPT !.weaponDamageMin = v] : v \in WeaponMin}
               \cup {[attacker EXCEPT !.weaponDamageMax = v] : v \in WeaponMax}
               \cup {[attacker EXCEPT !.offhandDamageMin = v] : v \in OffhandMin}
               \cup {[attacker EXCEPT !.offhandDamageMax = v] : v \in OffhandMax}
        \/ attacker' \in {[attacker EXCEPT !.equipmentBonus = v] : v \in Equipment}
               \cup {[attacker EXCEPT !.buffDamageMultiplier = v] : v \in Multiplier}
               \cup {[attacker EXCEPT !.currentHP = v] : v \in HP}
               \cup {[attacker EXCEPT !.currentMP = v] : v \in MP}
               \cup {[attacker EXCEPT !.conversionRate = v] : v \in Rate}
               \cup {[attacker EXCEPT !.hpConversionActive = TRUE]}
               \cup {[attacker EXCEPT !.mpConversionActive = TRUE]}
    BY DEF Grow
  <2> QED
    BY <1>1, <2>1 DEF CombatStats
<1>3. \A m \in DOMAIN attacker \ {"hpConversionActive", "mpConversionActive"} :
        attacker'[m] >= attacker[m]
  BY DEF Grow
<1>4. DOMAIN attacker = {"strength", "agility", "level", "weaponDamageMin", "weaponDamageMax",
         "offhandDamageMin", "offhandDamageMax", "equipmentBonus", "buffDamageMultiplier",
         "currentHP", "currentMP", "conversionRate", "hpConversionActive", "mpConversionActive"}
  BY <1>1 DEF CombatStats
<1>5. AtLeast(attacker', attacker)
  BY <1>2, <1>3, <1>4 DEF AtLeast
<1> QED
  BY <1>1, <1>2, <1>5 DEF Members

(* The members always have their types.                                    *)
LEMMA MembersHold == CombatSpec => []Members
<1>1. CombatInit => Members
  BY DEF CombatInit, Members
<1>2. Members /\ [Grow]_combatVars => Members'
  BY GrowthTypes DEF combatVars, Members
<1> QED
  BY <1>1, <1>2, PTL DEF CombatSpec

(* The seven roundings stay small, whatever the members.                   *)
THEOREM RoundingCorrect == CombatSpec => []RoundingBounded
<1>1. Members => RoundingBounded
  BY FormulaRounds DEF Members, RoundingBounded
<1> QED
  BY <1>1, MembersHold, PTL

(* Nothing gained makes weaker, and no level gained earns more.            *)
THEOREM GrowthCorrect == CombatSpec => GrowthIsMonotonic
<1>1. Members /\ [Grow]_combatVars =>
        [/\ Unbuffed(attacker) >= 0 => CalculateDamage(attacker') >= CalculateDamage(attacker)
         /\ CalcExpDeclineRate(attacker'.level, monster)
              <= CalcExpDeclineRate(attacker.level, monster)]_combatVars
  <2> SUFFICES ASSUME Members, Grow
               PROVE  /\ Unbuffed(attacker) >= 0 =>
                           CalculateDamage(attacker') >= CalculateDamage(attacker)
                      /\ CalcExpDeclineRate(attacker'.level, monster)
                           <= CalcExpDeclineRate(attacker.level, monster)
    OBVIOUS
  <2>1. attacker \in CombatStats /\ attacker' \in CombatStats /\ AtLeast(attacker', attacker)
    BY GrowthTypes DEF Members
  <2>2. ASSUME Unbuffed(attacker) >= 0
        PROVE  CalculateDamage(attacker') >= CalculateDamage(attacker)
    BY <2>1, <2>2, DamageGrows
  <2>3. /\ attacker.level \in Nat /\ attacker'.level \in Nat /\ attacker.level <= attacker'.level
        /\ monster \in Nat
    BY <2>1, MemberTypes, StatsAssumption DEF AtLeast, Members
  <2>4. CalcExpDeclineRate(attacker'.level, monster) <= CalcExpDeclineRate(attacker.level, monster)
    BY <2>3, ShareDeclines
  <2> QED
    BY <2>2, <2>4
<1> QED
  BY <1>1, MembersHold, PTL DEF CombatSpec, GrowthIsMonotonic
=============================================================================
