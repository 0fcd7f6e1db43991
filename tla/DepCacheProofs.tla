---------------------------- MODULE DepCacheProofs ----------------------------
(***************************************************************************)
(* Theorems about the dependency cache, for any number of pages, projects   *)
(* and installs: types, the modules an install leaves, what eviction takes   *)
(* and the budget it keeps.                                                 *)
(***************************************************************************)
EXTENDS DepCache, FiniteSetTheorems, TLAPS

-----------------------------------------------------------------------------
(* What a set of snapshots weighs: the fold Weight is defined by adds each   *)
(* up once, in whatever order.  The facts below are about finite sets, and   *)
(* each is shown by looking at a smallest set that would not have it.        *)
Entries == Keys \X {"empty", "full"}
BytesOf(e) == Bytes(e[1], e[2])
IsSum(S, i) ==
  i = [s \in SUBSET S |-> IF s = {} THEN 0
                          ELSE LET x == CHOOSE x \in s : TRUE
                               IN  BytesOf(x) + i[s \ {x}]]

LEMMA SmallestSet ==
  ASSUME NEW S, IsFiniteSet(S), NEW T, T \subseteq SUBSET S, T # {}
  PROVE  \E A \in T : \A B \in T : B \subseteq A => B = A
<1>1. IsWellFoundedOn(StrictSubsetOrdering(S), SUBSET S)
  BY FS_StrictSubsetOrderingWellFounded, FS_FiniteSubsetsOfFinite
<1>2. PICK A \in T : \A B \in T : ~(<<B, A>> \in StrictSubsetOrdering(S))
  BY <1>1, WFMin
<1>3. ASSUME NEW B \in T, B \subseteq A, B # A
      PROVE  FALSE
  <2>1. <<B, A>> \in StrictSubsetOrdering(S)
    BY <1>3 DEF StrictSubsetOrdering
  <2>2. QED
    BY <1>2, <2>1
<1>4. QED
  BY <1>3

LEMMA WeightIsSum == \A S : Weight(S) = (CHOOSE i : IsSum(S, i))[S]
  BY DEF Weight, MapThenSumSet, MapThenFoldSet, IsSum, BytesOf

LEMMA SumAt ==
  ASSUME NEW S, NEW i, IsSum(S, i), NEW s, s \subseteq S
  PROVE  /\ s = {} => i[s] = 0
         /\ s # {} => LET x == CHOOSE x \in s : TRUE IN i[s] = BytesOf(x) + i[s \ {x}]
  BY DEF IsSum

LEMMA SumsAgree ==
  ASSUME NEW S, IsFiniteSet(S), NEW i, IsSum(S, i),
         NEW C, C \subseteq S, NEW j, IsSum(C, j)
  PROVE  i[C] = j[C]
<1> SUFFICES ASSUME i[C] # j[C] PROVE FALSE
  OBVIOUS
<1> DEFINE T == {D \in SUBSET C : i[D] # j[D]}
<1>1. IsFiniteSet(C) /\ T \subseteq SUBSET C /\ T # {}
  BY FS_Subset
<1> HIDE DEF T
<1>2. PICK D \in T : \A B \in T : B \subseteq D => B = D
  BY <1>1, SmallestSet
<1> USE DEF T
<1>3. D # {} /\ D \subseteq C
  BY <1>2, SumAt
<1> DEFINE x == CHOOSE x \in D : TRUE
<1>4. x \in D
  BY <1>3
<1>5. i[D \ {x}] = j[D \ {x}]
  <2>1. D \ {x} \notin T
    BY <1>2, <1>4
  <2>2. QED
    BY <1>3, <2>1
<1>6. i[D] = BytesOf(x) + i[D \ {x}] /\ j[D] = BytesOf(x) + j[D \ {x}]
  <2> HIDE DEF T
  <2>1. D \subseteq S
    BY <1>3
  <2>2. i[D] = BytesOf(x) + i[D \ {x}]
    BY <1>3, <2>1, SumAt
  <2>3. j[D] = BytesOf(x) + j[D \ {x}]
    BY <1>3, SumAt
  <2>4. QED
    BY <2>2, <2>3
<1>7. QED
  BY <1>2, <1>5, <1>6

LEMMA SumExists ==
  ASSUME NEW S, IsFiniteSet(S)
  PROVE  \E i : IsSum(S, i)
<1> SUFFICES ASSUME ~\E i : IsSum(S, i) PROVE FALSE
  OBVIOUS
<1> DEFINE T == {A \in SUBSET S : ~\E i : IsSum(A, i)}
<1>0. T \subseteq SUBSET S /\ T # {}
  OBVIOUS
<1> HIDE DEF T
<1>1. PICK A \in T : \A B \in T : B \subseteq A => B = A
  BY <1>0, SmallestSet
<1> USE DEF T
<1>2. \A B : B \subseteq A /\ B # A => IsSum(B, CHOOSE i : IsSum(B, i))
  BY <1>1
<1>3. IsFiniteSet(A)
  BY <1>1, FS_Subset
<1> DEFINE Rest(s) == s \ {CHOOSE x \in s : TRUE}
           g == [s \in SUBSET A |-> IF s = {} THEN 0
                                    ELSE BytesOf(CHOOSE x \in s : TRUE) + Weight(Rest(s))]
<1>4. ASSUME NEW s, s \subseteq A, s # {}
      PROVE  g[Rest(s)] = Weight(Rest(s))
  <2> DEFINE r == Rest(s)
             i == CHOOSE i : IsSum(r, i)
             y == CHOOSE y \in r : TRUE
  <2>1. r \subseteq A /\ r # A
    BY <1>4
  <2>2. IsSum(r, i) /\ Weight(r) = i[r]
    BY <1>2, <2>1, WeightIsSum
  <2>3. CASE r = {}
    <3>1. i[r] = 0
      BY <2>2, <2>3, SumAt
    <3>2. g[r] = 0
      BY <2>1, <2>3
    <3>3. QED
      BY <2>2, <3>1, <3>2
  <2>4. CASE r # {}
    <3> DEFINE q == r \ {y}
               j == CHOOSE j : IsSum(q, j)
    <3>1. q \subseteq r /\ q \subseteq A /\ q # A
      BY <2>1
    <3>2. IsSum(q, j) /\ Weight(q) = j[q]
      BY <1>2, <3>1, WeightIsSum
    <3>3. i[q] = j[q]
      BY <1>3, <2>1, <2>2, <3>1, <3>2, FS_Subset, SumsAgree
    <3>4. i[r] = BytesOf(y) + i[q]
      BY <2>2, <2>4, SumAt
    <3>5. g[r] = BytesOf(y) + Weight(q)
      BY <2>1, <2>4
    <3>6. QED
      BY <2>2, <3>2, <3>3, <3>4, <3>5
  <2>5. QED
    BY <2>3, <2>4
<1>5. IsSum(A, g)
  <2>1. \A s \in SUBSET A : s # {} => Weight(Rest(s)) = g[s \ {CHOOSE x \in s : TRUE}]
    BY <1>4
  <2> DEFINE h == [s \in SUBSET A |-> IF s = {} THEN 0
                          ELSE LET x == CHOOSE x \in s : TRUE
                               IN  BytesOf(x) + g[s \ {x}]]
  <2>2. ASSUME NEW s \in SUBSET A
        PROVE  g[s] = h[s]
    <3>1. CASE s = {}
      BY <3>1
    <3>2. CASE s # {}
      <4>1. g[s] = BytesOf(CHOOSE x \in s : TRUE) + Weight(Rest(s))
        BY <3>2
      <4>2. h[s] = BytesOf(CHOOSE x \in s : TRUE) + g[s \ {CHOOSE x \in s : TRUE}]
        BY <3>2
      <4>3. QED
        BY <2>1, <3>2, <4>1, <4>2
    <3>3. QED
      BY <3>1, <3>2
  <2>3. g = h
    BY <2>2
  <2>4. QED
    BY <2>3 DEF IsSum
<1>6. QED
  BY <1>1, <1>5

(* Nothing weighs nothing; what is chosen first is counted once, ... *)
LEMMA WeightFirst ==
  ASSUME NEW S, IsFiniteSet(S)
  PROVE  /\ S = {} => Weight(S) = 0
         /\ S # {} => LET x == CHOOSE x \in S : TRUE IN Weight(S) = BytesOf(x) + Weight(S \ {x})
<1> DEFINE i == CHOOSE i : IsSum(S, i)
           x == CHOOSE x \in S : TRUE
           r == S \ {x}
           j == CHOOSE j : IsSum(r, j)
<1>1. IsFiniteSet(r) /\ r \subseteq S
  BY FS_Subset
<1>2. IsSum(S, i) /\ IsSum(r, j)
  BY <1>1, SumExists
<1>3. Weight(S) = i[S] /\ Weight(r) = j[r]
  BY WeightIsSum
<1>4. i[r] = j[r]
  BY <1>1, <1>2, SumsAgree
<1>5. S = {} => i[S] = 0
  BY <1>2, SumAt
<1>6. S # {} => i[S] = BytesOf(x) + i[r]
  BY <1>2, SumAt
<1>7. QED
  BY <1>3, <1>4, <1>5, <1>6

LEMMA EntryWeighs == \A e \in Entries : BytesOf(e) \in Nat
  BY DepCacheAssumption DEF Entries, BytesOf, Bytes

LEMMA WeightIsNat ==
  ASSUME NEW S, IsFiniteSet(S), S \subseteq Entries
  PROVE  Weight(S) \in Nat
<1> SUFFICES ASSUME Weight(S) \notin Nat PROVE FALSE
  OBVIOUS
<1> DEFINE T == {A \in SUBSET S : Weight(A) \notin Nat}
<1>1. T \subseteq SUBSET S /\ T # {}
  OBVIOUS
<1> HIDE DEF T
<1>2. PICK A \in T : \A B \in T : B \subseteq A => B = A
  BY <1>1, SmallestSet
<1> USE DEF T
<1>3. IsFiniteSet(A) /\ Weight(A) \notin Nat /\ A \subseteq S
  BY <1>2, FS_Subset
<1>4. A # {}
  BY <1>3, WeightFirst
<1> DEFINE x == CHOOSE x \in A : TRUE
<1>5. x \in A /\ BytesOf(x) \in Nat
  BY <1>3, <1>4, EntryWeighs
<1>6. A \ {x} \notin T
  BY <1>2, <1>5
<1>7. Weight(A \ {x}) \in Nat
  BY <1>3, <1>6
<1>8. Weight(A) = BytesOf(x) + Weight(A \ {x})
  BY <1>3, <1>4, WeightFirst
<1>9. QED
  BY <1>3, <1>5, <1>7, <1>8

(* ... and so is any other. *)
LEMMA WeightOfOne ==
  ASSUME NEW S, IsFiniteSet(S), S \subseteq Entries
  PROVE  \A y \in S : Weight(S) = BytesOf(y) + Weight(S \ {y})
<1> DEFINE Counted(A, y) == Weight(A) = BytesOf(y) + Weight(A \ {y})
           T == {A \in SUBSET S : \E y \in A : ~Counted(A, y)}
<1> SUFFICES ASSUME T # {} PROVE FALSE
  OBVIOUS
<1>1. T \subseteq SUBSET S
  OBVIOUS
<1> HIDE DEF T
<1>2. PICK A \in T : \A B \in T : B \subseteq A => B = A
  BY <1>1, SmallestSet
<1> USE DEF T
<1>3. A \subseteq S /\ IsFiniteSet(A)
  BY <1>2, FS_Subset
<1>4. \A B : B \subseteq A /\ B # A => \A z \in B : Counted(B, z)
  BY <1>2, <1>3
<1>5. PICK y \in A : ~Counted(A, y)
  BY <1>2
<1> DEFINE x == CHOOSE x \in A : TRUE
           r == A \ {x, y}
<1>6. x \in A /\ Counted(A, x)
  BY <1>3, <1>5, WeightFirst
<1>7. x # y
  BY <1>5, <1>6
<1>8. Weight(A \ {x}) = BytesOf(y) + Weight(r)
  <2>1. Counted(A \ {x}, y) /\ (A \ {x}) \ {y} = r
    BY <1>4, <1>5, <1>6, <1>7
  <2>2. QED
    BY <2>1
<1>9. Weight(A \ {y}) = BytesOf(x) + Weight(r)
  <2>1. Counted(A \ {y}, x) /\ (A \ {y}) \ {x} = r
    BY <1>4, <1>5, <1>6, <1>7
  <2>2. QED
    BY <2>1
<1>10. BytesOf(x) \in Nat /\ BytesOf(y) \in Nat /\ Weight(r) \in Nat
  <2>1. x \in Entries /\ y \in Entries /\ r \subseteq Entries /\ IsFiniteSet(r)
    BY <1>3, <1>5, <1>6, FS_Subset
  <2>2. QED
    BY <2>1, EntryWeighs, WeightIsNat
<1>11. QED
  BY <1>5, <1>6, <1>8, <1>9, <1>10

(* A part weighs no more than the whole. *)
LEMMA WeightOfPart ==
  ASSUME NEW S, IsFiniteSet(S), S \subseteq Entries, NEW A, A \subseteq S
  PROVE  Weight(A) <= Weight(S)
<1> DEFINE T == {C \in SUBSET S : A \subseteq C /\ ~(Weight(A) <= Weight(C))}
<1> SUFFICES ASSUME T # {} PROVE FALSE
  OBVIOUS
<1>1. T \subseteq SUBSET S
  OBVIOUS
<1> HIDE DEF T
<1>2. PICK C \in T : \A B \in T : B \subseteq C => B = C
  BY <1>1, SmallestSet
<1> USE DEF T
<1>3. /\ C \subseteq S /\ IsFiniteSet(C) /\ C \subseteq Entries
      /\ A \subseteq C /\ ~(Weight(A) <= Weight(C))
  BY <1>2, FS_Subset
<1>4. Weight(A) \in Nat /\ Weight(C) \in Nat
  <2>1. IsFiniteSet(A) /\ A \subseteq Entries
    BY FS_Subset
  <2>2. QED
    BY <1>3, <2>1, WeightIsNat
<1>5. PICK y \in C : y \notin A
  BY <1>3, <1>4
<1>6. C \ {y} \notin T
  BY <1>2, <1>5
<1>7. Weight(A) <= Weight(C \ {y})
  BY <1>3, <1>5, <1>6
<1>8. Weight(C) = BytesOf(y) + Weight(C \ {y})
  BY <1>3, WeightOfOne
<1>9. BytesOf(y) \in Nat /\ Weight(C \ {y}) \in Nat
  <2>1. IsFiniteSet(C \ {y}) /\ C \ {y} \subseteq Entries
    BY <1>3, FS_Subset
  <2>2. QED
    BY <1>3, <2>1, EntryWeighs, WeightIsNat
<1>10. QED
  BY <1>3, <1>4, <1>7, <1>8, <1>9

-----------------------------------------------------------------------------
(* Types.                                                                   *)
BlobStates == {"absent", "empty", "full"}
PageStates ==
  Ended \cup {"lookup", "read", "mount", "install", "open", "close", "touchRead", "touchWrite",
              "list", "index", "drop", "evict", "clear"}
Restoring == {"lookup", "read", "mount", "install"}
Saving    == {"open", "close", "list", "index", "drop", "evict"}

FieldTypes ==
  /\ blob \in [Names -> BlobStates] /\ index \in [Names -> Nat]
  /\ pc \in [Pages -> PageStates]
  /\ key \in [Pages -> Keys \cup {None}] /\ name \in [Pages -> Names \cup {None}]
  /\ stage \in [Pages -> {"restore", "save"}] /\ file \in [Pages -> BlobStates]
  /\ nm \in [Pages -> SUBSET Keys]
  /\ idx \in [Pages -> [Names -> Nat]]
  /\ listed \in [Pages -> SUBSET (Names \X {"empty", "full"})]
  /\ todo \in [Pages -> SUBSET Entries]
  /\ clock \in Nat /\ used \in [Keys -> Nat]

(* A page at work has a key, and works on the key's snapshot or, for npm, on *)
(* the tarball cache; it restores before it saves.                          *)
PageTypes ==
  \A p \in Pages :
    /\ pc[p] \notin Ended \cup {"clear"} => key[p] \in Keys /\ name[p] \in {key[p], Npm}
    /\ pc[p] = "clear" => todo[p] = {}
    /\ todo[p] \subseteq listed[p]
    /\ pc[p] \in Restoring => stage[p] = "restore"
    /\ pc[p] \in Saving => stage[p] = "save"

Types == FieldTypes /\ PageTypes

LEMMA TypesInit == Init => Types
  BY DepCacheAssumption DEF Init, Types, FieldTypes, PageTypes, PageStates, Ended, Restoring,
     Saving, BlobStates, NoIndex, Names

LEMMA FieldTypesStep == Types /\ [Next]_vars => FieldTypes'
<1> SUFFICES ASSUME FieldTypes, PageTypes, [Next]_vars PROVE FieldTypes'
  BY DEF Types
<1> USE DepCacheAssumption DEF FieldTypes, PageStates, Ended, BlobStates, Goto, storeVars, workVars,
        histVars
<1>n. NoIndex \in [Names -> Nat]
  BY DEF NoIndex
<1>s. Stored \subseteq Names \X {"empty", "full"} /\ Snapshots(Stored) \subseteq Entries
  BY DEF Stored, Snapshots, Entries, Names
<1>f. ASSUME NEW p \in Pages, Forget(p)
      PROVE  /\ file' \in [Pages -> BlobStates] /\ idx' \in [Pages -> [Names -> Nat]]
             /\ listed' \in [Pages -> SUBSET (Names \X {"empty", "full"})]
             /\ todo' \in [Pages -> SUBSET Entries]
  BY <1>f, <1>n DEF Forget
<1>m. ASSUME NEW p \in Pages, Missed(p)
      PROVE  pc' \in [Pages -> PageStates] /\ name' \in [Pages -> Names \cup {None}]
  <2>1. /\ pc' = [pc EXCEPT ![p] = "lookup"] \/ pc' = [pc EXCEPT ![p] = "install"]
        /\ name' = [name EXCEPT ![p] = Npm] \/ name' = name
    BY <1>m DEF Missed
  <2>2. QED
    BY <2>1 DEF Names
<1>1. ASSUME NEW p \in Pages, NEW k \in Keys, Begin(p, k)
      PROVE  FieldTypes'
  <2>1. /\ UNCHANGED <<storeVars, clock, used>>
        /\ key' = [key EXCEPT ![p] = k] /\ name' = [name EXCEPT ![p] = k]
        /\ pc' = [pc EXCEPT ![p] = "lookup"] /\ stage' = [stage EXCEPT ![p] = "restore"]
        /\ Forget(p) /\ \E kept \in {{}, nm[p]} : nm' = [nm EXCEPT ![p] = kept]
    BY <1>1 DEF Begin
  <2>2. nm' \in [Pages -> SUBSET Keys]
    BY <2>1
  <2>3. key' \in [Pages -> Keys \cup {None}] /\ name' \in [Pages -> Names \cup {None}]
    BY <2>1 DEF Names
  <2>4. /\ file' \in [Pages -> BlobStates] /\ idx' \in [Pages -> [Names -> Nat]]
        /\ listed' \in [Pages -> SUBSET (Names \X {"empty", "full"})]
        /\ todo' \in [Pages -> SUBSET Entries]
    BY <2>1, <1>f
  <2>5. pc' \in [Pages -> PageStates] /\ stage' \in [Pages -> {"restore", "save"}]
    BY <2>1
  <2>6. QED
    BY <2>1, <2>2, <2>3, <2>4, <2>5
<1>2. ASSUME NEW p \in Pages, Lookup(p)
      PROVE  FieldTypes'
  <2>1. pc' \in [Pages -> PageStates] /\ name' \in [Pages -> Names \cup {None}]
    <3>1. CASE Missed(p)
      BY <3>1, <1>m
    <3>2. CASE Goto(p, "read") /\ UNCHANGED name
      BY <3>2
    <3>3. QED
      BY <1>2, <3>1, <3>2 DEF Lookup
  <2>2. QED
    BY <1>2, <2>1 DEF Lookup
<1>3. ASSUME NEW p \in Pages, Read(p)
      PROVE  FieldTypes'
  <2>1. \E s \in {"failed", "mount"} : pc' = [pc EXCEPT ![p] = s]
    BY <1>3 DEF Read, Fails
  <2>2. pc' \in [Pages -> PageStates]
    BY <2>1
  <2>3. name[p] \in Names
    BY <1>3 DEF Read, PageTypes, Names
  <2>4. file' \in [Pages -> BlobStates]
    <3>1. file' = [file EXCEPT ![p] = blob[name[p]]] \/ file' = file
      BY <1>3 DEF Read
    <3>2. blob[name[p]] \in BlobStates
      BY <2>3
    <3>3. QED
      BY <3>1, <3>2
  <2>5. QED
    BY <1>3, <2>2, <2>4 DEF Read
<1>4. ASSUME NEW p \in Pages, MountModules(p)
      PROVE  FieldTypes'
  <2>1. pc' \in [Pages -> PageStates] /\ name' \in [Pages -> Names \cup {None}]
    <3>1. CASE Missed(p)
      BY <3>1, <1>m
    <3>2. CASE Goto(p, "touchRead") /\ UNCHANGED name
      BY <3>2
    <3>3. QED
      BY <1>4, <3>1, <3>2 DEF MountModules
  <2>2. key[p] \in Keys
    BY <1>4 DEF MountModules, PageTypes
  <2>3. nm' = [nm EXCEPT ![p] = nm[p] \cup (IF file[p] = "full" THEN {key[p]} ELSE {})]
    BY <1>4 DEF MountModules
  <2>4. nm' \in [Pages -> SUBSET Keys]
    BY <2>2, <2>3
  <2>5. QED
    BY <1>4, <2>1, <2>4 DEF MountModules
<1>5. ASSUME NEW p \in Pages, MountNpm(p) \/ MountFails(p) \/ InstallFails(p)
      PROVE  FieldTypes'
  BY <1>5 DEF MountNpm, MountFails, InstallFails, Fails
<1>6. ASSUME NEW p \in Pages, Install(p)
      PROVE  FieldTypes'
  <2>1. key[p] \in Keys
    BY <1>6 DEF Install, PageTypes
  <2>2. nm' \in [Pages -> SUBSET Keys] /\ name' \in [Pages -> Names \cup {None}]
    BY <1>6, <2>1 DEF Install, Names
  <2>3. pc' \in [Pages -> PageStates] /\ stage' \in [Pages -> {"restore", "save"}]
    BY <1>6 DEF Install
  <2>4. QED
    BY <1>6, <2>2, <2>3 DEF Install
<1>7. ASSUME NEW p \in Pages, SaveOpen(p) \/ SaveClose(p)
      PROVE  FieldTypes'
  <2>1. \E s \in BlobStates : blob' = [blob EXCEPT ![name[p]] = s]
    <3>1. name[p] \in Names
      BY <1>7 DEF SaveOpen, SaveClose, PageTypes, Names
    <3>2. QED
      BY <1>7, <3>1 DEF SaveOpen, SaveClose
  <2>2. blob' \in [Names -> BlobStates]
    BY <2>1
  <2>3. pc' \in [Pages -> PageStates] /\ UNCHANGED <<index, workVars, nm, histVars>>
    BY <1>7 DEF SaveOpen, SaveClose
  <2>4. QED
    BY <2>2, <2>3
<1>8. ASSUME NEW p \in Pages, TouchRead(p)
      PROVE  FieldTypes'
  BY <1>8 DEF TouchRead
<1>9. ASSUME NEW p \in Pages, TouchWrite(p)
      PROVE  FieldTypes'
  <2>0. /\ clock' = clock + 1 /\ index' = [idx[p] EXCEPT ![name[p]] = clock']
        /\ used' = [k \in Keys |-> IF k = name[p] THEN clock' ELSE used[k]]
        /\ \E s \in {"done", "open", "list"} : pc' = [pc EXCEPT ![p] = s]
        /\ name' = [name EXCEPT ![p] = Npm] \/ name' = name
    BY <1>9 DEF TouchWrite
  <2>1. index' \in [Names -> Nat] /\ clock' \in Nat
    <3>1. clock' \in Nat /\ idx[p] \in [Names -> Nat]
      BY <2>0
    <3>2. QED
      BY <2>0, <3>1
  <2>2. used' \in [Keys -> Nat]
    BY <2>0, <2>1
  <2>3. pc' \in [Pages -> PageStates]
    BY <2>0
  <2>4. name' \in [Pages -> Names \cup {None}]
    BY <2>0 DEF Names
  <2>5. QED
    BY <1>9, <1>n, <2>1, <2>2, <2>3, <2>4 DEF TouchWrite
<1>10. ASSUME NEW p \in Pages, EvictList(p) \/ ClearList(p)
      PROVE  FieldTypes'
  <2>1. /\ listed' = [listed EXCEPT ![p] = Stored]
        /\ \E t \in {{}, Snapshots(Stored)} : todo' = [todo EXCEPT ![p] = t]
        /\ \E s \in {"index", "clear"} : pc' = [pc EXCEPT ![p] = s]
        /\ UNCHANGED <<storeVars, key, name, stage, file, idx, nm, clock, used>>
    BY <1>10 DEF EvictList, ClearList
  <2>2. listed' \in [Pages -> SUBSET (Names \X {"empty", "full"})]
    BY <2>1, <1>s
  <2>3. todo' \in [Pages -> SUBSET Entries]
    BY <2>1, <1>s
  <2>4. pc' \in [Pages -> PageStates]
    BY <2>1
  <2>5. QED
    BY <2>1, <2>2, <2>3, <2>4
<1>11. ASSUME NEW p \in Pages, EvictIndex(p)
      PROVE  FieldTypes'
  BY <1>11 DEF EvictIndex
<1>12. ASSUME NEW p \in Pages, NEW n \in Names, NEW next \in PageStates, Remove(p, n, next)
      PROVE  /\ blob' \in [Names -> BlobStates] /\ idx' \in [Pages -> [Names -> Nat]]
             /\ pc' \in [Pages -> PageStates]
  <2>1. /\ blob' = [blob EXCEPT ![n] = "absent"] \/ blob' = blob
        /\ idx' = [idx EXCEPT ![p][n] = 0] \/ idx' = idx
        /\ \E s \in {"failed", next} : pc' = [pc EXCEPT ![p] = s]
    BY <1>12 DEF Remove, Fails
  <2>2. blob' \in [Names -> BlobStates]
    BY <2>1
  <2>3. idx' \in [Pages -> [Names -> Nat]]
    <3>1. [idx[p] EXCEPT ![n] = 0] \in [Names -> Nat]
      <4>1. idx[p] \in [Names -> Nat]
        OBVIOUS
      <4>2. QED
        BY <4>1
    <3>2. [idx EXCEPT ![p][n] = 0] = [idx EXCEPT ![p] = [idx[p] EXCEPT ![n] = 0]]
      OBVIOUS
    <3>3. QED
      BY <2>1, <3>1, <3>2
  <2>4. pc' \in [Pages -> PageStates]
    BY <2>1
  <2>5. QED
    BY <2>2, <2>3, <2>4
<1>13. ASSUME NEW p \in Pages, DropNpm(p)
      PROVE  FieldTypes'
  BY <1>12, <1>13 DEF DropNpm, Names
<1>14. ASSUME NEW p \in Pages, Evict(p)
      PROVE  FieldTypes'
  <2>1. PICK e \in todo[p] : Remove(p, e[1], "evict") /\ todo' = [todo EXCEPT ![p] = @ \ {e}]
    BY <1>14 DEF Evict, LeastRecent, CandidatesOf
  <2>2. e[1] \in Names
    BY <2>1 DEF Entries, Names
  <2>3. todo' \in [Pages -> SUBSET Entries]
    BY <2>1
  <2>4. QED
    BY <1>12, <1>14, <2>1, <2>2, <2>3 DEF Evict
<1>15. ASSUME NEW p \in Pages, EvictWrite(p)
      PROVE  FieldTypes'
  <2>1. index' \in [Names -> Nat]
    BY <1>15 DEF EvictWrite
  <2>2. QED
    BY <1>15, <1>f, <2>1 DEF EvictWrite
<1>16. ASSUME NEW p \in Pages, ClearBlob(p)
      PROVE  FieldTypes'
  <2>1. PICK e \in listed[p] : Remove(p, e[1], "clear") /\ listed' = [listed EXCEPT ![p] = @ \ {e}]
    BY <1>16 DEF ClearBlob
  <2>2. e[1] \in Names
    BY <2>1
  <2>3. listed' \in [Pages -> SUBSET (Names \X {"empty", "full"})]
    BY <2>1
  <2>4. QED
    BY <1>12, <1>16, <2>1, <2>2, <2>3 DEF ClearBlob
<1>17. ASSUME NEW p \in Pages, ClearIndex(p) \/ Cut(p)
      PROVE  FieldTypes'
  <2>1. /\ Forget(p) /\ pc' = [pc EXCEPT ![p] = "new"]
        /\ index' \in {index, NoIndex} /\ UNCHANGED <<blob, key, name, stage, histVars>>
        /\ nm' = [nm EXCEPT ![p] = {}] \/ nm' = nm
    BY <1>17 DEF ClearIndex, Cut
  <2>2. /\ file' \in [Pages -> BlobStates] /\ idx' \in [Pages -> [Names -> Nat]]
        /\ listed' \in [Pages -> SUBSET (Names \X {"empty", "full"})]
        /\ todo' \in [Pages -> SUBSET Entries]
    BY <1>f, <2>1
  <2>3. pc' \in [Pages -> PageStates] /\ nm' \in [Pages -> SUBSET Keys]
    BY <2>1
  <2>4. index' \in [Names -> Nat]
    BY <2>1, <1>n
  <2>5. QED
    BY <2>1, <2>2, <2>3, <2>4
<1>18. CASE UNCHANGED vars
  BY <1>18 DEF vars
<1>19. QED
  BY <1>1, <1>2, <1>3, <1>4, <1>5, <1>6, <1>7, <1>8, <1>9, <1>10, <1>11, <1>13, <1>14, <1>15,
     <1>16, <1>17, <1>18 DEF Next, PageStep

(* One page acts at a time, and leaves what the others have in their hands.  *)
Acts(p) == (\E k \in Keys : Begin(p, k)) \/ ClearList(p) \/ PageStep(p) \/ Cut(p)

SameOf(q) ==
  /\ pc'[q] = pc[q] /\ key'[q] = key[q] /\ name'[q] = name[q] /\ stage'[q] = stage[q]
  /\ file'[q] = file[q] /\ nm'[q] = nm[q] /\ idx'[q] = idx[q]
  /\ listed'[q] = listed[q] /\ todo'[q] = todo[q]

LEMMA OthersRest ==
  ASSUME FieldTypes, NEW p \in Pages, Acts(p), NEW q \in Pages, q # p
  PROVE  SameOf(q)
<1> USE DEF FieldTypes, SameOf, Goto, workVars, histVars, storeVars
<1>f. Forget(p) => /\ file'[q] = file[q] /\ idx'[q] = idx[q]
                   /\ listed'[q] = listed[q] /\ todo'[q] = todo[q]
  BY DEF Forget
<1>m. Missed(p) => pc'[q] = pc[q] /\ name'[q] = name[q]
  BY DEF Missed
<1>r. \A n, next : Remove(p, n, next) => pc'[q] = pc[q] /\ idx'[q] = idx[q]
  <2> SUFFICES ASSUME NEW n, NEW next, Remove(p, n, next)
               PROVE  pc'[q] = pc[q] /\ idx'[q] = idx[q]
    OBVIOUS
  <2>1. /\ idx' = [idx EXCEPT ![p][n] = 0] \/ idx' = idx
        /\ \E s : pc' = [pc EXCEPT ![p] = s]
    BY DEF Remove, Fails
  <2>2. QED
    BY <2>1
<1>1. CASE \E k \in Keys : Begin(p, k)
  BY <1>1, <1>f DEF Begin
<1>2. CASE Lookup(p)
  BY <1>2, <1>m DEF Lookup
<1>3. CASE Read(p)
  BY <1>3 DEF Read, Fails
<1>4. CASE MountModules(p)
  BY <1>4, <1>m DEF MountModules
<1>5. CASE MountNpm(p) \/ MountFails(p) \/ InstallFails(p) \/ Install(p)
  BY <1>5 DEF MountNpm, MountFails, InstallFails, Install, Fails
<1>6. CASE SaveOpen(p) \/ SaveClose(p) \/ TouchRead(p)
  BY <1>6 DEF SaveOpen, SaveClose, TouchRead
<1>7. CASE TouchWrite(p)
  <2>1. /\ \E s : pc' = [pc EXCEPT ![p] = s]
        /\ name' = [name EXCEPT ![p] = Npm] \/ name' = name
        /\ idx' = [idx EXCEPT ![p] = NoIndex]
        /\ UNCHANGED <<key, stage, file, listed, todo, nm>>
    BY <1>7 DEF TouchWrite
  <2>2. QED
    BY <2>1
<1>8. CASE EvictList(p) \/ ClearList(p) \/ EvictIndex(p)
  BY <1>8 DEF EvictList, ClearList, EvictIndex
<1>9. CASE DropNpm(p)
  BY <1>9, <1>r DEF DropNpm
<1>10. CASE Evict(p)
  <2>1. /\ \E n : Remove(p, n, "evict")
        /\ \E t : todo' = [todo EXCEPT ![p] = t]
        /\ UNCHANGED <<key, name, stage, file, listed, nm>>
    BY <1>10 DEF Evict
  <2>2. QED
    BY <1>r, <2>1
<1>11. CASE ClearBlob(p)
  <2>1. /\ \E n : Remove(p, n, "clear")
        /\ \E t : listed' = [listed EXCEPT ![p] = t]
        /\ UNCHANGED <<key, name, stage, file, todo, nm>>
    BY <1>11 DEF ClearBlob
  <2>2. QED
    BY <1>r, <2>1
<1>12. CASE EvictWrite(p) \/ ClearIndex(p) \/ Cut(p)
  BY <1>12, <1>f DEF EvictWrite, ClearIndex, Cut
<1>13. QED
  BY <1>1, <1>2, <1>3, <1>4, <1>5, <1>6, <1>7, <1>8, <1>9, <1>10, <1>11, <1>12
     DEF Acts, PageStep

PageTypesOf(p) ==
  /\ pc[p] \notin Ended \cup {"clear"} => key[p] \in Keys /\ name[p] \in {key[p], Npm}
  /\ pc[p] = "clear" => todo[p] = {}
  /\ todo[p] \subseteq listed[p]
  /\ pc[p] \in Restoring => stage[p] = "restore"
  /\ pc[p] \in Saving => stage[p] = "save"

LEMMA PageTypesStep == Types /\ [Next]_vars => PageTypes'
<1> SUFFICES ASSUME Types, [Next]_vars PROVE PageTypes'
  OBVIOUS
<1>d. (PageTypes <=> \A p \in Pages : PageTypesOf(p))
      /\ (PageTypes' <=> \A p \in Pages : PageTypesOf(p)')
  BY DEF PageTypes, PageTypesOf
<1>1. CASE UNCHANGED vars
  BY <1>1 DEF Types, PageTypes, vars, workVars
<1>2. ASSUME NEW p \in Pages, Acts(p)
      PROVE  PageTypesOf(p)'
  <2> USE DEF Types, FieldTypes, PageTypesOf, Goto, Ended, Restoring, Saving
  <2>p. PageTypesOf(p)
    BY <1>d
  <2>f. Forget(p) => listed'[p] = {} /\ todo'[p] = {}
    BY DEF Forget
  <2>m. Missed(p) => pc'[p] \in {"lookup", "install"} /\ name'[p] \in {name[p], Npm}
    BY DEF Missed
  <2>r. ASSUME NEW n, NEW next, Remove(p, n, next)
        PROVE  pc'[p] \in {"failed", next}
    BY <2>r DEF Remove, Fails
  <2>1. CASE \E k \in Keys : Begin(p, k)
    BY <2>1, <2>f DEF Begin
  <2>2. CASE Lookup(p)
    <3>1. pc'[p] \in {"lookup", "install", "read"} /\ name'[p] \in {name[p], Npm}
      BY <2>2, <2>m DEF Lookup
    <3>2. QED
      BY <2>2, <2>p, <3>1 DEF Lookup
  <2>3. CASE Read(p)
    <3>1. pc'[p] \in {"failed", "mount"}
      BY <2>3 DEF Read, Fails
    <3>2. QED
      BY <2>3, <2>p, <3>1 DEF Read
  <2>4. CASE MountModules(p)
    <3>1. pc'[p] \in {"lookup", "install", "touchRead"} /\ name'[p] \in {name[p], Npm}
      BY <2>4, <2>m DEF MountModules
    <3>2. QED
      BY <2>4, <2>p, <3>1 DEF MountModules
  <2>5. CASE MountNpm(p) \/ MountFails(p) \/ InstallFails(p)
    <3>1. pc[p] \in Restoring /\ pc'[p] \in {"failed", "install"}
          /\ UNCHANGED <<key, name, stage, listed, todo>>
      BY <2>5 DEF MountNpm, MountFails, InstallFails, Fails, workVars
    <3>2. QED
      BY <2>p, <3>1
  <2>6. CASE Install(p)
    BY <2>6, <2>p DEF Install
  <2>7. CASE SaveOpen(p) \/ SaveClose(p) \/ TouchRead(p)
    <3>1. /\ pc[p] \in {"open", "close", "touchRead"}
          /\ pc'[p] \in {"close", "touchRead", "touchWrite"}
          /\ pc'[p] = "close" => pc[p] = "open"
          /\ UNCHANGED <<key, name, stage, listed, todo>>
      BY <2>7 DEF SaveOpen, SaveClose, TouchRead, workVars
    <3>2. QED
      BY <2>p, <3>1
  <2>8. CASE TouchWrite(p)
    <3>1. /\ pc[p] = "touchWrite" /\ pc'[p] \in {"done", "open", "list"}
          /\ stage[p] = "restore" => pc'[p] = "done"
          /\ name'[p] \in {name[p], Npm}
          /\ UNCHANGED <<key, stage, listed, todo>>
      BY <2>8 DEF TouchWrite
    <3>2. QED
      BY <2>p, <3>1
  <2>9. CASE EvictList(p)
    BY <2>9, <2>p DEF EvictList, Snapshots
  <2>10. CASE ClearList(p)
    BY <2>10, <2>p DEF ClearList
  <2>11. CASE EvictIndex(p)
    BY <2>11, <2>p DEF EvictIndex
  <2>12. CASE DropNpm(p)
    <3>1. pc[p] = "drop" /\ pc'[p] \in {"failed", "evict"}
          /\ UNCHANGED <<key, name, stage, listed, todo>>
      BY <2>12, <2>r DEF DropNpm
    <3>2. QED
      BY <2>p, <3>1
  <2>13. CASE Evict(p)
    <3>1. pc'[p] \in {"failed", "evict"}
      BY <2>13, <2>r DEF Evict
    <3>2. todo'[p] \subseteq todo[p]
      BY <2>13 DEF Evict
    <3>3. QED
      BY <2>13, <2>p, <3>1, <3>2 DEF Evict
  <2>14. CASE ClearBlob(p)
    <3>1. pc'[p] \in {"failed", "clear"}
      BY <2>14, <2>r DEF ClearBlob
    <3>2. QED
      BY <2>14, <2>p, <3>1 DEF ClearBlob
  <2>15. CASE EvictWrite(p) \/ ClearIndex(p) \/ Cut(p)
    <3>1. pc'[p] \in {"done", "new"} /\ Forget(p)
      BY <2>15 DEF EvictWrite, ClearIndex, Cut
    <3>2. QED
      BY <2>f, <3>1
  <2>16. QED
    BY <1>2, <2>1, <2>2, <2>3, <2>4, <2>5, <2>6, <2>7, <2>8, <2>9, <2>10, <2>11, <2>12, <2>13,
       <2>14, <2>15 DEF Acts, PageStep
<1>3. ASSUME NEW p \in Pages, Acts(p), NEW q \in Pages, q # p
      PROVE  PageTypesOf(q)'
  <2>1. SameOf(q)
    BY <1>3, OthersRest DEF Types
  <2>2. QED
    BY <1>d, <2>1 DEF SameOf, PageTypesOf, Types
<1>4. QED
  BY <1>1, <1>2, <1>3, <1>d DEF Next, Acts

LEMMA CacheTypes == Spec => []Types
<1>1. Types /\ [Next]_vars => Types'
  BY FieldTypesStep, PageTypesStep DEF Types
<1>2. QED
  BY <1>1, TypesInit, PTL DEF Spec

(* Storage and pages have their types, for any number of pages and any       *)
(* faults.                                                                  *)
THEOREM CacheTypeCorrect == Spec => []TypeOK
<1>1. Types => TypeOK
  <2> SUFFICES ASSUME FieldTypes, PageTypes PROVE TypeOK
    BY DEF Types
  <2>1. /\ blob \in [Names -> {"absent", "empty", "full"}] /\ index \in [Names -> Nat]
        /\ clock \in Nat
    BY DEF FieldTypes, BlobStates
  <2>2. ASSUME NEW p \in Pages
        PROVE  /\ key[p] \in Keys \cup {None} /\ name[p] \in Names \cup {None}
               /\ nm[p] \subseteq Keys /\ listed[p] \subseteq Names \X {"empty", "full"}
               /\ todo[p] \subseteq Keys \X {"empty", "full"} /\ idx[p] \in [Names -> Nat]
    BY <2>2 DEF FieldTypes, Entries
  <2>3. QED
    BY <2>1, <2>2 DEF TypeOK, PageTypes
<1>2. QED
  BY <1>1, CacheTypes, PTL

-----------------------------------------------------------------------------
(* The modules an install leaves.                                           *)

(* Until something is mounted or installed a new container is empty; from    *)
(* then on it has what the lockfile asks for.                               *)
ModulesOf(p) ==
  /\ pc[p] \in {"lookup", "read", "mount"} => nm[p] = {}
  /\ pc[p] \in Saving \cup {"touchRead", "touchWrite", "done"} => nm[p] = {key[p]}
Modules == \A p \in Pages : ModulesOf(p)

LEMMA ModulesStep ==
  ASSUME "reuse" \notin Faults
  PROVE  Types /\ Modules /\ [Next]_vars => Modules'
<1> SUFFICES ASSUME Types, Modules, [Next]_vars PROVE Modules'
  OBVIOUS
<1>1. CASE UNCHANGED vars
  BY <1>1 DEF Modules, ModulesOf, vars, workVars
<1>2. ASSUME NEW p \in Pages, Acts(p)
      PROVE  ModulesOf(p)'
  <2> USE DEF Types, FieldTypes, Goto, Saving
  <2>p. ModulesOf(p)
    BY DEF Modules
  <2>m. Missed(p) => pc'[p] \in {"lookup", "install"}
    BY DEF Missed
  <2>r. ASSUME NEW n, NEW next, Remove(p, n, next)
        PROVE  pc'[p] \in {"failed", next}
    BY <2>r DEF Remove, Fails
  <2>1. CASE \E k \in Keys : Begin(p, k)
    BY <2>1 DEF Begin, ModulesOf
  <2>2. CASE Lookup(p)
    <3>1. pc[p] = "lookup" /\ pc'[p] \in {"lookup", "install", "read"} /\ nm' = nm
      BY <2>2, <2>m DEF Lookup
    <3>2. QED
      BY <2>p, <3>1 DEF ModulesOf
  <2>3. CASE MountModules(p)
    <3>1. nm[p] = {} /\ key' = key
      BY <2>3, <2>p DEF MountModules, ModulesOf
    <3>2. nm'[p] = IF file[p] = "full" THEN {key[p]} ELSE {}
      BY <2>3, <3>1 DEF MountModules
    <3>3. CASE file[p] = "full"
      <4>1. pc'[p] = "touchRead"
        <5>1. nm[p] \cup (IF file[p] = "full" THEN {key[p]} ELSE {}) # {}
          BY <3>3
        <5>2. QED
          BY <2>3, <5>1 DEF MountModules, Hit
      <4>2. QED
        BY <3>1, <3>2, <3>3, <4>1 DEF ModulesOf
    <3>4. CASE file[p] # "full"
      <4>1. Missed(p)
        BY <2>3, <3>1, <3>4 DEF MountModules, Hit
      <4>2. QED
        BY <2>m, <3>2, <3>4, <4>1 DEF ModulesOf
    <3>5. QED
      BY <3>3, <3>4
  <2>4. CASE Read(p) \/ MountNpm(p) \/ MountFails(p) \/ InstallFails(p)
    <3>1. /\ pc'[p] \in {"failed", "install"} \/ (pc[p] = "read" /\ pc'[p] = "mount")
          /\ UNCHANGED <<key, nm>>
      BY <2>4 DEF Read, MountNpm, MountFails, InstallFails, Fails, workVars
    <3>2. QED
      BY <2>p, <3>1 DEF ModulesOf
  <2>5. CASE Install(p)
    BY <2>5 DEF Install, ModulesOf
  <2>6. CASE SaveOpen(p) \/ SaveClose(p) \/ TouchRead(p) \/ TouchWrite(p)
             \/ EvictList(p) \/ EvictIndex(p)
    <3>1. /\ pc[p] \in Saving \cup {"touchRead", "touchWrite"}
          /\ pc'[p] \in Saving \cup {"touchRead", "touchWrite", "done"}
          /\ UNCHANGED <<key, nm>>
      BY <2>6 DEF SaveOpen, SaveClose, TouchRead, TouchWrite, EvictList, EvictIndex, workVars
    <3>2. QED
      BY <2>p, <3>1 DEF ModulesOf
  <2>7. CASE DropNpm(p) \/ Evict(p) \/ ClearBlob(p)
    <3>1. /\ pc[p] \in Saving \/ pc'[p] \in {"failed", "clear"}
          /\ pc'[p] \in {"failed", "evict", "clear"}
          /\ UNCHANGED <<key, nm>>
      BY <2>7, <2>r DEF DropNpm, Evict, ClearBlob
    <3>2. QED
      BY <2>p, <3>1 DEF ModulesOf
  <2>8. CASE EvictWrite(p)
    BY <2>8, <2>p DEF EvictWrite, ModulesOf
  <2>9. CASE ClearList(p) \/ ClearIndex(p) \/ Cut(p)
    <3>1. pc'[p] \in {"clear", "new"}
      BY <2>9 DEF ClearList, ClearIndex, Cut
    <3>2. QED
      BY <3>1 DEF ModulesOf
  <2>10. QED
    BY <1>2, <2>1, <2>2, <2>3, <2>4, <2>5, <2>6, <2>7, <2>8, <2>9 DEF Acts, PageStep
<1>3. ASSUME NEW p \in Pages, Acts(p), NEW q \in Pages, q # p
      PROVE  ModulesOf(q)'
  <2>1. SameOf(q)
    BY <1>3, OthersRest DEF Types
  <2>2. QED
    BY <2>1 DEF SameOf, Modules, ModulesOf
<1>4. QED
  BY <1>1, <1>2, <1>3 DEF Next, Acts, Modules

(* In a new container an install that succeeds, from the cache or not,       *)
(* leaves exactly the modules its lockfile asks for, however many pages      *)
(* restore, save, evict and clear at once and wherever tabs are closed.      *)
THEOREM InstallsAreRight ==
  ASSUME "reuse" \notin Faults
  PROVE  Spec => []ModulesAreRight
<1>1. Init => Modules
  BY DEF Init, Modules, ModulesOf, Saving
<1>2. Types /\ Modules /\ [Next]_vars => Modules'
  BY ModulesStep
<1>3. Modules => ModulesAreRight
  BY DEF Modules, ModulesOf, ModulesAreRight
<1>4. QED
  BY <1>1, <1>2, <1>3, CacheTypes, PTL DEF Spec

-----------------------------------------------------------------------------
(* What eviction takes.                                                     *)

(* When something is removed the snapshots are the others. *)
LEMMA SnapshotsAre ==
  \A e : e \in Snapshots(Stored) <=> \E n \in Keys : blob[n] # "absent" /\ e = <<n, blob[n]>>
  BY DepCacheAssumption DEF Snapshots, Stored, Names

LEMMA SnapshotsLeft ==
  ASSUME FieldTypes, NEW n \in Names, blob' = [blob EXCEPT ![n] = "absent"]
  PROVE  \A e : e \in Snapshots(Stored)' <=> e \in Snapshots(Stored) /\ e[1] # n
<1>1. \A m \in Names : blob'[m] = IF m = n THEN "absent" ELSE blob[m]
  BY DEF FieldTypes
<1>2. \A m \in Keys : m \in Names
  BY DEF Names
<1>3. \A e : e \in Snapshots(Stored)' <=> \E m \in Keys : blob'[m] # "absent" /\ e = <<m, blob'[m]>>
  BY SnapshotsAre DEF Snapshots, Stored, Names, DepCacheAssumption
<1>4. QED
  BY <1>1, <1>2, <1>3, SnapshotsAre

(* A removal that does not fail. *)
LEMMA Removed ==
  ASSUME FieldTypes, NEW p \in Pages, NEW n \in Names, NEW next, Remove(p, n, next),
         "failed" \notin upset'
  PROVE  /\ blob[n] # "absent" /\ blob' = [blob EXCEPT ![n] = "absent"]
         /\ pc'[p] = next /\ upset' = upset
         /\ idx'[p] = [idx[p] EXCEPT ![n] = 0]
<1>1. /\ blob[n] # "absent" /\ blob' = [blob EXCEPT ![n] = "absent"]
      /\ idx' = [idx EXCEPT ![p][n] = 0] /\ Goto(p, next) /\ upset' = upset
  BY DEF Remove, Fails
<1>2. QED
  BY <1>1 DEF FieldTypes, Goto

(* As long as pages take turns one is busy, and what an install has saved is *)
(* there until it ends.                                                     *)
Evicting == {"index", "drop", "evict"}
HasSaved(p) ==
  \/ pc[p] \in {"list"} \cup Evicting
  \/ /\ pc[p] \in {"open", "close", "touchRead", "touchWrite"} /\ stage[p] = "save"
     /\ name[p] = Npm \/ pc[p] \in {"touchRead", "touchWrite"}
Turns ==
  "overlap" \notin upset =>
    /\ \A p, q \in Busy : p = q
    /\ \A p \in Pages : HasSaved(p) => blob[key[p]] = "full"

LEMMA TakingTurns ==
  ASSUME Types, Turns, NEW p \in Pages, Acts(p), "overlap" \notin upset'
  PROVE  /\ upset \subseteq upset'
         /\ \A q \in Pages \ {p} : pc[q] \in Ended /\ pc'[q] \in Ended
<1>1. upset \subseteq upset'
  BY DEF Acts, PageStep, Begin, ClearList, Cut, Lookup, Read, MountModules, MountNpm, MountFails,
     Install, InstallFails, SaveOpen, SaveClose, TouchRead, TouchWrite, EvictList, EvictIndex,
     DropNpm, Evict, EvictWrite, ClearBlob, ClearIndex, Remove, Fails
<1>2. Busy = {} \/ p \in Busy
  <2>1. CASE (\E k \in Keys : Begin(p, k)) \/ ClearList(p)
    BY <2>1 DEF Begin, ClearList
  <2>2. CASE PageStep(p)
    BY <2>2 DEF Busy, Ended, PageStep, Lookup, Read, MountModules, MountNpm, MountFails, Install,
       InstallFails, SaveOpen, SaveClose, TouchRead, TouchWrite, EvictList, EvictIndex, DropNpm,
       Evict, EvictWrite, ClearBlob, ClearIndex
  <2>3. CASE Cut(p)
    BY <2>3 DEF Cut
  <2>4. QED
    BY <2>1, <2>2, <2>3 DEF Acts
<1>3. \A q \in Pages \ {p} : pc[q] \in Ended
  BY <1>1, <1>2 DEF Turns, Busy
<1>4. \A q \in Pages \ {p} : pc'[q] = pc[q]
  BY OthersRest DEF SameOf, Types
<1>5. QED
  BY <1>1, <1>3, <1>4

LEMMA TurnsStep == Types /\ Types' /\ Turns /\ [Next]_vars => Turns'
<1> SUFFICES ASSUME Types, Types', Turns, [Next]_vars, "overlap" \notin upset' PROVE Turns'
  BY DEF Turns
<1>1. CASE UNCHANGED vars
  <2>1. UNCHANGED <<blob, pc, key, name, stage, upset>>
    BY <1>1 DEF vars, workVars, storeVars
  <2>2. QED
    BY <2>1 DEF Turns, HasSaved, Busy
<1>2. ASSUME NEW p \in Pages, Acts(p)
      PROVE  Turns'
  <2> USE DEF Types, FieldTypes, Goto, Ended, Evicting
  <2>a. "overlap" \notin upset /\ \A q \in Pages \ {p} : pc'[q] \in Ended
    BY <1>2, TakingTurns
  <2>p. HasSaved(p) => blob[key[p]] = "full"
    BY <2>a DEF Turns
  <2>k. pc[p] \notin Ended \cup {"clear"} =>
          key[p] \in Keys /\ key[p] \in Names /\ name[p] \in {key[p], Npm}
    BY DEF PageTypes, Names
  <2>n. Npm \notin Keys
    BY DepCacheAssumption
  <2>r. ASSUME NEW n, NEW next, Remove(p, n, next)
        PROVE  /\ pc'[p] \in {"failed", next}
               /\ \A m \in Names : m # n => blob'[m] = blob[m]
    BY <2>r DEF Remove, Fails
  <2>s. HasSaved(p)' => blob'[key'[p]] = "full"
    <3>1. CASE (\E k \in Keys : Begin(p, k)) \/ Lookup(p) \/ Read(p) \/ MountNpm(p) \/ MountFails(p)
               \/ InstallFails(p) \/ EvictWrite(p) \/ ClearList(p) \/ ClearIndex(p) \/ Cut(p)
      <4>1. pc'[p] \in {"lookup", "read", "mount", "install", "failed", "done", "clear", "new"}
        BY <3>1 DEF Begin, Lookup, Missed, Read, MountNpm, MountFails, InstallFails, EvictWrite,
           ClearList, ClearIndex, Cut, Fails
      <4>2. QED
        BY <4>1 DEF HasSaved
    <3>2. CASE MountModules(p)
      <4>1. pc'[p] \in {"lookup", "install", "touchRead"} /\ stage' = stage
        BY <3>2 DEF MountModules, Missed
      <4>2. stage[p] = "restore"
        BY <3>2 DEF MountModules, PageTypes, Restoring
      <4>3. QED
        BY <4>1, <4>2 DEF HasSaved
    <3>3. CASE Install(p)
      <4>1. pc'[p] = "open" /\ name'[p] = key[p] /\ key[p] \in Keys
        BY <3>3, <2>k DEF Install
      <4>2. QED
        BY <4>1, <2>n DEF HasSaved
    <3>4. CASE SaveOpen(p)
      <4>1. /\ pc[p] = "open" /\ pc'[p] = "close" /\ UNCHANGED <<key, name, stage>>
            /\ \A m \in Names : m # name[p] => blob'[m] = blob[m]
        BY <3>4 DEF SaveOpen, workVars
      <4>2. QED
        BY <4>1, <2>k, <2>n, <2>p DEF HasSaved
    <3>5. CASE SaveClose(p)
      <4>1. /\ pc[p] = "close" /\ pc'[p] = "touchRead" /\ UNCHANGED <<key, name, stage>>
            /\ blob' = [blob EXCEPT ![name[p]] = "full"]
        BY <3>5 DEF SaveClose, workVars
      <4>2. name[p] \in {key[p], Npm} /\ key[p] \in Names /\ stage[p] = "save"
        BY <4>1, <2>k DEF Names, PageTypes, Saving
      <4>3. CASE name[p] = Npm
        BY <4>1, <4>2, <4>3, <2>k, <2>n, <2>p DEF HasSaved
      <4>4. CASE name[p] = key[p]
        BY <4>1, <4>2, <4>4
      <4>5. QED
        BY <4>2, <4>3, <4>4
    <3>6. CASE TouchRead(p)
      <4>1. pc[p] = "touchRead" /\ pc'[p] = "touchWrite" /\ UNCHANGED <<key, name, stage, blob>>
        BY <3>6 DEF TouchRead, storeVars
      <4>2. QED
        BY <4>1, <2>p DEF HasSaved
    <3>7. CASE TouchWrite(p)
      <4>1. /\ pc[p] = "touchWrite" /\ pc'[p] \in {"done", "open", "list"}
            /\ stage[p] = "restore" => pc'[p] = "done"
            /\ UNCHANGED <<key, stage, blob>>
        BY <3>7 DEF TouchWrite
      <4>2. QED
        BY <4>1, <2>p DEF HasSaved
    <3>8. CASE EvictList(p) \/ EvictIndex(p)
      <4>1. pc[p] \in {"list", "index"} /\ UNCHANGED <<key, blob>>
        BY <3>8 DEF EvictList, EvictIndex, storeVars
      <4>2. QED
        BY <4>1, <2>p DEF HasSaved
    <3>9. CASE DropNpm(p)
      <4>1. pc[p] = "drop" /\ key' = key /\ \A m \in Names : m # Npm => blob'[m] = blob[m]
        BY <3>9, <2>r DEF DropNpm
      <4>2. QED
        BY <4>1, <2>k, <2>n, <2>p DEF HasSaved
    <3>10. CASE Evict(p)
      <4>1. PICK e \in CandidatesOf(p) : Remove(p, e[1], "evict")
        BY <3>10 DEF Evict, LeastRecent
      <4>2. pc[p] = "evict" /\ key' = key /\ blob'[key[p]] = blob[key[p]]
        BY <3>10, <4>1, <2>k, <2>r DEF Evict, CandidatesOf
      <4>3. QED
        BY <4>2, <2>p DEF HasSaved
    <3>11. CASE ClearBlob(p)
      <4>1. pc'[p] \in {"failed", "clear"}
        BY <3>11, <2>r DEF ClearBlob
      <4>2. QED
        BY <4>1 DEF HasSaved
    <3>12. QED
      BY <1>2, <3>1, <3>2, <3>3, <3>4, <3>5, <3>6, <3>7, <3>8, <3>9, <3>10, <3>11
         DEF Acts, PageStep
  <2>q. \A q \in Pages \ {p} : ~HasSaved(q)'
    BY <2>a DEF HasSaved
  <2>b. \A q, r \in Busy' : q = r
    BY <2>a DEF Busy
  <2> QED
    BY <2>s, <2>q, <2>b DEF Turns
<1>3. QED
  BY <1>1, <1>2 DEF Next, Acts

LEMMA TurnsInvariant == Spec => []Turns
<1>1. Init => Turns
  BY DEF Init, Turns, Busy, Ended, HasSaved, Evicting
<1>2. QED
  BY <1>1, TurnsStep, CacheTypes, PTL DEF Spec

(* As long as pages take turns and none fails, is cut or clears the cache,   *)
(* the index has when each snapshot was used, except of one that is being    *)
(* saved, and an eviction works on all the snapshots there are.             *)
Touching(p, n) == pc[p] \in {"close", "touchRead", "touchWrite"} /\ name[p] = n
Indexed ==
  \A n \in Keys :
    blob[n] # "absent" /\ (\A p \in Pages : ~Touching(p, n)) => index[n] = used[n]
TidyOf(p) ==
  /\ pc[p] = "touchWrite" => idx[p] = index
  /\ pc[p] = "clear" => Snapshots(Stored) \subseteq listed[p]
  /\ pc[p] \in Evicting => todo[p] = Snapshots(Stored)
  /\ pc[p] \in {"drop", "evict"} => \A n \in Keys : blob[n] # "absent" => idx[p][n] = used[n]
Tidy == upset = {} => Indexed /\ \A p \in Pages : TidyOf(p)

LEMMA TidyStep == Types /\ Turns /\ Tidy /\ [Next]_vars => Tidy'
<1> SUFFICES ASSUME Types, Turns, Tidy, [Next]_vars, upset' = {} PROVE Tidy'
  BY DEF Tidy
<1>1. CASE UNCHANGED vars
  <2>1. UNCHANGED <<blob, index, pc, name, idx, listed, todo, used, upset>>
    BY <1>1 DEF vars, workVars, storeVars, histVars
  <2>2. Snapshots(Stored)' = Snapshots(Stored)
    BY <2>1 DEF Snapshots, Stored
  <2>3. QED
    BY <2>1, <2>2 DEF Tidy, TidyOf, Indexed, Touching
<1>2. ASSUME NEW p \in Pages, Acts(p)
      PROVE  Tidy'
  <2> USE DEF Types, FieldTypes, Goto, Ended, Evicting
  <2>a. upset = {} /\ \A q \in Pages \ {p} : pc[q] \in Ended /\ pc'[q] \in Ended
    BY <1>2, TakingTurns
  <2>i. Indexed /\ TidyOf(p)
    BY <2>a DEF Tidy
  <2>t. ASSUME NEW n \in Keys, blob[n] # "absent", ~Touching(p, n)
        PROVE  index[n] = used[n]
    <3>1. \A q \in Pages : ~Touching(q, n)
      BY <2>a, <2>t DEF Touching
    <3>2. QED
      BY <2>i, <2>t, <3>1 DEF Indexed
  <2>k. pc[p] \notin Ended \cup {"clear"} =>
          key[p] \in Keys /\ key[p] \in Names /\ name[p] \in {key[p], Npm}
    BY DEF PageTypes, Names
  <2>n. Npm \notin Keys /\ Npm \in Names /\ Keys \subseteq Names
    BY DepCacheAssumption DEF Names
  <2>b. blob' = blob => Snapshots(Stored)' = Snapshots(Stored)
    BY DEF Snapshots, Stored
  <2>u. UNCHANGED <<blob, index, used>> /\ (\A n \in Keys : Touching(p, n) => Touching(p, n)')
          => Indexed'
    BY <2>t DEF Indexed
  <2>o. \A q \in Pages \ {p} : TidyOf(q)'
    BY <2>a DEF TidyOf
  <2>1. CASE (\E k \in Keys : Begin(p, k)) \/ Lookup(p) \/ Read(p) \/ MountModules(p)
             \/ MountNpm(p) \/ Install(p) \/ ClearList(p)
    <3>1. /\ pc[p] \in Ended \cup {"lookup", "read", "mount", "install"}
          /\ pc'[p] \in {"lookup", "read", "mount", "install", "failed", "touchRead", "open", "clear"}
          /\ UNCHANGED <<blob, index, used>>
      BY <2>1 DEF Begin, Lookup, Missed, Read, MountModules, MountNpm, Install, ClearList, Fails,
         storeVars, histVars
    <3>2. Indexed'
      BY <3>1, <2>u DEF Touching
    <3>3. pc'[p] = "clear" => listed'[p] = Stored
      BY <2>1 DEF Begin, Lookup, Missed, Read, MountModules, MountNpm, Install, ClearList, Fails
    <3>4. TidyOf(p)'
      BY <3>1, <3>3, <2>b DEF TidyOf, Snapshots
    <3>5. QED
      BY <2>o, <3>2, <3>4 DEF Tidy
  <2>2. CASE InstallFails(p) \/ MountFails(p) \/ Cut(p)
    BY <2>2 DEF InstallFails, MountFails, Cut, Fails
  <2>3. CASE SaveOpen(p) \/ SaveClose(p)
    <3>1. /\ pc[p] \in {"open", "close"} /\ pc'[p] \in {"close", "touchRead"}
          /\ UNCHANGED <<index, name, used>>
          /\ \E s \in BlobStates : blob' = [blob EXCEPT ![name[p]] = s]
      <4>1. name[p] \in Names
        BY <2>3, <2>k, <2>n DEF SaveOpen, SaveClose
      <4>2. \E s \in BlobStates : blob' = [blob EXCEPT ![name[p]] = s]
        BY <2>3, <4>1 DEF SaveOpen, SaveClose, BlobStates
      <4>3. QED
        BY <2>3, <4>2 DEF SaveOpen, SaveClose, workVars, histVars
    <3>2. ASSUME NEW n \in Keys, blob'[n] # "absent", ~Touching(p, n)'
          PROVE  index'[n] = used'[n]
      <4>1. n # name[p] /\ ~Touching(p, n)
        BY <3>1, <3>2 DEF Touching
      <4>2. blob'[n] = blob[n]
        BY <3>1, <4>1, <2>n
      <4>3. QED
        BY <3>1, <3>2, <4>1, <4>2, <2>t
    <3>3. Indexed'
      BY <3>2 DEF Indexed
    <3>4. TidyOf(p)'
      BY <3>1 DEF TidyOf
    <3>5. QED
      BY <2>o, <3>3, <3>4 DEF Tidy
  <2>4. CASE TouchRead(p)
    <3>1. /\ pc[p] = "touchRead" /\ pc'[p] = "touchWrite" /\ UNCHANGED <<blob, index, name, used>>
          /\ idx' = [idx EXCEPT ![p] = index]
      BY <2>4 DEF TouchRead, storeVars, histVars
    <3>2. Indexed'
      BY <3>1, <2>u DEF Touching
    <3>3. TidyOf(p)'
      BY <3>1 DEF TidyOf
    <3>4. QED
      BY <2>o, <3>2, <3>3 DEF Tidy
  <2>5. CASE TouchWrite(p)
    <3>1. /\ pc[p] = "touchWrite" /\ pc'[p] \in {"done", "open", "list"} /\ blob' = blob
          /\ index' = [idx[p] EXCEPT ![name[p]] = clock']
          /\ used' = [k \in Keys |-> IF k = name[p] THEN clock' ELSE used[k]]
      BY <2>5 DEF TouchWrite
    <3>2. idx[p] = index
      BY <3>1, <2>i DEF TidyOf
    <3>3. ASSUME NEW n \in Keys, blob[n] # "absent"
          PROVE  index'[n] = used'[n]
      <4>1. n = name[p] => index'[n] = clock' /\ used'[n] = clock'
        BY <3>1, <3>2, <2>n
      <4>2. n # name[p] => index'[n] = index[n] /\ used'[n] = used[n] /\ ~Touching(p, n)
        BY <3>1, <3>2, <2>n DEF Touching
      <4>3. QED
        BY <3>3, <4>1, <4>2, <2>t
    <3>4. Indexed'
      BY <3>1, <3>3 DEF Indexed
    <3>5. TidyOf(p)'
      BY <3>1 DEF TidyOf
    <3>6. QED
      BY <2>o, <3>4, <3>5 DEF Tidy
  <2>6. CASE EvictList(p)
    <3>1. /\ pc[p] = "list" /\ pc'[p] = "index" /\ UNCHANGED <<blob, index, used>>
          /\ todo'[p] = Snapshots(Stored)
      BY <2>6 DEF EvictList, storeVars, histVars
    <3>2. Indexed'
      BY <3>1, <2>u DEF Touching
    <3>3. TidyOf(p)'
      BY <3>1, <2>b DEF TidyOf
    <3>4. QED
      BY <2>o, <3>2, <3>3 DEF Tidy
  <2>7. CASE EvictIndex(p)
    <3>1. /\ pc[p] = "index" /\ pc'[p] \in {"drop", "evict"}
          /\ UNCHANGED <<blob, index, used, todo>>
          /\ idx'[p] = index
      BY <2>7 DEF EvictIndex, storeVars, histVars
    <3>2. Indexed'
      BY <3>1, <2>u DEF Touching
    <3>3. \A n \in Keys : blob[n] # "absent" => idx'[p][n] = used[n]
      BY <3>1, <2>t DEF Touching
    <3>4. TidyOf(p)'
      BY <3>1, <3>3, <2>b, <2>i DEF TidyOf
    <3>5. QED
      BY <2>o, <3>2, <3>4 DEF Tidy
  <2>8. ASSUME NEW n \in Names, NEW next, Remove(p, n, next), UNCHANGED <<index, used>>,
               next \in {"evict", "clear"}, pc[p] \in {"drop", "evict", "clear"}
        PROVE  /\ Indexed' /\ pc'[p] = next
               /\ blob[n] # "absent" /\ \A m \in Keys : blob'[m] # "absent" => m # n /\ blob[m] # "absent"
               /\ \A m \in Keys \ {n} : idx'[p][m] = idx[p][m]
               /\ Snapshots(Stored)' = {e \in Snapshots(Stored) : e[1] # n}
    <3>1. /\ blob[n] # "absent" /\ blob' = [blob EXCEPT ![n] = "absent"] /\ pc'[p] = next
          /\ idx'[p] = [idx[p] EXCEPT ![n] = 0]
      BY <2>8, Removed
    <3>2. \A m \in Keys : blob'[m] # "absent" => m # n /\ blob[m] # "absent"
      BY <3>1, <2>n
    <3>3. \A m \in Keys : ~Touching(p, m)
      BY <2>8 DEF Touching
    <3>4. Indexed'
      BY <2>8, <2>t, <3>2, <3>3 DEF Indexed
    <3>5. \A m \in Keys \ {n} : idx'[p][m] = idx[p][m]
      <4>1. idx[p] \in [Names -> Nat]
        OBVIOUS
      <4>2. QED
        BY <3>1, <4>1, <2>n
    <3>6. Snapshots(Stored)' = {e \in Snapshots(Stored) : e[1] # n}
      BY <3>1, SnapshotsLeft
    <3>7. QED
      BY <3>1, <3>2, <3>4, <3>5, <3>6
  <2>9. CASE DropNpm(p)
    <3>1. pc[p] = "drop" /\ Remove(p, Npm, "evict") /\ UNCHANGED <<index, used, todo>>
      BY <2>9 DEF DropNpm, histVars
    <3>2. /\ Indexed' /\ pc'[p] = "evict"
          /\ \A m \in Keys : blob'[m] # "absent" => m # Npm /\ blob[m] # "absent"
          /\ \A m \in Keys \ {Npm} : idx'[p][m] = idx[p][m]
          /\ Snapshots(Stored)' = {e \in Snapshots(Stored) : e[1] # Npm}
      BY <2>8, <2>n, <3>1
    <3>3. Snapshots(Stored)' = Snapshots(Stored)
      BY <3>2, <2>n DEF Snapshots
    <3>4. TidyOf(p)'
      BY <3>1, <3>2, <3>3, <2>i DEF TidyOf
    <3>5. QED
      BY <2>o, <3>2, <3>4 DEF Tidy
  <2>10. CASE Evict(p)
    <3>1. PICK e \in todo[p] : Remove(p, e[1], "evict") /\ todo' = [todo EXCEPT ![p] = @ \ {e}]
      BY <2>10 DEF Evict, LeastRecent, CandidatesOf
    <3>2. pc[p] = "evict" /\ UNCHANGED <<index, used>>
      BY <2>10 DEF Evict, histVars
    <3>3. todo[p] = Snapshots(Stored) /\ \A n \in Keys : blob[n] # "absent" => idx[p][n] = used[n]
      BY <3>2, <2>i DEF TidyOf
    <3>4. e[1] \in Keys /\ e[1] \in Names /\ e = <<e[1], blob[e[1]]>>
      BY <3>1, <3>3, <2>n, SnapshotsAre
    <3>5. /\ Indexed' /\ pc'[p] = "evict"
          /\ \A m \in Keys : blob'[m] # "absent" => m # e[1] /\ blob[m] # "absent"
          /\ \A m \in Keys \ {e[1]} : idx'[p][m] = idx[p][m]
          /\ Snapshots(Stored)' = {d \in Snapshots(Stored) : d[1] # e[1]}
      BY <2>8, <3>1, <3>2, <3>4
    <3>6. Snapshots(Stored)' = todo[p] \ {e}
      <4>1. \A d \in Snapshots(Stored) : d[1] = e[1] => d = e
        BY <3>4, SnapshotsAre
      <4>2. QED
        BY <3>3, <3>5, <4>1
    <3>7. todo'[p] = todo[p] \ {e}
      BY <3>1
    <3>8. TidyOf(p)'
      BY <3>2, <3>3, <3>5, <3>6, <3>7 DEF TidyOf
    <3>9. QED
      BY <2>o, <3>5, <3>8 DEF Tidy
  <2>11. CASE EvictWrite(p)
    <3>1. /\ pc[p] = "evict" /\ pc'[p] = "done" /\ UNCHANGED <<blob, used>>
          /\ index' = [n \in Names |-> IF n = key[p] \/ \E e \in listed[p] : e[1] = n
                                         THEN idx[p][n] ELSE 0]
      BY <2>11 DEF EvictWrite, histVars
    <3>2. ASSUME NEW n \in Keys, blob[n] # "absent"
          PROVE  index'[n] = used[n]
      <4>1. <<n, blob[n]>> \in listed[p]
        <5>1. <<n, blob[n]>> \in todo[p]
          BY <3>1, <3>2, <2>i, SnapshotsAre DEF TidyOf
        <5>2. QED
          BY <5>1 DEF PageTypes
      <4>2. index'[n] = idx[p][n]
        <5>1. <<n, blob[n]>>[1] = n
          OBVIOUS
        <5>2. QED
          BY <3>1, <4>1, <5>1, <2>n
      <4>3. QED
        BY <3>1, <3>2, <4>2, <2>i DEF TidyOf
    <3>3. Indexed'
      BY <3>1, <3>2 DEF Indexed
    <3>4. TidyOf(p)'
      BY <3>1 DEF TidyOf
    <3>5. QED
      BY <2>o, <3>3, <3>4 DEF Tidy
  <2>12. CASE ClearBlob(p)
    <3>1. PICK e \in listed[p] : Remove(p, e[1], "clear") /\ listed' = [listed EXCEPT ![p] = @ \ {e}]
      BY <2>12 DEF ClearBlob
    <3>2. pc[p] = "clear" /\ UNCHANGED <<index, used>>
      BY <2>12 DEF ClearBlob, histVars
    <3>3. e[1] \in Names
      BY <3>1
    <3>4. /\ Indexed' /\ pc'[p] = "clear"
          /\ Snapshots(Stored)' = {d \in Snapshots(Stored) : d[1] # e[1]}
      BY <2>8, <3>1, <3>2, <3>3
    <3>5. listed'[p] = listed[p] \ {e} /\ Snapshots(Stored) \subseteq listed[p]
      BY <3>1, <3>2, <2>i DEF TidyOf
    <3>6. TidyOf(p)'
      BY <3>4, <3>5 DEF TidyOf
    <3>7. QED
      BY <2>o, <3>4, <3>6 DEF Tidy
  <2>13. CASE ClearIndex(p)
    <3>1. pc[p] = "clear" /\ pc'[p] = "new" /\ blob' = blob /\ Snapshots(Stored) = {}
      BY <2>13, <2>i DEF ClearIndex, TidyOf
    <3>2. \A n \in Keys : blob[n] = "absent"
      BY <3>1, SnapshotsAre
    <3>3. Indexed'
      BY <3>1, <3>2 DEF Indexed
    <3>4. TidyOf(p)'
      BY <3>1 DEF TidyOf
    <3>5. QED
      BY <2>o, <3>3, <3>4 DEF Tidy
  <2>14. QED
    BY <1>2, <2>1, <2>2, <2>3, <2>4, <2>5, <2>6, <2>7, <2>9, <2>10, <2>11, <2>12, <2>13
       DEF Acts, PageStep
<1>3. QED
  BY <1>1, <1>2 DEF Next, Acts

LEMMA TidyInvariant == Spec => []Tidy
<1>1. Init => Tidy
  BY DEF Init, Tidy, TidyOf, Indexed, Evicting, NoIndex, Names
<1>2. QED
  BY <1>1, TidyStep, TurnsInvariant, CacheTypes, PTL DEF Spec

(* What an acting page can do to the blobs and to its own eviction.          *)
LEMMA Removals ==
  ASSUME Types, NEW p \in Pages, Acts(p)
  PROVE  /\ pc[p] = "evict" /\ pc'[p] = "done" => blob' = blob
         /\ \A n \in Keys :
              blob[n] # "absent" /\ blob'[n] = "absent" /\ pc[p] # "clear"
                => /\ pc[p] = "evict"
                   /\ \E e \in LeastRecent(p, CandidatesOf(p)) : e[1] = n /\ Remove(p, n, "evict")
<1> USE DEF Types, FieldTypes, Goto
<1>1. CASE (\E k \in Keys : Begin(p, k)) \/ Lookup(p) \/ Read(p) \/ MountModules(p)
           \/ MountNpm(p) \/ MountFails(p) \/ Install(p) \/ InstallFails(p) \/ TouchRead(p)
           \/ TouchWrite(p) \/ EvictList(p) \/ EvictIndex(p) \/ EvictWrite(p) \/ ClearList(p)
           \/ ClearIndex(p) \/ Cut(p)
  <2>1. blob' = blob
    BY <1>1 DEF Begin, Lookup, Read, MountModules, MountNpm, MountFails, Install, InstallFails,
       TouchRead, TouchWrite, EvictList, EvictIndex, EvictWrite, ClearList, ClearIndex, Cut, storeVars
  <2>2. QED
    BY <2>1
<1>2. CASE SaveOpen(p) \/ SaveClose(p)
  <2>1. pc[p] \in {"open", "close"}
    BY <1>2 DEF SaveOpen, SaveClose
  <2>2. name[p] \in Names /\ Keys \subseteq Names
    BY <2>1 DEF PageTypes, Names, Ended
  <2>3. \E s \in {"empty", "full"} : blob' = [blob EXCEPT ![name[p]] = s] \/ blob' = blob
    BY <1>2, <2>2 DEF SaveOpen, SaveClose, BlobStates
  <2>4. \A n \in Keys : blob'[n] = "absent" => blob[n] = "absent"
    BY <2>2, <2>3
  <2>5. QED
    BY <2>1, <2>4
<1>r. ASSUME NEW n, NEW next \in {"evict", "clear"}, Remove(p, n, next)
      PROVE  pc'[p] # "done" /\ \A m \in Keys : m # n => blob'[m] = blob[m]
  <2>1. /\ blob' = [blob EXCEPT ![n] = "absent"] \/ blob' = blob
        /\ \E s \in {"failed", next} : pc' = [pc EXCEPT ![p] = s]
    BY <1>r DEF Remove, Fails
  <2>2. QED
    BY <2>1 DEF Names
<1>3. CASE DropNpm(p)
  BY <1>3, <1>r, DepCacheAssumption DEF DropNpm
<1>4. CASE Evict(p)
  <2>1. PICK e \in LeastRecent(p, CandidatesOf(p)) : Remove(p, e[1], "evict")
    BY <1>4 DEF Evict
  <2>2. pc[p] = "evict"
    BY <1>4 DEF Evict
  <2>3. QED
    BY <1>r, <2>1, <2>2
<1>5. CASE ClearBlob(p)
  BY <1>5 DEF ClearBlob
<1>6. QED
  BY <1>1, <1>2, <1>3, <1>4, <1>5 DEF Acts, PageStep

(* Eviction by a page that had the storage for itself never takes the        *)
(* snapshot the install has just saved, and takes the oldest of the others   *)
(* first: for any number of pages, snapshots of any sizes and any budget.   *)
THEOREM EvictsFairly == Spec => EvictionIsFair
<1>1. Types /\ Turns /\ Tidy /\ [Next]_vars => [OwnSnapshotStays /\ OldestGoesFirst]_vars
  <2> SUFFICES ASSUME Types, Turns, Tidy, NEW p \in Pages, Acts(p)
               PROVE  OwnSnapshotStays /\ OldestGoesFirst
    BY DEF Next, Acts
  <2> USE DEF Evicting
  <2>1. OwnSnapshotStays
    <3> SUFFICES ASSUME "overlap" \notin upset', NEW q \in Pages, pc[q] = "evict", pc'[q] = "done"
                 PROVE  blob'[key[q]] = "full"
      BY DEF OwnSnapshotStays
    <3>1. "overlap" \notin upset
      BY TakingTurns
    <3>2. q = p
      BY OthersRest DEF SameOf, Types
    <3>3. blob' = blob
      BY <3>2, Removals
    <3>4. QED
      BY <3>1, <3>3 DEF Turns, HasSaved
  <2>2. OldestGoesFirst
    <3> SUFFICES ASSUME upset' = {}, \A q \in Pages : pc[q] # "clear", NEW v \in Keys, NEW k \in Keys,
                        blob[v] # "absent", blob'[v] = "absent", blob'[k] = "full"
                 PROVE  used[v] <= used[k] \/ \E q \in Busy : key[q] = k
      BY DEF OldestGoesFirst
    <3>1. upset = {} /\ TidyOf(p)
      BY TakingTurns DEF Tidy
    <3>2. pc[p] = "evict" /\ Remove(p, v, "evict")
          /\ \E e \in LeastRecent(p, CandidatesOf(p)) : e[1] = v
      BY Removals
    <3>3. todo[p] = Snapshots(Stored) /\ \A n \in Keys : blob[n] # "absent" => idx[p][n] = used[n]
      BY <3>1, <3>2 DEF TidyOf
    <3>4. blob' = [blob EXCEPT ![v] = "absent"] /\ v \in Names /\ k \in Names
      BY <3>2, Removed DEF Names, Types
    <3>5. blob[k] # "absent"
      BY <3>4 DEF Types, FieldTypes
    <3>6. CASE key[p] = k
      BY <3>2, <3>6 DEF Busy, Ended
    <3>7. CASE key[p] # k
      <4>1. <<k, blob[k]>> \in CandidatesOf(p)
        <5>1. <<k, blob[k]>> \in todo[p]
          BY <3>3, <3>5, SnapshotsAre
        <5>2. <<k, blob[k]>>[1] = k
          OBVIOUS
        <5>3. QED
          BY <3>7, <5>1, <5>2 DEF CandidatesOf
      <4>2. idx[p][v] <= idx[p][<<k, blob[k]>>[1]]
        BY <3>2, <4>1 DEF LeastRecent
      <4>3. QED
        BY <3>3, <3>5, <4>2
    <3>8. QED
      BY <3>6, <3>7
  <2>3. QED
    BY <2>1, <2>2
<1>2. QED
  BY <1>1, CacheTypes, TurnsInvariant, TidyInvariant, PTL DEF Spec, EvictionIsFair

-----------------------------------------------------------------------------
(* The budget.                                                              *)

(* Unless an install fails or is cut, whoever saves will list what there is  *)
(* afterwards, and whoever has listed all there is makes it fit; so the last *)
(* to list does, and nothing is saved behind its back.                      *)
WillList(p) ==
  \/ pc[p] \in {"open", "close", "list"}
  \/ pc[p] \in {"touchRead", "touchWrite"} /\ stage[p] = "save"
WillFit(p) == pc[p] \in Evicting /\ Snapshots(Stored) \subseteq todo[p]
Fits ==
  \/ Weight(Snapshots(Stored)) <= MaxBytes
  \/ Cardinality(Snapshots(Stored)) = 1
Fitting ==
  /\ IsFiniteSet(Snapshots(Stored))
  /\ \A p \in Pages : IsFiniteSet(todo[p])
  /\ upset \subseteq {"overlap"} => Fits \/ \E p \in Pages : WillList(p) \/ WillFit(p)

(* Fewer snapshots fit where more did. *)
LEMMA FewerFit ==
  ASSUME FieldTypes, Fits, IsFiniteSet(Snapshots(Stored)), Snapshots(Stored)' \subseteq Snapshots(Stored)
  PROVE  Fits'
<1> DEFINE S == Snapshots(Stored)
           R == Snapshots(Stored)'
<1>1. S \subseteq Entries
  BY SnapshotsAre DEF FieldTypes, BlobStates, Entries, Names
<1>2. CASE Weight(S) <= MaxBytes
  <2>1. Weight(R) <= Weight(S) /\ Weight(R) \in Nat /\ Weight(S) \in Nat
    <3>1. IsFiniteSet(R) /\ R \subseteq Entries
      BY <1>1, FS_Subset
    <3>2. QED
      BY <1>1, <3>1, WeightOfPart, WeightIsNat
  <2>2. Weight(R) <= MaxBytes
    BY <1>2, <2>1, DepCacheAssumption
  <2>3. QED
    BY <2>2 DEF Fits
<1>3. CASE Cardinality(S) = 1
  <2>1. \E x : S = {x}
    BY <1>3, FS_Singleton
  <2>2. R = S \/ R = {}
    BY <2>1
  <2>3. CASE R = {}
    <3>1. Weight(R) = 0
      BY <2>3, FS_EmptySet, WeightFirst
    <3>2. QED
      BY <3>1, DepCacheAssumption DEF Fits
  <2>4. QED
    BY <1>3, <2>2, <2>3 DEF Fits
<1>4. QED
  BY <1>2, <1>3 DEF Fits

LEMMA FittingFinite ==
  ASSUME Types, Fitting, NEW p \in Pages, Acts(p)
  PROVE  IsFiniteSet(Snapshots(Stored)') /\ \A q \in Pages : IsFiniteSet(todo'[q])
<1> USE DEF Types, FieldTypes
<1> DEFINE S == Snapshots(Stored)
<1>s. IsFiniteSet(S) /\ \A q \in Pages : IsFiniteSet(todo[q])
  BY DEF Fitting
<1>1. IsFiniteSet(S')
  <2>1. \A m \in Keys \ {name[p]} : blob'[m] \in {blob[m], "absent"}
    <3>1. CASE SaveOpen(p) \/ SaveClose(p)
      <4>1. \E s : blob' = [blob EXCEPT ![name[p]] = s]
        BY <3>1 DEF SaveOpen, SaveClose
      <4>2. QED
        BY <4>1 DEF Names
    <3>2. CASE DropNpm(p) \/ Evict(p) \/ ClearBlob(p)
      <4>1. PICK n : blob' = [blob EXCEPT ![n] = "absent"] \/ blob' = blob
        BY <3>2 DEF DropNpm, Evict, ClearBlob, Remove
      <4>2. QED
        BY <4>1 DEF Names
    <3>3. CASE blob' = blob
      BY <3>3
    <3>4. QED
      BY <3>1, <3>2, <3>3 DEF Acts, PageStep, Begin, Lookup, Read, MountModules, MountNpm,
         MountFails, Install, InstallFails, TouchRead, TouchWrite, EvictList, EvictIndex,
         EvictWrite, ClearList, ClearIndex, Cut, storeVars
  <2> DEFINE n == name[p]
             x == <<n, blob'[n]>>
  <2>2. S' \subseteq S \cup {x}
    <3>1. \A e : e \in S' <=> \E m \in Keys : blob'[m] # "absent" /\ e = <<m, blob'[m]>>
      BY SnapshotsAre DEF Snapshots, Stored, Names, DepCacheAssumption
    <3>2. QED
      BY <2>1, <3>1, SnapshotsAre
  <2>3. IsFiniteSet(S \cup {x})
    BY <1>s, FS_AddElement
  <2>4. QED
    BY <2>2, <2>3, FS_Subset
<1>2. todo'[p] \in {{}, S} \/ todo'[p] \subseteq todo[p]
  <2>1. CASE (\E k \in Keys : Begin(p, k)) \/ EvictWrite(p) \/ ClearIndex(p) \/ Cut(p)
    BY <2>1 DEF Begin, EvictWrite, ClearIndex, Cut, Forget
  <2>2. CASE EvictList(p) \/ ClearList(p)
    BY <2>2 DEF EvictList, ClearList
  <2>3. CASE Evict(p)
    BY <2>3 DEF Evict
  <2>4. CASE todo' = todo
    BY <2>4
  <2>5. QED
    BY <2>1, <2>2, <2>3, <2>4 DEF Acts, PageStep, Lookup, Read, MountModules, MountNpm,
       MountFails, Install, InstallFails, SaveOpen, SaveClose, TouchRead, TouchWrite, EvictIndex,
       DropNpm, ClearBlob, workVars
<1>3. ASSUME NEW q \in Pages
      PROVE  IsFiniteSet(todo'[q])
  <2>1. CASE q = p
    BY <1>2, <1>s, <2>1, FS_EmptySet, FS_Subset
  <2>2. CASE q # p
    BY <1>s, <2>2, OthersRest DEF SameOf
  <2>3. QED
    BY <2>1, <2>2
<1>4. QED
  BY <1>1, <1>3

LEMMA FittingStep == Types /\ Fitting /\ [Next]_vars => Fitting'
<1> SUFFICES ASSUME Types, Fitting, [Next]_vars PROVE Fitting'
  OBVIOUS
<1> USE DEF Evicting
<1>1. CASE UNCHANGED vars
  <2>1. UNCHANGED <<blob, pc, stage, todo, upset>>
    BY <1>1 DEF vars, workVars, storeVars
  <2>2. Snapshots(Stored)' = Snapshots(Stored)
    BY <2>1 DEF Snapshots, Stored
  <2>3. Fits' <=> Fits
    BY <2>2 DEF Fits
  <2>4. QED
    BY <2>1, <2>2, <2>3 DEF Fitting, WillList, WillFit
<1>2. ASSUME NEW p \in Pages, Acts(p)
      PROVE  Fitting'
  <2> SUFFICES ASSUME upset' \subseteq {"overlap"}
               PROVE  Fits' \/ \E q \in Pages : WillList(q)' \/ WillFit(q)'
    BY <1>2, FittingFinite DEF Fitting
  <2> USE DEF Types, FieldTypes, Goto
  <2> DEFINE S == Snapshots(Stored)
             Or(q) == WillList(q) \/ WillFit(q)
  <2>0. upset \subseteq upset'
    BY <1>2 DEF Acts, PageStep, Begin, ClearList, Cut, Lookup, Read, MountModules, MountNpm,
       MountFails, Install, InstallFails, SaveOpen, SaveClose, TouchRead, TouchWrite, EvictList,
       EvictIndex, DropNpm, Evict, EvictWrite, ClearBlob, ClearIndex, Remove, Fails
  <2>a. IsFiniteSet(S) /\ (Fits \/ \E q \in Pages : Or(q))
    BY <2>0 DEF Fitting
  <2>b. blob' = blob => S' = S
    BY DEF Snapshots, Stored
  <2>c. ASSUME S' \subseteq S, Or(p) => Or(p)' \/ Fits'
        PROVE  Fits' \/ \E q \in Pages : Or(q)'
    <3>1. Fits => Fits'
      BY <2>a, <2>c, FewerFit
    <3>2. \A q \in Pages \ {p} : Or(q) => Or(q)'
      BY <1>2, <2>c, OthersRest DEF WillList, WillFit, SameOf
    <3>3. QED
      BY <2>a, <2>c, <3>1, <3>2
  <2>1. CASE (\E k \in Keys : Begin(p, k)) \/ Lookup(p) \/ Read(p) \/ MountModules(p)
             \/ MountNpm(p) \/ ClearList(p) \/ ClearIndex(p)
    <3>1. pc[p] \in Ended \cup {"lookup", "read", "mount", "clear"} /\ blob' = blob
      BY <2>1 DEF Begin, Lookup, Read, MountModules, MountNpm, ClearList, ClearIndex, storeVars
    <3>2. ~Or(p)
      BY <3>1 DEF WillList, WillFit, Ended
    <3>3. QED
      BY <2>b, <2>c, <3>1, <3>2
  <2>2. CASE MountFails(p) \/ InstallFails(p) \/ Cut(p)
    BY <2>2 DEF MountFails, InstallFails, Cut, Fails
  <2>3. CASE Install(p)
    BY <2>3 DEF Install, WillList
  <2>4. CASE SaveOpen(p) \/ SaveClose(p)
    <3>1. stage[p] = "save" /\ stage' = stage /\ pc'[p] \in {"close", "touchRead"}
      BY <2>4 DEF SaveOpen, SaveClose, PageTypes, Saving, workVars
    <3>2. QED
      BY <3>1 DEF WillList
  <2>5. CASE TouchRead(p)
    <3>1. pc[p] = "touchRead" /\ pc'[p] = "touchWrite" /\ stage' = stage /\ blob' = blob
      BY <2>5 DEF TouchRead, storeVars
    <3>2. Or(p) => Or(p)'
      BY <3>1 DEF WillList, WillFit
    <3>3. QED
      BY <2>b, <2>c, <3>1, <3>2
  <2>6. CASE TouchWrite(p)
    <3>1. /\ pc[p] = "touchWrite" /\ stage' = stage /\ blob' = blob
          /\ stage[p] # "restore" => pc'[p] \in {"open", "list"}
      BY <2>6 DEF TouchWrite
    <3>2. Or(p) => Or(p)'
      BY <3>1 DEF WillList, WillFit
    <3>3. QED
      BY <2>b, <2>c, <3>1, <3>2
  <2>7. CASE EvictList(p)
    <3>1. pc'[p] = "index" /\ todo'[p] = S /\ blob' = blob
      BY <2>7 DEF EvictList, storeVars
    <3>2. QED
      BY <2>b, <3>1 DEF WillFit
  <2>8. CASE EvictIndex(p)
    <3>1. pc[p] = "index" /\ pc'[p] \in {"drop", "evict"} /\ todo' = todo /\ blob' = blob
      BY <2>8 DEF EvictIndex, storeVars
    <3>2. Or(p) => Or(p)'
      BY <3>1, <2>b DEF WillList, WillFit
    <3>3. QED
      BY <2>b, <2>c, <3>1, <3>2
  <2>9. ASSUME NEW n \in Names, NEW next, Remove(p, n, next)
        PROVE  pc'[p] = next /\ S' = {e \in S : e[1] # n}
    <3>1. pc'[p] = next /\ blob' = [blob EXCEPT ![n] = "absent"]
      BY <2>9, Removed
    <3>2. QED
      BY <3>1, SnapshotsLeft
  <2>10. CASE DropNpm(p)
    <3>1. pc[p] = "drop" /\ pc'[p] = "evict" /\ todo' = todo /\ S' \subseteq S
      BY <2>9, <2>10 DEF DropNpm, Names
    <3>2. Or(p) => Or(p)'
      BY <3>1 DEF WillList, WillFit
    <3>3. QED
      BY <2>c, <3>1, <3>2
  <2>11. CASE Evict(p)
    <3>1. PICK e \in todo[p] : Remove(p, e[1], "evict") /\ todo' = [todo EXCEPT ![p] = @ \ {e}]
      BY <2>11 DEF Evict, LeastRecent, CandidatesOf
    <3>2. pc[p] = "evict" /\ e[1] \in Names
      BY <2>11, <3>1 DEF Evict, Entries, Names
    <3>3. pc'[p] = "evict" /\ S' = {d \in S : d[1] # e[1]} /\ todo'[p] = todo[p] \ {e}
      BY <2>9, <3>1, <3>2
    <3>4. Or(p) => Or(p)'
      BY <3>2, <3>3 DEF WillList, WillFit
    <3>5. QED
      BY <2>c, <3>3, <3>4
  <2>12. CASE ClearBlob(p)
    <3>1. PICK e \in listed[p] : Remove(p, e[1], "clear")
      BY <2>12 DEF ClearBlob
    <3>2. e[1] \in Names /\ pc[p] = "clear"
      BY <2>12, <3>1 DEF ClearBlob
    <3>3. S' \subseteq S /\ ~Or(p)
      BY <2>9, <3>1, <3>2 DEF WillList, WillFit
    <3>4. QED
      BY <2>c, <3>3
  <2>13. CASE EvictWrite(p)
    <3>1. /\ pc[p] = "evict" /\ blob' = blob
          /\ OverBudget(p) => CandidatesOf(p) = {}
      BY <2>13 DEF EvictWrite
    <3>2. ASSUME WillFit(p)
          PROVE  Fits
      <4>1. S \subseteq todo[p] /\ todo[p] \subseteq Entries /\ IsFiniteSet(todo[p])
        BY <3>2 DEF WillFit, Fitting
      <4>2. CASE ~OverBudget(p)
        <5>1. Weight(S) <= Weight(todo[p])
          BY <4>1, WeightOfPart
        <5>2. Weight(S) \in Nat /\ Weight(todo[p]) \in Nat
          <6>1. IsFiniteSet(S) /\ S \subseteq Entries
            BY <2>a, <4>1
          <6>2. QED
            BY <4>1, <6>1, WeightIsNat
        <5>3. ~(Weight(todo[p]) > MaxBytes)
          BY <4>2 DEF OverBudget
        <5>4. Weight(S) <= MaxBytes
          BY <5>1, <5>2, <5>3, DepCacheAssumption
        <5>5. QED
          BY <5>4 DEF Fits
      <4>3. CASE CandidatesOf(p) = {}
        <5>1. \A e \in S : e = <<key[p], blob[key[p]]>>
          <6>1. \A e \in S : e[1] = key[p]
            BY <4>1, <4>3 DEF CandidatesOf
          <6>2. QED
            BY <6>1, SnapshotsAre
        <5>2. CASE S = {}
          <6>1. Weight(S) = 0
            BY <5>2, FS_EmptySet, WeightFirst
          <6>2. QED
            BY <6>1, DepCacheAssumption DEF Fits
        <5>3. CASE S # {}
          <6>1. S = {<<key[p], blob[key[p]]>>}
            BY <5>1, <5>3
          <6>2. Cardinality(S) = 1
            BY <6>1, FS_Singleton
          <6>3. QED
            BY <6>2 DEF Fits
        <5>4. QED
          BY <5>2, <5>3
      <4>4. QED
        BY <3>1, <4>2, <4>3
    <3>3. S' = S
      BY <2>b, <3>1
    <3>4. Or(p) => Fits'
      <4>1. ~WillList(p)
        BY <3>1 DEF WillList
      <4>2. Fits => Fits'
        BY <3>3 DEF Fits
      <4>3. QED
        BY <3>2, <4>1, <4>2
    <3>5. QED
      BY <2>c, <3>3, <3>4
  <2>14. QED
    BY <1>2, <2>1, <2>2, <2>3, <2>4, <2>5, <2>6, <2>7, <2>8, <2>10, <2>11, <2>12, <2>13
       DEF Acts, PageStep
<1>3. QED
  BY <1>1, <1>2 DEF Next, Acts

(* When nobody is installing the snapshots fit the budget or there is only   *)
(* one, whatever installs overlapped, for any number of them, of any sizes,  *)
(* unless one failed or was cut.                                            *)
THEOREM BudgetHolds == Spec => []BudgetKept
<1>1. Init => Fitting
  <2> SUFFICES ASSUME Init PROVE Fitting
    OBVIOUS
  <2>1. Snapshots(Stored) = {}
    BY DEF Init, Snapshots, Stored
  <2>2. Weight(Snapshots(Stored)) <= MaxBytes
    <3>1. Weight({}) = 0
      BY FS_EmptySet, WeightFirst
    <3>2. QED
      BY <2>1, <3>1, DepCacheAssumption
  <2>3. \A p \in Pages : todo[p] = {}
    BY DEF Init
  <2>4. QED
    BY <2>1, <2>2, <2>3, FS_EmptySet DEF Fitting, Fits
<1>2. Types /\ Fitting /\ [Next]_vars => Fitting'
  BY FittingStep
<1>3. Fitting => BudgetKept
  <2> SUFFICES ASSUME Fitting, Busy = {}, upset \subseteq {"overlap"} PROVE Fits
    BY DEF BudgetKept, Fits
  <2>1. \A p \in Pages : ~WillList(p) /\ ~WillFit(p)
    BY DEF Busy, Ended, WillList, WillFit, Evicting
  <2>2. QED
    BY <2>1 DEF Fitting
<1>4. QED
  BY <1>1, <1>2, <1>3, CacheTypes, PTL DEF Spec
=============================================================================
