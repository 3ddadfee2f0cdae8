----------------------- MODULE VerifierSession_proofs -----------------------
(* What a verdict is worth: for any number of sessions of either program, any   *)
(* credential and any interleaving with the registry.  Nothing here needs        *)
(* fairness: the theorems are about SafeSpec.                                  *)
EXTENDS VerifierSession, TLAPS, SequenceTheorems, FiniteSetTheorems

(* What is asked before the verdict.                                            *)
Reads ==
  {"anchored", "anchor", "exists", "subjectRevoked", "allowed", "credentialRevoked",
   "useRecord", "useSlot", "available", "signed", "delegated", "issuer", "trusted"}

------------------------------------------------------------------------------
(* Todo lists.  An item is pending; each y comes after an x; the items that a   *)
(* read may skip follow the one that skips them; the verdict comes last.        *)
Pending(q, x) == \E i \in 1 .. Len(q) : q[i] = x

Preceded(q, x, y) == \A j \in 1 .. Len(q) : q[j] = y => \E i \in 1 .. j - 1 : q[i] = x

Linked(q, program) ==
  \A i \in 1 .. Len(q) :
    /\ q[i] = "anchored" => i < Len(q) /\ q[i + 1] = "anchor"
    /\ q[i] = "exists" /\ program = "cli" =>
         i + 1 < Len(q) /\ q[i + 1] = "subjectRevoked" /\ q[i + 2] = "allowed"

(* Only the issuance model's own authority is asked for.                         *)
ByModel(q, model) ==
  \A i \in 1 .. Len(q) :
    /\ q[i] = "signed" => model = "self"
    /\ q[i] = "delegated" => model = "controller"
    /\ q[i] \in {"issuer", "trusted"} => model = "external"

(* An anchor is read only right after it was asked for.                          *)
Coupled(q) == \A i \in 1 .. Len(q) : q[i] = "anchor" => i > 1 /\ q[i - 1] = "anchored"

VerdictLast(q) == \A i \in 1 .. Len(q) : q[i] = "verdict" => i = Len(q)

(* What is left of a todo list has the order it had.                            *)
LEMMA Dropped ==
  ASSUME NEW S, NEW q \in Seq(S), NEW n \in Nat \ {0}, NEW r, r = SubSeq(q, n + 1, Len(q))
  PROVE  /\ r \in Seq(S)
         /\ Len(r) = IF n <= Len(q) THEN Len(q) - n ELSE 0
         /\ \A i \in 1 .. Len(r) : r[i] = q[i + n]
<1>1. Len(q) \in Nat /\ \A i \in n + 1 .. Len(q) : q[i] \in S
  BY ElementOfSeq, LenProperties
<1>2. /\ r \in Seq(S)
      /\ Len(r) = IF n + 1 <= Len(q) THEN Len(q) - (n + 1) + 1 ELSE 0
      /\ \A i \in 1 .. Len(q) - (n + 1) + 1 : r[i] = q[(n + 1) + i - 1]
  BY <1>1, SubSeqProperties
<1> QED
  BY <1>1, <1>2

LEMMA DroppedStays ==
  ASSUME NEW S, NEW q \in Seq(S), NEW n \in Nat \ {0}, NEW r, r = SubSeq(q, n + 1, Len(q)),
         NEW program
  PROVE  /\ \A x : Pending(r, x) => Pending(q, x)
         /\ \A x : (\A k \in 1 .. n : k <= Len(q) => q[k] # x) /\ Pending(q, x) => Pending(r, x)
         /\ \A x, y : (\A k \in 1 .. n : k <= Len(q) => q[k] # x) /\ Preceded(q, x, y)
                        => Preceded(r, x, y)
         /\ Linked(q, program) => Linked(r, program)
         /\ VerdictLast(q) => VerdictLast(r)
         /\ \A model : ByModel(q, model) => ByModel(r, model)
         /\ Coupled(q) /\ (n <= Len(q) => q[n] # "anchored") => Coupled(r)
<1>1. Len(q) \in Nat
  BY LenProperties
<1>2. /\ Len(r) = IF n <= Len(q) THEN Len(q) - n ELSE 0
      /\ \A i \in 1 .. Len(r) : r[i] = q[i + n]
  BY Dropped
<1>3. \A i \in 1 .. Len(r) : i + n \in 1 .. Len(q)
  BY <1>1, <1>2
<1>4. \A j \in 1 .. Len(q) : j > n => j - n \in 1 .. Len(r) /\ r[j - n] = q[j]
  BY <1>1, <1>2
<1>5. ASSUME NEW x, Pending(r, x) PROVE Pending(q, x)
  BY <1>2, <1>3, <1>5 DEF Pending
<1>6. ASSUME NEW x, \A k \in 1 .. n : k <= Len(q) => q[k] # x, Pending(q, x)
      PROVE  Pending(r, x)
  <2>1. PICK j \in 1 .. Len(q) : q[j] = x
    BY <1>6 DEF Pending
  <2>2. j > n
    BY <1>1, <1>6, <2>1
  <2> QED
    BY <1>4, <2>1, <2>2 DEF Pending
<1>7. ASSUME NEW x, NEW y, \A k \in 1 .. n : k <= Len(q) => q[k] # x, Preceded(q, x, y)
      PROVE  Preceded(r, x, y)
  <2> SUFFICES ASSUME NEW j \in 1 .. Len(r), r[j] = y PROVE \E i \in 1 .. j - 1 : r[i] = x
    BY DEF Preceded
  <2>1. j + n \in 1 .. Len(q) /\ q[j + n] = y
    BY <1>2, <1>3
  <2>2. PICK i \in 1 .. (j + n) - 1 : q[i] = x
    BY <1>7, <2>1 DEF Preceded
  <2>3. i \in 1 .. Len(q) /\ i > n
    BY <1>1, <1>7, <2>1, <2>2
  <2>4. r[i - n] = x /\ i - n \in 1 .. j - 1
    BY <1>1, <1>2, <1>4, <2>2, <2>3
  <2> QED
    BY <2>4
<1>8. ASSUME Linked(q, program) PROVE Linked(r, program)
  <2> SUFFICES ASSUME NEW i \in 1 .. Len(r)
               PROVE  /\ r[i] = "anchored" => i < Len(r) /\ r[i + 1] = "anchor"
                      /\ r[i] = "exists" /\ program = "cli" =>
                           i + 1 < Len(r) /\ r[i + 1] = "subjectRevoked" /\ r[i + 2] = "allowed"
    BY DEF Linked
  <2>1. i + n \in 1 .. Len(q) /\ r[i] = q[i + n]
    BY <1>2, <1>3
  <2>2. n <= Len(q) /\ Len(r) = Len(q) - n
    BY <1>1, <1>2, <2>1
  <2>3. ASSUME r[i] = "anchored" PROVE i < Len(r) /\ r[i + 1] = "anchor"
    <3>1. i + n < Len(q) /\ q[(i + n) + 1] = "anchor"
      BY <1>8, <2>1, <2>3 DEF Linked
    <3>2. i + 1 \in 1 .. Len(r) /\ (i + 1) + n = (i + n) + 1
      BY <1>1, <2>2, <3>1
    <3> QED BY <1>1, <1>2, <2>2, <3>1, <3>2
  <2>4. ASSUME r[i] = "exists", program = "cli"
        PROVE  i + 1 < Len(r) /\ r[i + 1] = "subjectRevoked" /\ r[i + 2] = "allowed"
    <3>1. /\ (i + n) + 1 < Len(q)
          /\ q[(i + n) + 1] = "subjectRevoked" /\ q[(i + n) + 2] = "allowed"
      BY <1>8, <2>1, <2>4 DEF Linked
    <3>2. /\ i + 1 \in 1 .. Len(r) /\ (i + 1) + n = (i + n) + 1
          /\ i + 2 \in 1 .. Len(r) /\ (i + 2) + n = (i + n) + 2
      BY <1>1, <2>2, <3>1
    <3> QED BY <1>1, <1>2, <2>2, <3>1, <3>2
  <2> QED BY <2>3, <2>4
<1>9. ASSUME VerdictLast(q) PROVE VerdictLast(r)
  BY <1>1, <1>2, <1>3, <1>9 DEF VerdictLast
<1>10. ASSUME NEW model, ByModel(q, model) PROVE ByModel(r, model)
  BY <1>2, <1>3, <1>10 DEF ByModel
<1>11. ASSUME Coupled(q), n <= Len(q) => q[n] # "anchored" PROVE Coupled(r)
  <2> SUFFICES ASSUME NEW i \in 1 .. Len(r), r[i] = "anchor"
               PROVE  i > 1 /\ r[i - 1] = "anchored"
    BY DEF Coupled
  <2>1. i + n \in 1 .. Len(q) /\ q[i + n] = "anchor"
    BY <1>2, <1>3
  <2>2. q[(i + n) - 1] = "anchored" /\ n <= Len(q)
    BY <1>1, <1>11, <2>1 DEF Coupled
  <2>3. i > 1
    BY <1>1, <1>11, <2>1, <2>2
  <2>4. i - 1 \in 1 .. Len(r) /\ (i - 1) + n = (i + n) - 1
    BY <1>1, <1>2, <2>3
  <2> QED BY <1>2, <2>2, <2>3, <2>4
<1> QED
  BY <1>5, <1>6, <1>7, <1>8, <1>9, <1>10, <1>11

(* A piece of a plan, and a sequence of them.                                   *)
Piece(q, program) ==
  /\ q \in Seq(Reads)
  /\ Linked(q, program) /\ Coupled(q) /\ ByModel(q, paper.model)
  /\ Preceded(q, "useSlot", "available")
  /\ Preceded(q, "useRecord", "available")

LEMMA Joined ==
  ASSUME NEW S, NEW p \in Seq(S), NEW q \in Seq(S), NEW program
  PROVE  /\ p \o q \in Seq(S)
         /\ \A x : Pending(p, x) \/ Pending(q, x) => Pending(p \o q, x)
         /\ \A x, y : Preceded(p, x, y) /\ Preceded(q, x, y) => Preceded(p \o q, x, y)
         /\ Linked(p, program) /\ Linked(q, program) => Linked(p \o q, program)
         /\ ByModel(p, paper.model) /\ ByModel(q, paper.model) => ByModel(p \o q, paper.model)
         /\ Coupled(p) /\ Coupled(q) => Coupled(p \o q)
<1> DEFINE r == p \o q
<1>1. Len(p) \in Nat /\ Len(q) \in Nat
  BY LenProperties
<1>2. /\ r \in Seq(S)
      /\ Len(r) = Len(p) + Len(q)
      /\ \A i \in 1 .. Len(p) + Len(q) : r[i] = IF i <= Len(p) THEN p[i] ELSE q[i - Len(p)]
  BY ConcatProperties
<1> HIDE DEF r
<1>3. \A i \in 1 .. Len(p) : i \in 1 .. Len(r) /\ r[i] = p[i]
  BY <1>1, <1>2
<1>4. \A i \in 1 .. Len(q) : i + Len(p) \in 1 .. Len(r) /\ r[i + Len(p)] = q[i]
  <2> SUFFICES ASSUME NEW i \in 1 .. Len(q)
               PROVE  i + Len(p) \in 1 .. Len(r) /\ r[i + Len(p)] = q[i]
    OBVIOUS
  <2>1. /\ i + Len(p) \in 1 .. Len(p) + Len(q)
        /\ ~ (i + Len(p) <= Len(p)) /\ (i + Len(p)) - Len(p) = i
    BY <1>1
  <2> QED BY <1>2, <2>1
<1>5. \A i \in 1 .. Len(r) : i \notin 1 .. Len(p) => i - Len(p) \in 1 .. Len(q) /\ r[i] = q[i - Len(p)]
  BY <1>1, <1>2
<1>6. ASSUME NEW x, Pending(p, x) \/ Pending(q, x) PROVE Pending(r, x)
  BY <1>3, <1>4, <1>6 DEF Pending
<1>7. ASSUME NEW x, NEW y, Preceded(p, x, y), Preceded(q, x, y) PROVE Preceded(r, x, y)
  <2> SUFFICES ASSUME NEW j \in 1 .. Len(r), r[j] = y PROVE \E i \in 1 .. j - 1 : r[i] = x
    BY DEF Preceded
  <2>1. CASE j \in 1 .. Len(p)
    <3>1. PICK i \in 1 .. j - 1 : p[i] = x
      BY <1>3, <1>7, <2>1 DEF Preceded
    <3> QED BY <1>1, <1>3, <2>1, <3>1
  <2>2. CASE j \notin 1 .. Len(p)
    <3>1. j - Len(p) \in 1 .. Len(q) /\ q[j - Len(p)] = y
      BY <1>5, <2>2
    <3>2. PICK i \in 1 .. (j - Len(p)) - 1 : q[i] = x
      BY <1>7, <3>1 DEF Preceded
    <3>3. i \in 1 .. Len(q) /\ i + Len(p) \in 1 .. j - 1
      BY <1>1, <3>1, <3>2
    <3> QED BY <1>4, <3>2, <3>3
  <2> QED BY <2>1, <2>2
<1>8. ASSUME Linked(p, program), Linked(q, program) PROVE Linked(r, program)
  <2> SUFFICES ASSUME NEW i \in 1 .. Len(r)
               PROVE  /\ r[i] = "anchored" => i < Len(r) /\ r[i + 1] = "anchor"
                      /\ r[i] = "exists" /\ program = "cli" =>
                           i + 1 < Len(r) /\ r[i + 1] = "subjectRevoked" /\ r[i + 2] = "allowed"
    BY DEF Linked
  <2>1. CASE i \in 1 .. Len(p)
    <3>1. r[i] = p[i]
      BY <1>3, <2>1
    <3>2. ASSUME r[i] = "anchored" PROVE i < Len(r) /\ r[i + 1] = "anchor"
      <4>1. i < Len(p) /\ p[i + 1] = "anchor"
        BY <1>8, <2>1, <3>1, <3>2 DEF Linked
      <4> QED BY <1>1, <1>2, <1>3, <4>1
    <3>3. ASSUME r[i] = "exists", program = "cli"
          PROVE  i + 1 < Len(r) /\ r[i + 1] = "subjectRevoked" /\ r[i + 2] = "allowed"
      <4>1. i + 1 < Len(p) /\ p[i + 1] = "subjectRevoked" /\ p[i + 2] = "allowed"
        BY <1>8, <2>1, <3>1, <3>3 DEF Linked
      <4> QED BY <1>1, <1>2, <1>3, <4>1
    <3> QED BY <3>2, <3>3
  <2>2. CASE i \notin 1 .. Len(p)
    <3> DEFINE k == i - Len(p)
    <3>1. k \in 1 .. Len(q) /\ r[i] = q[k] /\ i = k + Len(p)
      BY <1>1, <1>5, <2>2
    <3> HIDE DEF k
    <3>2. ASSUME r[i] = "anchored" PROVE i < Len(r) /\ r[i + 1] = "anchor"
      <4>1. k < Len(q) /\ q[k + 1] = "anchor"
        BY <1>8, <3>1, <3>2 DEF Linked
      <4>2. k + 1 \in 1 .. Len(q) /\ (k + 1) + Len(p) = i + 1
        BY <1>1, <3>1, <4>1
      <4>3. r[(k + 1) + Len(p)] = q[k + 1]
        BY <1>4, <4>2
      <4> QED BY <1>1, <1>2, <3>1, <4>1, <4>2, <4>3
    <3>3. ASSUME r[i] = "exists", program = "cli"
          PROVE  i + 1 < Len(r) /\ r[i + 1] = "subjectRevoked" /\ r[i + 2] = "allowed"
      <4>1. k + 1 < Len(q) /\ q[k + 1] = "subjectRevoked" /\ q[k + 2] = "allowed"
        BY <1>8, <3>1, <3>3 DEF Linked
      <4>2. /\ k + 1 \in 1 .. Len(q) /\ (k + 1) + Len(p) = i + 1
            /\ k + 2 \in 1 .. Len(q) /\ (k + 2) + Len(p) = i + 2
        BY <1>1, <3>1, <4>1
      <4>3. r[(k + 1) + Len(p)] = q[k + 1] /\ r[(k + 2) + Len(p)] = q[k + 2]
        BY <1>4, <4>2
      <4> QED BY <1>1, <1>2, <3>1, <4>1, <4>2, <4>3
    <3> QED BY <3>2, <3>3
  <2> QED BY <2>1, <2>2
<1>9. ASSUME ByModel(p, paper.model), ByModel(q, paper.model) PROVE ByModel(r, paper.model)
  <2> SUFFICES ASSUME NEW i \in 1 .. Len(r)
               PROVE  /\ r[i] = "signed" => paper.model = "self"
                      /\ r[i] = "delegated" => paper.model = "controller"
                      /\ r[i] \in {"issuer", "trusted"} => paper.model = "external"
    BY DEF ByModel
  <2>1. CASE i \in 1 .. Len(p)
    BY <1>3, <1>9, <2>1 DEF ByModel
  <2>2. CASE i \notin 1 .. Len(p)
    BY <1>5, <1>9, <2>2 DEF ByModel
  <2> QED BY <2>1, <2>2
<1>10. ASSUME Coupled(p), Coupled(q) PROVE Coupled(r)
  <2> SUFFICES ASSUME NEW i \in 1 .. Len(r), r[i] = "anchor"
               PROVE  i > 1 /\ r[i - 1] = "anchored"
    BY DEF Coupled
  <2>1. CASE i \in 1 .. Len(p)
    <3>1. i > 1 /\ p[i - 1] = "anchored" /\ i - 1 \in 1 .. Len(p)
      BY <1>1, <1>3, <1>10, <2>1 DEF Coupled
    <3> QED BY <1>3, <3>1
  <2>2. CASE i \notin 1 .. Len(p)
    <3> DEFINE j == i - Len(p)
    <3>1. j \in 1 .. Len(q) /\ q[j] = "anchor" /\ i = j + Len(p)
      BY <1>1, <1>5, <2>2
    <3> HIDE DEF j
    <3>2. j > 1 /\ q[j - 1] = "anchored" /\ j - 1 \in 1 .. Len(q)
      BY <1>1, <1>10, <3>1 DEF Coupled
    <3>3. r[(j - 1) + Len(p)] = "anchored" /\ (j - 1) + Len(p) = i - 1
      BY <1>1, <1>4, <3>1, <3>2
    <3> QED BY <1>1, <3>1, <3>2, <3>3
  <2> QED BY <2>1, <2>2
<1> QED
  BY <1>2, <1>6, <1>7, <1>8, <1>9, <1>10 DEF r

LEMMA JoinedPieces ==
  ASSUME NEW p, NEW q, NEW program, Piece(p, program), Piece(q, program)
  PROVE  /\ Piece(p \o q, program)
         /\ \A x : Pending(p, x) \/ Pending(q, x) => Pending(p \o q, x)
  BY Joined DEF Piece

(* A plan ends with the verdict.                                                *)
Plan(q, program) ==
  /\ q \in Seq(Reads \cup {"verdict"})
  /\ Linked(q, program) /\ Coupled(q) /\ ByModel(q, paper.model)
  /\ Preceded(q, "useSlot", "available")
  /\ VerdictLast(q)

LEMMA PieceWithVerdict ==
  ASSUME NEW p, NEW program, Piece(p, program)
  PROVE  /\ Plan(p \o <<"verdict">>, program)
         /\ \A x : Pending(p, x) \/ x = "verdict" => Pending(p \o <<"verdict">>, x)
         /\ Preceded(p \o <<"verdict">>, "useRecord", "available")
<1> DEFINE v == <<"verdict">>
           r == p \o v
           S == Reads \cup {"verdict"}
<1>1. v \in Seq(S) /\ Len(v) = 1 /\ v[1] = "verdict"
  OBVIOUS
<1>2. p \in Seq(S) /\ Len(p) \in Nat /\ \A i \in 1 .. Len(p) : p[i] \in Reads
  BY LenProperties, ElementOfSeq, SeqMonotonic DEF Piece
<1> HIDE DEF v, S
<1>3. /\ Pending(v, "verdict") /\ Linked(v, program) /\ ByModel(v, paper.model)
      /\ Coupled(v)
      /\ Preceded(v, "useSlot", "available") /\ Preceded(v, "useRecord", "available")
  BY <1>1 DEF Pending, Linked, Coupled, ByModel, Preceded
<1>4. /\ r \in Seq(S) /\ Linked(r, program) /\ Coupled(r) /\ ByModel(r, paper.model)
      /\ Preceded(r, "useSlot", "available") /\ Preceded(r, "useRecord", "available")
      /\ \A x : Pending(p, x) \/ x = "verdict" => Pending(r, x)
  BY <1>1, <1>2, <1>3, Joined DEF Piece
<1>5. /\ Len(r) = Len(p) + 1
      /\ \A i \in 1 .. Len(p) + 1 : i <= Len(p) => r[i] = p[i]
  <2>1. /\ Len(r) = Len(p) + Len(v)
        /\ \A i \in 1 .. Len(p) + Len(v) : r[i] = IF i <= Len(p) THEN p[i] ELSE v[i - Len(p)]
    BY <1>1, <1>2, ConcatProperties
  <2> HIDE DEF r
  <2> QED BY <1>1, <1>2, <2>1
<1>6. VerdictLast(r)
  BY <1>2, <1>5 DEF VerdictLast, Reads
<1> QED
  BY <1>4, <1>6 DEF Plan, v, S, r

(* The pieces of the programs' plans.                                           *)
LEMMA WhenPiece ==
  ASSUME NEW p, NEW program, Piece(p, program), NEW condition
  PROVE  /\ Piece(When(condition, p), program)
         /\ condition => When(condition, p) = p
<1>1. <<>> \in Seq(Reads) /\ Len(<<>>) = 0
  OBVIOUS
<1>2. Piece(<<>>, program)
  BY <1>1 DEF Piece, Linked, Coupled, ByModel, Preceded
<1> QED
  BY <1>2 DEF When

LEMMA UsesPiece ==
  ASSUME NEW uses \in UseReads, NEW program
  PROVE  /\ Piece(uses, program)
         /\ Piece(uses \o <<"available">>, program)
         /\ Piece(<<"credentialRevoked">> \o uses \o <<"available">>, program)
         /\ Pending(uses \o <<"available">>, "available")
         /\ Pending(<<"credentialRevoked">> \o uses \o <<"available">>, "available")
         /\ Pending(<<"credentialRevoked">> \o uses \o <<"available">>, "credentialRevoked")
<1>1. /\ uses \in Seq(Reads) /\ Len(uses) = 2
      /\ \/ uses[1] = "useRecord" /\ uses[2] = "useSlot"
         \/ uses[1] = "useSlot" /\ uses[2] = "useRecord"
  <2>1. CASE uses = <<"useRecord", "useSlot">>
    BY <2>1 DEF Reads
  <2>2. CASE uses = <<"useSlot", "useRecord">>
    BY <2>2 DEF Reads
  <2> QED BY <2>1, <2>2 DEF UseReads
<1>2. Piece(uses, program)
  BY <1>1 DEF Piece, Linked, Coupled, ByModel, Preceded
<1> DEFINE a == <<"available">>
           u == uses \o a
           c == <<"credentialRevoked">>
<1>3. a \in Seq(Reads) /\ Len(a) = 1 /\ a[1] = "available"
  BY DEF Reads
<1>4. c \in Seq(Reads) /\ Len(c) = 1 /\ c[1] = "credentialRevoked"
  BY DEF Reads
<1> HIDE DEF a, c
<1>5. /\ u \in Seq(Reads) /\ Len(u) = 3
      /\ u[1] = uses[1] /\ u[2] = uses[2] /\ u[3] = "available"
  <2>1. /\ u \in Seq(Reads) /\ Len(u) = Len(uses) + Len(a)
        /\ \A i \in 1 .. Len(uses) + Len(a) : u[i] = IF i <= Len(uses) THEN uses[i] ELSE a[i - Len(uses)]
    BY <1>1, <1>3, ConcatProperties
  <2> HIDE DEF u
  <2>2. \A i \in 1 .. 3 : u[i] = IF i <= 2 THEN uses[i] ELSE a[i - 2]
    BY <1>1, <1>3, <2>1
  <2> QED BY <1>1, <1>3, <2>1, <2>2
<1> HIDE DEF u
<1>6. Piece(u, program) /\ Pending(u, "available")
  BY <1>1, <1>5 DEF Piece, Linked, Coupled, ByModel, Preceded, Pending
<1>7. Piece(c, program) /\ Pending(c, "credentialRevoked")
  BY <1>4 DEF Piece, Linked, Coupled, ByModel, Preceded, Pending
<1>8. /\ Piece(c \o u, program)
      /\ Pending(c \o u, "available") /\ Pending(c \o u, "credentialRevoked")
  BY <1>6, <1>7, JoinedPieces
<1>9. c \o u = (c \o uses) \o a
  <2>1. (c \o uses) \o a = c \o (uses \o a)
    BY <1>1, <1>3, <1>4, ConcatAssociative
  <2> QED BY <2>1 DEF u
<1> QED
  BY <1>2, <1>6, <1>8, <1>9 DEF u, a, c

AsksAuthority(q) ==
  /\ paper.model = "self" => Pending(q, "signed")
  /\ paper.model = "controller" => Pending(q, "delegated")
  /\ paper.model = "external" => Pending(q, "trusted")

LEMMA AuthorityPiece ==
  ASSUME NEW program, paper \in Paper
  PROVE  /\ Piece(AuthorityReads, program)
         /\ AsksAuthority(AuthorityReads)
<1>1. paper.model \in {"self", "controller", "external"}
  BY PaperAssumption
<1>2. \/ paper.model = "self" /\ AuthorityReads = <<"signed">>
      \/ paper.model = "controller" /\ AuthorityReads = <<"delegated">>
      \/ paper.model = "external" /\ AuthorityReads = <<"issuer", "trusted">>
  BY <1>1 DEF AuthorityReads
<1>3. CASE paper.model = "self" /\ AuthorityReads = <<"signed">>
  <2>1. Piece(AuthorityReads, program)
    BY <1>3 DEF Piece, Linked, Coupled, ByModel, Preceded, Reads
  <2>2. Pending(AuthorityReads, "signed")
    BY <1>3 DEF Pending
  <2> QED BY <1>3, <2>1, <2>2 DEF AsksAuthority
<1>4. CASE paper.model = "controller" /\ AuthorityReads = <<"delegated">>
  <2>1. Piece(AuthorityReads, program)
    BY <1>4 DEF Piece, Linked, Coupled, ByModel, Preceded, Reads
  <2>2. Pending(AuthorityReads, "delegated")
    BY <1>4 DEF Pending
  <2> QED BY <1>4, <2>1, <2>2 DEF AsksAuthority
<1>5. CASE paper.model = "external" /\ AuthorityReads = <<"issuer", "trusted">>
  <2>1. Piece(AuthorityReads, program)
    BY <1>5 DEF Piece, Linked, Coupled, ByModel, Preceded, Reads
  <2>2. Pending(AuthorityReads, "trusted")
    BY <1>5 DEF Pending
  <2> QED BY <1>5, <2>1, <2>2 DEF AsksAuthority
<1> QED
  BY <1>2, <1>3, <1>4, <1>5

LEMMA FixedPieces ==
  ASSUME NEW program
  PROVE  /\ Piece(<<"anchored", "anchor">>, program) /\ Pending(<<"anchored", "anchor">>, "anchor")
         /\ Piece(<<"exists", "subjectRevoked", "allowed">>, program)
         /\ Pending(<<"exists", "subjectRevoked", "allowed">>, "exists")
         /\ Pending(<<"exists", "subjectRevoked", "allowed">>, "subjectRevoked")
         /\ Pending(<<"exists", "subjectRevoked", "allowed">>, "allowed")
         /\ program # "cli" => Piece(<<"exists">>, program)
         /\ Pending(<<"exists">>, "exists")
         /\ Piece(<<"credentialRevoked">>, program)
         /\ Pending(<<"credentialRevoked">>, "credentialRevoked")
         /\ Piece(<<"subjectRevoked", "allowed">>, program)
         /\ Pending(<<"subjectRevoked", "allowed">>, "subjectRevoked")
         /\ Pending(<<"subjectRevoked", "allowed">>, "allowed")
<1>1. Piece(<<"anchored", "anchor">>, program) /\ Pending(<<"anchored", "anchor">>, "anchor")
  BY DEF Piece, Linked, Coupled, ByModel, Preceded, Pending, Reads
<1>2. /\ Piece(<<"exists", "subjectRevoked", "allowed">>, program)
      /\ Pending(<<"exists", "subjectRevoked", "allowed">>, "exists")
      /\ Pending(<<"exists", "subjectRevoked", "allowed">>, "subjectRevoked")
      /\ Pending(<<"exists", "subjectRevoked", "allowed">>, "allowed")
  BY DEF Piece, Linked, Coupled, ByModel, Preceded, Pending, Reads
<1>3. (program # "cli" => Piece(<<"exists">>, program)) /\ Pending(<<"exists">>, "exists")
  BY DEF Piece, Linked, Coupled, ByModel, Preceded, Pending, Reads
<1>4. Piece(<<"credentialRevoked">>, program) /\ Pending(<<"credentialRevoked">>, "credentialRevoked")
  BY DEF Piece, Linked, Coupled, ByModel, Preceded, Pending, Reads
<1>5. /\ Piece(<<"subjectRevoked", "allowed">>, program)
      /\ Pending(<<"subjectRevoked", "allowed">>, "subjectRevoked")
      /\ Pending(<<"subjectRevoked", "allowed">>, "allowed")
  BY DEF Piece, Linked, Coupled, ByModel, Preceded, Pending, Reads
<1> QED
  BY <1>1, <1>2, <1>3, <1>4, <1>5

LEMMA UiUsesPiece ==
  ASSUME NEW uses \in UseReads, NEW program
  PROVE  /\ Piece(uses \o <<"available", "anchored", "anchor">>, program)
         /\ Pending(uses \o <<"available", "anchored", "anchor">>, "available")
         /\ Pending(uses \o <<"available", "anchored", "anchor">>, "anchor")
         /\ Pending(uses \o <<"available", "anchored", "anchor">>, "useRecord")
<1>1. /\ uses \in Seq(Reads) /\ Len(uses) = 2
      /\ \/ uses[1] = "useRecord" /\ uses[2] = "useSlot"
         \/ uses[1] = "useSlot" /\ uses[2] = "useRecord"
  <2>1. CASE uses = <<"useRecord", "useSlot">>
    BY <2>1 DEF Reads
  <2>2. CASE uses = <<"useSlot", "useRecord">>
    BY <2>2 DEF Reads
  <2> QED BY <2>1, <2>2 DEF UseReads
<1> DEFINE a == <<"available", "anchored", "anchor">>
           u == uses \o a
<1>2. /\ a \in Seq(Reads) /\ Len(a) = 3
      /\ a[1] = "available" /\ a[2] = "anchored" /\ a[3] = "anchor"
  BY DEF Reads
<1> HIDE DEF a
<1>3. /\ u \in Seq(Reads) /\ Len(u) = 5
      /\ u[1] = uses[1] /\ u[2] = uses[2]
      /\ u[3] = "available" /\ u[4] = "anchored" /\ u[5] = "anchor"
  <2>1. /\ u \in Seq(Reads) /\ Len(u) = Len(uses) + Len(a)
        /\ \A i \in 1 .. Len(uses) + Len(a) : u[i] = IF i <= Len(uses) THEN uses[i] ELSE a[i - Len(uses)]
    BY <1>1, <1>2, ConcatProperties
  <2> HIDE DEF u
  <2>2. \A i \in 1 .. 5 : u[i] = IF i <= 2 THEN uses[i] ELSE a[i - 2]
    BY <1>1, <1>2, <2>1
  <2> QED BY <1>1, <1>2, <2>1, <2>2
<1> HIDE DEF u
<1>4. Piece(u, program)
  BY <1>1, <1>3 DEF Piece, Linked, Coupled, ByModel, Preceded
<1>5. /\ Pending(u, "available") /\ Pending(u, "anchor") /\ Pending(u, "useRecord")
  BY <1>1, <1>3 DEF Pending
<1> QED
  BY <1>4, <1>5 DEF u, a

(* A plan of either program, and what it asks of a flawless credential.         *)
Thorough(q) ==
  /\ \A x \in {"exists", "anchor", "subjectRevoked", "allowed", "credentialRevoked", "available",
               "useRecord"} : Pending(q, x)
  /\ AsksAuthority(q)

Planned(q, program) ==
  /\ Plan(q, program)
  /\ Preceded(q, "useRecord", "available")
  /\ Pending(q, "verdict")
  /\ paper.formed /\ paper.hashed /\ paper.schema => Thorough(q)

LEMMA CliPlanned ==
  ASSUME paper \in Paper, NEW uses \in UseReads, NEW finalUses \in UseReads
  PROVE  Planned(CliReads(uses, finalUses), "cli")
<1> DEFINE A == <<"anchored", "anchor">>
           E == <<"exists", "subjectRevoked", "allowed">>
           U == <<"credentialRevoked">> \o uses \o <<"available">>
           whenA == When(paper.hashed, A)
           whenU == When(paper.hashed, U)
           whenB == When(paper.hashed /\ paper.schema, AuthorityReads)
           E1 == E \o whenU
           E2 == E1 \o whenB
           whenE == When(paper.formed, E2)
           whenF == When(paper.hashed, finalUses)
           P1 == whenA \o whenE
           P2 == P1 \o whenF
           q == P2 \o <<"verdict">>
<1>1. CliReads(uses, finalUses) = q
  BY DEF CliReads
<1>2. Piece(A, "cli") /\ Pending(A, "anchor")
  BY FixedPieces
<1>3. /\ Piece(E, "cli")
      /\ Pending(E, "exists") /\ Pending(E, "subjectRevoked") /\ Pending(E, "allowed")
  BY FixedPieces
<1>4. Piece(U, "cli") /\ Pending(U, "available") /\ Pending(U, "credentialRevoked")
  BY UsesPiece
<1>5. Piece(AuthorityReads, "cli") /\ AsksAuthority(AuthorityReads)
  BY AuthorityPiece
<1>6. Piece(finalUses, "cli") /\ Pending(finalUses, "useRecord")
  <2>1. finalUses \in {<<"useRecord", "useSlot">>, <<"useSlot", "useRecord">>}
    BY DEF UseReads
  <2>2. Len(finalUses) = 2 /\ (finalUses[1] = "useRecord" \/ finalUses[2] = "useRecord")
    BY <2>1
  <2>3. Pending(finalUses, "useRecord")
    BY <2>2 DEF Pending
  <2> QED BY <2>3, UsesPiece
<1> HIDE DEF A, E, U
<1>7. Piece(whenA, "cli") /\ (paper.hashed => Pending(whenA, "anchor"))
  BY <1>2, WhenPiece
<1>8. /\ Piece(whenU, "cli")
      /\ paper.hashed => Pending(whenU, "available") /\ Pending(whenU, "credentialRevoked")
  BY <1>4, WhenPiece
<1>9. /\ Piece(whenB, "cli")
      /\ paper.hashed /\ paper.schema => AsksAuthority(whenB)
  BY <1>5, WhenPiece
<1>10. Piece(whenF, "cli") /\ (paper.hashed => Pending(whenF, "useRecord"))
  BY <1>6, WhenPiece
<1> HIDE DEF whenA, whenU, whenB, whenF
<1>11. Piece(E1, "cli") /\ \A x : Pending(E, x) \/ Pending(whenU, x) => Pending(E1, x)
  BY <1>3, <1>8, JoinedPieces
<1> HIDE DEF E1
<1>12. Piece(E2, "cli") /\ \A x : Pending(E1, x) \/ Pending(whenB, x) => Pending(E2, x)
  BY <1>9, <1>11, JoinedPieces
<1> HIDE DEF E2
<1>13. Piece(whenE, "cli") /\ (paper.formed => whenE = E2)
  BY <1>12, WhenPiece
<1> HIDE DEF whenE
<1>14. Piece(P1, "cli") /\ \A x : Pending(whenA, x) \/ Pending(whenE, x) => Pending(P1, x)
  BY <1>7, <1>13, JoinedPieces
<1> HIDE DEF P1
<1>15. Piece(P2, "cli") /\ \A x : Pending(P1, x) \/ Pending(whenF, x) => Pending(P2, x)
  BY <1>10, <1>14, JoinedPieces
<1> HIDE DEF P2
<1>16. /\ Plan(q, "cli")
       /\ \A x : Pending(P2, x) \/ x = "verdict" => Pending(q, x)
       /\ Preceded(q, "useRecord", "available")
  BY <1>15, PieceWithVerdict
<1> HIDE DEF q
<1>17. ASSUME paper.formed, paper.hashed, paper.schema PROVE Thorough(q)
  <2>1. \A x : Pending(E2, x) => Pending(q, x)
    BY <1>13, <1>14, <1>15, <1>16, <1>17
  <2>2. Pending(q, "anchor")
    BY <1>7, <1>14, <1>15, <1>16, <1>17
  <2>3. Pending(q, "useRecord")
    BY <1>10, <1>15, <1>16, <1>17
  <2>4. Pending(q, "exists") /\ Pending(q, "subjectRevoked") /\ Pending(q, "allowed")
    BY <1>3, <1>11, <1>12, <2>1
  <2>5. Pending(q, "credentialRevoked") /\ Pending(q, "available")
    BY <1>8, <1>11, <1>12, <1>17, <2>1
  <2>6. AsksAuthority(q)
    BY <1>9, <1>12, <1>17, <2>1 DEF AsksAuthority
  <2> QED BY <2>2, <2>3, <2>4, <2>5, <2>6 DEF Thorough
<1> QED
  BY <1>1, <1>16, <1>17 DEF Planned

LEMMA UiPlanned ==
  ASSUME paper \in Paper, NEW uses \in UseReads
  PROVE  Planned(UiReads(uses), "ui")
<1> DEFINE E == <<"exists">>
           C == <<"credentialRevoked">>
           S == <<"subjectRevoked", "allowed">>
           U == uses \o <<"available", "anchored", "anchor">>
           whenC == When(paper.hashed, C)
           whenU == When(paper.hashed, U)
           whenB == When(paper.hashed /\ paper.schema, AuthorityReads)
           P1 == E \o whenC
           P2 == P1 \o S
           P3 == P2 \o whenU
           P4 == P3 \o whenB
           q == P4 \o <<"verdict">>
<1>1. UiReads(uses) = q
  BY DEF UiReads
<1>2. Piece(E, "ui") /\ Pending(E, "exists")
  BY FixedPieces
<1>3. Piece(C, "ui") /\ Pending(C, "credentialRevoked")
  BY FixedPieces
<1>4. Piece(S, "ui") /\ Pending(S, "subjectRevoked") /\ Pending(S, "allowed")
  BY FixedPieces
<1>5. /\ Piece(U, "ui") /\ Pending(U, "available") /\ Pending(U, "anchor")
      /\ Pending(U, "useRecord")
  BY UiUsesPiece
<1>6. Piece(AuthorityReads, "ui") /\ AsksAuthority(AuthorityReads)
  BY AuthorityPiece
<1> HIDE DEF E, C, S, U
<1>7. Piece(whenC, "ui") /\ (paper.hashed => Pending(whenC, "credentialRevoked"))
  BY <1>3, WhenPiece
<1>8. /\ Piece(whenU, "ui")
      /\ paper.hashed => /\ Pending(whenU, "available") /\ Pending(whenU, "anchor")
                         /\ Pending(whenU, "useRecord")
  BY <1>5, WhenPiece
<1>9. /\ Piece(whenB, "ui")
      /\ paper.hashed /\ paper.schema => AsksAuthority(whenB)
  BY <1>6, WhenPiece
<1> HIDE DEF whenC, whenU, whenB
<1>10. Piece(P1, "ui") /\ \A x : Pending(E, x) \/ Pending(whenC, x) => Pending(P1, x)
  BY <1>2, <1>7, JoinedPieces
<1> HIDE DEF P1
<1>11. Piece(P2, "ui") /\ \A x : Pending(P1, x) \/ Pending(S, x) => Pending(P2, x)
  BY <1>4, <1>10, JoinedPieces
<1> HIDE DEF P2
<1>12. Piece(P3, "ui") /\ \A x : Pending(P2, x) \/ Pending(whenU, x) => Pending(P3, x)
  BY <1>8, <1>11, JoinedPieces
<1> HIDE DEF P3
<1>13. Piece(P4, "ui") /\ \A x : Pending(P3, x) \/ Pending(whenB, x) => Pending(P4, x)
  BY <1>9, <1>12, JoinedPieces
<1> HIDE DEF P4
<1>14. /\ Plan(q, "ui")
       /\ \A x : Pending(P4, x) \/ x = "verdict" => Pending(q, x)
       /\ Preceded(q, "useRecord", "available")
  BY <1>13, PieceWithVerdict
<1> HIDE DEF q
<1>15. ASSUME paper.formed, paper.hashed, paper.schema PROVE Thorough(q)
  <2>1. Pending(q, "credentialRevoked")
    BY <1>7, <1>10, <1>11, <1>12, <1>13, <1>14, <1>15
  <2>2. Pending(q, "subjectRevoked") /\ Pending(q, "allowed")
    BY <1>4, <1>11, <1>12, <1>13, <1>14
  <2>3. Pending(q, "available") /\ Pending(q, "anchor") /\ Pending(q, "useRecord")
    BY <1>8, <1>12, <1>13, <1>14, <1>15
  <2>4. AsksAuthority(q)
    BY <1>9, <1>13, <1>14, <1>15 DEF AsksAuthority
  <2>5. Pending(q, "exists")
    BY <1>2, <1>10, <1>11, <1>12, <1>13, <1>14
  <2> QED BY <2>1, <2>2, <2>3, <2>4, <2>5 DEF Thorough
<1> QED
  BY <1>1, <1>14, <1>15 DEF Planned

------------------------------------------------------------------------------
(* What the registry says, and what can become of it.                           *)
View ==
  [over |-> over, subject |-> subject, allowed |-> allowed, signed |-> signed,
   revoked |-> revoked, anchor |-> anchor,
   configured |-> consumption.configured, available |-> Available]

Views ==
  {k \in [over : BOOLEAN, subject : {"none", "active", "revoked"}, allowed : BOOLEAN,
          signed : BOOLEAN, revoked : BOOLEAN, anchor : {"none", "timely", "untimely"},
          configured : BOOLEAN, available : BOOLEAN] : ~ k.available => k.configured}

Later(k, l) ==
  /\ k.over => l.over
  /\ k.revoked => l.revoked
  /\ k.subject = "revoked" => l.subject = "revoked"
  /\ k.anchor # "none" => l.anchor = k.anchor
  /\ k.configured => l.configured
  /\ ~ k.available => ~ l.available
  /\ k.over /\ k.subject # "none" /\ ~ k.allowed => l.subject # "none" /\ ~ l.allowed
  /\ k.over /\ ~ k.signed => ~ l.signed

(* A limit is set with the anchor, once, and no use exceeds it.                 *)
FactsInv ==
  /\ FactsTypeOK
  /\ consumption.configured <=> anchor # "none"
  /\ consumption.mode = LIMITED =>
       consumption.configured /\ consumption.useCount <= consumption.maxUses

LEMMA FactsInitially == FactsInit => FactsInv
<1> SUFFICES ASSUME FactsInit PROVE FactsInv
  OBVIOUS
<1>1. {over, allowed, signed, delegated, trusted, revoked} \subseteq BOOLEAN
  BY DEF FactsInit
<1>2. subject = "none" /\ anchor = "none" /\ consumption = NoConsumption
  BY DEF FactsInit
<1>3. /\ NoConsumption \in [configured : BOOLEAN, mode : {UNLIMITED, LIMITED},
                           maxUses : Nat, useCount : Nat]
      /\ ~ NoConsumption.configured /\ NoConsumption.mode # LIMITED
  BY DEF NoConsumption, UNLIMITED, LIMITED
<1> QED
  BY <1>1, <1>2, <1>3 DEF FactsInv, FactsTypeOK

LEMMA FactsViews ==
  ASSUME FactsInv
  PROVE  View \in Views
  BY DEF FactsInv, FactsTypeOK, View, Views, Available

(* What a transaction does to anchor and policy: nothing, the one anchoring, or *)
(* a use that was left.                                                         *)
LEMMA AnchorEffect ==
  ASSUME FactsInv, Anchor
  PROVE  /\ FactsInv' /\ anchor = "none" /\ anchor' \in {"timely", "untimely"}
         /\ ~ consumption.configured /\ consumption'.configured
         /\ consumption'.useCount = 0
<1>1. /\ anchor = "none" /\ anchor' \in {"timely", "untimely"}
      /\ UNCHANGED <<over, subject, allowed, signed, delegated, trusted, revoked>>
  BY DEF Anchor, authority
<1>2. PICK mode \in {UNLIMITED, LIMITED}, maxUses \in 0 .. MaxUses :
        consumption' = [configured |-> TRUE, mode |-> mode, maxUses |-> maxUses, useCount |-> 0]
  BY DEF Anchor
<1>3. /\ consumption' \in [configured : BOOLEAN, mode : {UNLIMITED, LIMITED},
                          maxUses : Nat, useCount : Nat]
      /\ consumption'.configured /\ consumption'.useCount = 0 /\ consumption'.maxUses \in Nat
  BY <1>2, MaxUsesAssumption
<1>4. FactsTypeOK'
  BY <1>1, <1>3 DEF FactsInv, FactsTypeOK
<1> QED
  BY <1>1, <1>3, <1>4 DEF FactsInv

LEMMA ConsumeEffect ==
  ASSUME FactsInv, Consume
  PROVE  /\ FactsInv' /\ anchor' = anchor
         /\ consumption.configured /\ consumption'.configured
         /\ consumption'.mode = consumption.mode
         /\ consumption'.maxUses = consumption.maxUses
         /\ consumption.mode = LIMITED => consumption'.useCount = consumption.useCount + 1
         /\ Available
<1>1. /\ consumption.configured /\ Available /\ anchor' = anchor
      /\ UNCHANGED <<over, subject, allowed, signed, delegated, trusted, revoked>>
      /\ consumption' = IF consumption.mode = UNLIMITED THEN consumption
                        ELSE [consumption EXCEPT !.useCount = consumption.useCount + 1]
  BY DEF Consume, authority
<1>2. consumption \in [configured : BOOLEAN, mode : {UNLIMITED, LIMITED},
                       maxUses : Nat, useCount : Nat]
  BY DEF FactsInv, FactsTypeOK
<1>3. /\ consumption' \in [configured : BOOLEAN, mode : {UNLIMITED, LIMITED},
                          maxUses : Nat, useCount : Nat]
      /\ consumption'.configured = consumption.configured
      /\ consumption'.mode = consumption.mode /\ consumption'.maxUses = consumption.maxUses
      /\ consumption.mode = LIMITED => consumption'.useCount = consumption.useCount + 1
  <2>1. CASE consumption.mode = UNLIMITED
    <3>1. consumption' = consumption
      BY <1>1, <2>1
    <3>2. consumption.mode # LIMITED
      BY <2>1 DEF UNLIMITED, LIMITED
    <3> QED BY <1>2, <3>1, <3>2
  <2>2. CASE consumption.mode # UNLIMITED
    <3>1. consumption' = [consumption EXCEPT !.useCount = consumption.useCount + 1]
      BY <1>1, <2>2
    <3>2. consumption.useCount + 1 \in Nat
      BY <1>2
    <3> QED BY <1>2, <3>1, <3>2
  <2> QED BY <2>1, <2>2
<1>4. consumption.mode = LIMITED => consumption.useCount < consumption.maxUses
  BY <1>1 DEF Available, UNLIMITED, LIMITED
<1>5. consumption'.mode = LIMITED => consumption'.useCount <= consumption'.maxUses
  BY <1>2, <1>3, <1>4
<1>6. FactsTypeOK'
  BY <1>1, <1>3 DEF FactsInv, FactsTypeOK
<1> QED
  BY <1>1, <1>3, <1>5, <1>6 DEF FactsInv

LEMMA QuietEffect ==
  ASSUME FactsInv,
         \/ SecondEnds \/ Register \/ Administer \/ RevokeSubject \/ ChangeAuthority
         \/ RevokeCredential \/ UNCHANGED factVars
  PROVE  /\ FactsInv' /\ anchor' = anchor /\ consumption' = consumption
         /\ Later(View, View')
<1>1. anchor' = anchor /\ consumption' = consumption
  BY DEF SecondEnds, Register, Administer, RevokeSubject, ChangeAuthority, RevokeCredential,
     factVars
<1>2. Available' <=> Available
  BY <1>1 DEF Available
<1>3. FactsTypeOK'
  <2>1. CASE SecondEnds
    BY <2>1 DEF SecondEnds, FactsInv, FactsTypeOK, authority
  <2>2. CASE Register
    BY <2>2 DEF Register, FactsInv, FactsTypeOK
  <2>3. CASE Administer
    BY <2>3 DEF Administer, FactsInv, FactsTypeOK, authority
  <2>4. CASE RevokeSubject
    BY <2>4 DEF RevokeSubject, FactsInv, FactsTypeOK, authority
  <2>5. CASE ChangeAuthority
    BY <2>5 DEF ChangeAuthority, FactsInv, FactsTypeOK
  <2>6. CASE RevokeCredential
    BY <2>6 DEF RevokeCredential, FactsInv, FactsTypeOK, authority
  <2>7. CASE UNCHANGED factVars
    BY <2>7 DEF factVars, FactsInv, FactsTypeOK, authority
  <2> QED BY <2>1, <2>2, <2>3, <2>4, <2>5, <2>6, <2>7
<1>4. /\ over => over'
      /\ revoked => revoked'
      /\ subject = "revoked" => subject' = "revoked"
      /\ over /\ subject # "none" /\ ~ allowed => subject' # "none" /\ ~ allowed'
      /\ over /\ ~ signed => ~ signed'
  <2>1. CASE SecondEnds
    BY <2>1, Zenon DEF SecondEnds
  <2>2. CASE Register
    BY <2>2 DEF Register
  <2>3. CASE Administer
    BY <2>3 DEF Administer
  <2>4. CASE RevokeSubject
    BY <2>4 DEF RevokeSubject
  <2>5. CASE ChangeAuthority
    BY <2>5 DEF ChangeAuthority
  <2>6. CASE RevokeCredential
    BY <2>6, Zenon DEF RevokeCredential
  <2>7. CASE UNCHANGED factVars
    BY <2>7 DEF factVars
  <2> QED BY <2>1, <2>2, <2>3, <2>4, <2>5, <2>6, <2>7
<1>5. Later(View, View')
  BY <1>1, <1>2, <1>4 DEF Later, View
<1>6. FactsInv'
  BY <1>1, <1>3 DEF FactsInv
<1> QED
  BY <1>1, <1>5, <1>6

LEMMA AnchorLater ==
  ASSUME FactsInv, Anchor
  PROVE  Later(View, View')
<1>1. /\ anchor = "none" /\ ~ consumption.configured /\ consumption'.configured
      /\ UNCHANGED <<over, subject, allowed, signed, revoked>>
  BY AnchorEffect DEF Anchor
<1>2. Available
  BY <1>1 DEF Available
<1> QED
  BY <1>1, <1>2 DEF Later, View

LEMMA ConsumeLater ==
  ASSUME FactsInv, Consume
  PROVE  Later(View, View')
<1>1. /\ anchor' = anchor /\ consumption.configured /\ consumption'.configured /\ Available
      /\ UNCHANGED <<over, subject, allowed, signed, revoked>>
  BY ConsumeEffect DEF Consume
<1> QED
  BY <1>1 DEF Later, View

LEMMA FactsLater ==
  ASSUME FactsInv, FactsNext \/ UNCHANGED factVars
  PROVE  FactsInv' /\ Later(View, View')
  BY QuietEffect, AnchorEffect, AnchorLater, ConsumeEffect, ConsumeLater DEF FactsNext

------------------------------------------------------------------------------
(* The sessions.                                                                *)
Began == [withdrawn : BOOLEAN, unentitled : BOOLEAN, configured : BOOLEAN]

Sessions ==
  [program : {"none", "cli", "ui"}, outcome : Outcome, todo : Seq(Item), ok : BOOLEAN,
   valid : BOOLEAN, configured : BOOLEAN, slot : BOOLEAN, refused : BOOLEAN, used : BOOLEAN,
   began : Began, steady : BOOLEAN]

(* What may be left to do once the credential is found valid.                   *)
Rests(used) ==
  IF used
  THEN {<<"receipt", "useRecord", "useSlot", "shown", "report">>,
        <<"useRecord", "useSlot", "shown", "report">>, <<"useSlot", "shown", "report">>,
        <<"shown", "report">>,
        <<"receipt", "useRecord", "useSlot", "report">>,
        <<"useRecord", "useSlot", "report">>, <<"useSlot", "report">>, <<"report">>, <<>>}
  ELSE {<<"shown", "accept">>, <<"accept">>, <<"shown", "useRecord", "consume">>,
        <<"useRecord", "consume">>, <<"consume">>, <<>>}

Asking(s, k) ==
  /\ s.todo \in Seq(Reads \cup {"verdict"})
  /\ Linked(s.todo, s.program)
  /\ VerdictLast(s.todo)
  /\ s.outcome = "running" => Pending(s.todo, "verdict")
  /\ Preceded(s.todo, "useSlot", "available") \/ s.slot \/ ~ k.available

(* A revocation has two items to do, and no verdict.                            *)
Revoking(s) == s.todo \in {<<"revoke">>, <<"receipt">>}

Ahead(s, k) ==
  IF s.valid THEN s.todo \in Rests(s.used) /\ (s.outcome = "running" => s.todo # <<>>)
  ELSE Revoking(s) \/ Asking(s, k)

(* What a session has noted agrees with the registry, and stays so.             *)
Noted(s, k) ==
  /\ s.began.configured => k.configured
  /\ s.configured => k.configured
  /\ s.refused => s.configured /\ ~ s.slot /\ ~ k.available
  /\ s.used => s.valid /\ k.configured
  /\ s.used /\ s.outcome # "failed" =>
       s.slot \/ ~ k.available \/ Pending(s.todo, "useSlot")
  /\ s.outcome = "skipped" => ~ s.began.configured
  /\ s.outcome = "consumed" => s.used
  /\ s.outcome # "running" => s.todo = <<>>

(* What was wrong in the beginning is still wrong, and still to be asked for.   *)
Withheld(s, k) ==
  \/ k.revoked /\ Pending(s.todo, "credentialRevoked")
  \/ k.subject = "revoked" /\ Pending(s.todo, "subjectRevoked")
  \/ k.anchor = "untimely" /\ Pending(s.todo, "anchor")
  \/ /\ ~ k.available /\ ~ s.slot /\ Pending(s.todo, "available")
     /\ s.configured \/ Preceded(s.todo, "useRecord", "available")

Unearned(s, k) ==
  \/ k.over /\ k.subject # "none" /\ ~ k.allowed /\ Pending(s.todo, "allowed")
  \/ k.over /\ ~ k.signed /\ Pending(s.todo, "signed")

Judging(s) == s.ok /\ ~ s.valid /\ Pending(s.todo, "verdict")

Just(s, k) ==
  /\ Judging(s) =>
       /\ s.began.withdrawn => Withheld(s, k)
       /\ s.began.unentitled => Unearned(s, k)
       /\ s.began.configured => s.configured \/ Pending(s.todo, "useRecord")
  /\ s.valid =>
       /\ ~ s.began.withdrawn /\ ~ s.began.unentitled
       /\ s.began.configured => s.configured

Sound(s, k) == Ahead(s, k) /\ Noted(s, k) /\ Just(s, k)

(* The registry moves on: nothing that a session relies on is lost.             *)
LEMMA SoundLater ==
  ASSUME NEW s, NEW k, NEW l, Sound(s, k), Later(k, l)
  PROVE  Sound(s, l)
<1>1. Ahead(s, l)
  BY DEF Sound, Ahead, Asking, Later
<1>2. Noted(s, l)
  BY DEF Sound, Noted, Later
<1>3. Withheld(s, k) => Withheld(s, l)
  BY DEF Withheld, Later
<1>4. Unearned(s, k) => Unearned(s, l)
  BY DEF Unearned, Later
<1>5. Just(s, l)
  BY <1>3, <1>4 DEF Sound, Just
<1> QED
  BY <1>1, <1>2, <1>5 DEF Sound

(* A session that only notices that something moved.                            *)
LEMMA SoundNotices ==
  ASSUME NEW s \in Sessions, NEW k, Sound(s, k), NEW b \in BOOLEAN
  PROVE  /\ [s EXCEPT !.steady = b] \in Sessions
         /\ Sound([s EXCEPT !.steady = b], k)
<1> DEFINE t == [s EXCEPT !.steady = b]
<1>1. /\ t \in Sessions
      /\ t.program = s.program /\ t.outcome = s.outcome /\ t.todo = s.todo /\ t.ok = s.ok
      /\ t.valid = s.valid /\ t.configured = s.configured /\ t.slot = s.slot
      /\ t.refused = s.refused /\ t.used = s.used /\ t.began = s.began
  BY DEF Sessions
<1> HIDE DEF t
<1>2. Sound(t, k)
  BY <1>1 DEF Sound, Ahead, Asking, Revoking, Noted, Just, Judging, Withheld, Unearned
<1> QED
  BY <1>1, <1>2 DEF t

(* A session that ends, or is idle: it has nothing left to ask.                 *)
LEMMA SoundIdle ==
  /\ Idle \in Sessions
  /\ \A k \in Views : Sound(Idle, k)
<1>1. Idle \in Sessions
  BY DEF Idle, Sessions, Outcome, Began, Nothing
<1>2. /\ Idle.todo = <<>> /\ Idle.outcome = "idle" /\ Idle.program = "none"
      /\ ~ Idle.ok /\ ~ Idle.valid /\ ~ Idle.configured /\ ~ Idle.slot /\ ~ Idle.refused
      /\ ~ Idle.used /\ Idle.began = Nothing
      /\ ~ Nothing.withdrawn /\ ~ Nothing.unentitled /\ ~ Nothing.configured
  BY DEF Idle, Nothing
<1>3. <<>> \in Seq(Reads \cup {"verdict"}) /\ Len(<<>>) = 0
  OBVIOUS
<1>4. /\ \A program : Linked(<<>>, program)
      /\ VerdictLast(<<>>) /\ Preceded(<<>>, "useSlot", "available")
  BY <1>3 DEF Linked, VerdictLast, Preceded
<1>5. \A k : Asking(Idle, k)
  BY <1>2, <1>3, <1>4 DEF Asking
<1> QED
  BY <1>1, <1>2, <1>5 DEF Sound, Ahead, Noted, Just, Judging

LEMMA SoundEnded ==
  ASSUME NEW s \in Sessions, NEW k, Sound(s, k),
         NEW outcome \in {"failed", "invalid", "valid", "skipped", "consumed", "revoked"},
         outcome = "skipped" => ~ s.began.configured,
         outcome = "consumed" => s.used,
         outcome # "failed" /\ s.used => s.slot \/ ~ k.available
  PROVE  /\ [s EXCEPT !.outcome = outcome, !.todo = <<>>] \in Sessions
         /\ Sound([s EXCEPT !.outcome = outcome, !.todo = <<>>], k)
<1> DEFINE t == [s EXCEPT !.outcome = outcome, !.todo = <<>>]
<1>1. /\ t \in Sessions
      /\ t.program = s.program /\ t.outcome = outcome /\ t.todo = <<>> /\ t.ok = s.ok
      /\ t.valid = s.valid /\ t.configured = s.configured /\ t.slot = s.slot
      /\ t.refused = s.refused /\ t.used = s.used /\ t.began = s.began
  <2>1. <<>> \in Seq(Item)
    OBVIOUS
  <2> QED BY <2>1 DEF Sessions, Outcome
<1> HIDE DEF t
<1>2. <<>> \in Seq(Reads \cup {"verdict"}) /\ Len(<<>>) = 0
  OBVIOUS
<1>3. /\ Linked(<<>>, t.program)
      /\ VerdictLast(<<>>) /\ Preceded(<<>>, "useSlot", "available")
      /\ ~ Pending(<<>>, "verdict")
  BY <1>2 DEF Linked, VerdictLast, Preceded, Pending
<1>4. Ahead(t, k)
  BY <1>1, <1>2, <1>3 DEF Ahead, Asking, Rests
<1>5. Noted(t, k)
  BY <1>1 DEF Sound, Noted
<1>6. Just(t, k)
  BY <1>1, <1>3 DEF Sound, Just, Judging
<1> QED
  BY <1>1, <1>4, <1>5, <1>6 DEF Sound, t

(* One read before the verdict drops the first n items of the todo.             *)
Asked(s, n, x) == \E i \in 1 .. n : i <= Len(s.todo) /\ s.todo[i] = x

LEMMA AskedStays ==
  ASSUME NEW s, NEW S, s.todo \in Seq(S), NEW n \in Nat \ {0},
         NEW r, r = SubSeq(s.todo, n + 1, Len(s.todo))
  PROVE  /\ r \in Seq(S)
         /\ \A x : Pending(r, x) => Pending(s.todo, x)
         /\ \A x : ~ Asked(s, n, x) /\ Pending(s.todo, x) => Pending(r, x)
         /\ \A x, y : ~ Asked(s, n, x) /\ Preceded(s.todo, x, y) => Preceded(r, x, y)
         /\ \A program : Linked(s.todo, program) => Linked(r, program)
         /\ VerdictLast(s.todo) => VerdictLast(r)
         /\ \A model : ByModel(s.todo, model) => ByModel(r, model)
         /\ Coupled(s.todo) /\ (n <= Len(s.todo) => s.todo[n] # "anchored") => Coupled(r)
<1> DEFINE q == s.todo
<1>1. \A x : ~ Asked(s, n, x) => \A i \in 1 .. n : i <= Len(q) => q[i] # x
  BY DEF Asked
<1>2. q \in Seq(S) /\ r = SubSeq(q, n + 1, Len(q))
  OBVIOUS
<1> HIDE DEF q
<1>3. r \in Seq(S)
  BY <1>2, Dropped
<1>4. ASSUME NEW program
      PROVE
        /\ \A x : Pending(r, x) => Pending(q, x)
        /\ \A x : (\A i \in 1 .. n : i <= Len(q) => q[i] # x) /\ Pending(q, x) => Pending(r, x)
        /\ \A x, y : (\A i \in 1 .. n : i <= Len(q) => q[i] # x) /\ Preceded(q, x, y)
                       => Preceded(r, x, y)
        /\ Linked(q, program) => Linked(r, program)
        /\ VerdictLast(q) => VerdictLast(r)
        /\ \A model : ByModel(q, model) => ByModel(r, model)
        /\ Coupled(q) /\ (n <= Len(q) => q[n] # "anchored") => Coupled(r)
  BY <1>2, DroppedStays, Zenon
<1> QED
  BY <1>1, <1>3, <1>4 DEF q

LEMMA SoundRead ==
  ASSUME NEW k \in Views, NEW s \in Sessions, Sound(s, k), ~ s.valid, ~ Revoking(s),
         s.outcome = "running",
         NEW n \in Nat \ {0}, NEW t \in Sessions,
         t.todo = SubSeq(s.todo, n + 1, Len(s.todo)),
         t.ok => s.ok, ~ t.valid, t.program = s.program, t.began = s.began, t.used = s.used,
         t.outcome = "running",
         t.slot \in {s.slot, k.available}, t.configured \in {s.configured, k.configured},
         t.refused => t.configured /\ ~ t.slot /\ ~ k.available,
         ~ Asked(s, n, "verdict"),
         Asked(s, n, "useSlot") => t.slot = k.available,
         Asked(s, n, "useRecord") => t.configured = k.configured,
         t.ok /\ Asked(s, n, "credentialRevoked") => ~ k.revoked,
         t.ok /\ Asked(s, n, "subjectRevoked") => k.subject # "revoked",
         t.ok /\ Asked(s, n, "anchor") => k.anchor # "untimely",
         t.ok /\ Asked(s, n, "available") =>
           /\ n = 1 /\ t.slot = s.slot /\ t.configured = s.configured
           /\ ~ t.configured \/ t.slot,
         t.ok /\ Asked(s, n, "allowed") => k.allowed,
         t.ok /\ Asked(s, n, "signed") => k.signed
  PROVE  Sound(t, k)
<1> DEFINE q == s.todo
           r == t.todo
<1>1. /\ Asking(s, k) /\ Noted(s, k) /\ Just(s, k)
      /\ q \in Seq(Reads \cup {"verdict"}) /\ Len(q) \in Nat
  <2>1. Asking(s, k) /\ Noted(s, k) /\ Just(s, k)
    BY DEF Sound, Ahead
  <2> QED BY <2>1, LenProperties DEF Asking
<1>2. /\ r \in Seq(Reads \cup {"verdict"})
      /\ \A x : Pending(r, x) => Pending(q, x)
      /\ \A x : ~ Asked(s, n, x) /\ Pending(q, x) => Pending(r, x)
      /\ \A x, y : ~ Asked(s, n, x) /\ Preceded(q, x, y) => Preceded(r, x, y)
      /\ Linked(q, s.program) => Linked(r, s.program)
      /\ VerdictLast(q) => VerdictLast(r)
  <2>1. r = SubSeq(q, n + 1, Len(q))
    OBVIOUS
  <2> QED BY <1>1, <2>1, AskedStays
<1> HIDE DEF q, r
<1>3. k.available \in BOOLEAN /\ k.configured \in BOOLEAN /\ (~ k.available => k.configured)
  BY DEF Views
<1>4. /\ s.slot \in BOOLEAN /\ s.configured \in BOOLEAN
      /\ t.slot \in BOOLEAN /\ t.configured \in BOOLEAN
  BY DEF Sessions
<1>5. Ahead(t, k)
  <2>1. Preceded(q, "useSlot", "available") \/ s.slot \/ ~ k.available
    BY <1>1 DEF Asking, q
  <2>2. Preceded(r, "useSlot", "available") \/ t.slot \/ ~ k.available
    BY <1>2, <1>3, <1>4, <2>1
  <2>3. Linked(q, s.program) /\ VerdictLast(q) /\ Pending(q, "verdict")
    BY <1>1 DEF Asking, q
  <2> QED BY <1>2, <2>2, <2>3 DEF Ahead, Asking, r
<1>6. Noted(t, k)
  <2>1. ~ s.used
    BY <1>1 DEF Noted
  <2> QED BY <1>1, <1>4, <2>1 DEF Noted
<1>7. Judging(t) => Judging(s)
  BY <1>2 DEF Judging, q, r
<1>8. ASSUME Judging(t), s.began.withdrawn PROVE Withheld(t, k)
  <2>1. Withheld(s, k) /\ t.ok
    BY <1>1, <1>7, <1>8 DEF Just, Judging
  <2>2. CASE k.revoked /\ Pending(q, "credentialRevoked")
    BY <1>2, <2>1, <2>2 DEF Withheld, r
  <2>3. CASE k.subject = "revoked" /\ Pending(q, "subjectRevoked")
    BY <1>2, <2>1, <2>3 DEF Withheld, r
  <2>4. CASE k.anchor = "untimely" /\ Pending(q, "anchor")
    BY <1>2, <2>1, <2>4 DEF Withheld, r
  <2>5. CASE /\ ~ k.available /\ ~ s.slot /\ Pending(q, "available")
             /\ s.configured \/ Preceded(q, "useRecord", "available")
    <3>1. ~ t.slot /\ (s.configured => t.configured)
      BY <1>1, <1>3, <1>4, <2>5 DEF Noted
    <3>2. ~ Asked(s, n, "available")
      <4> SUFFICES ASSUME Asked(s, n, "available") PROVE FALSE
        OBVIOUS
      <4>1. n = 1 /\ ~ s.configured
        BY <1>4, <2>1, <3>1
      <4>2. 1 <= Len(q) /\ q[1] = "available"
        BY <1>1, <4>1 DEF Asked, q
      <4>3. ~ Preceded(q, "useRecord", "available")
        BY <1>1, <4>2 DEF Preceded
      <4> QED BY <2>5, <4>1, <4>3
    <3>3. t.configured \/ Preceded(r, "useRecord", "available")
      BY <1>2, <1>3, <2>5, <3>1
    <3> QED BY <1>2, <2>5, <3>1, <3>2, <3>3 DEF Withheld, r
  <2> QED BY <2>1, <2>2, <2>3, <2>4, <2>5 DEF Withheld, q
<1>9. ASSUME Judging(t), s.began.unentitled PROVE Unearned(t, k)
  <2>1. Unearned(s, k) /\ t.ok
    BY <1>1, <1>7, <1>9 DEF Just, Judging
  <2>2. CASE k.over /\ k.subject # "none" /\ ~ k.allowed /\ Pending(q, "allowed")
    BY <1>2, <2>1, <2>2 DEF Unearned, r
  <2>3. CASE k.over /\ ~ k.signed /\ Pending(q, "signed")
    BY <1>2, <2>1, <2>3 DEF Unearned, r
  <2> QED BY <2>1, <2>2, <2>3 DEF Unearned, q
<1>10. ASSUME Judging(t), s.began.configured
       PROVE  t.configured \/ Pending(r, "useRecord")
  <2>1. s.configured \/ Pending(q, "useRecord")
    BY <1>1, <1>7, <1>10 DEF Just, q
  <2>2. k.configured
    BY <1>1, <1>10 DEF Noted
  <2> QED BY <1>2, <1>4, <2>1, <2>2
<1>11. Just(t, k)
  BY <1>8, <1>9, <1>10 DEF Just, r
<1> QED
  BY <1>5, <1>6, <1>11 DEF Sound

------------------------------------------------------------------------------
SessionsInv ==
  /\ session \in [Verifier -> Sessions]
  /\ \A v \in Verifier : Sound(session[v], View)

VerifierInv == FactsInv /\ paper \in Paper /\ SessionsInv

LEMMA SameView ==
  ASSUME UNCHANGED factVars
  PROVE  View' = View
  BY DEF factVars, View, Available

LEMMA OwnStep ==
  ASSUME SessionsInv, NEW v \in Verifier, NEW t \in Sessions, UNCHANGED factVars,
         session' = [session EXCEPT ![v] = t], Sound(t, View)
  PROVE  SessionsInv'
<1>1. session' \in [Verifier -> Sessions]
  BY DEF SessionsInv
<1>2. \A w \in Verifier : session'[w] = IF w = v THEN t ELSE session[w]
  BY DEF SessionsInv
<1>3. \A w \in Verifier : Sound(session'[w], View)
  BY <1>2 DEF SessionsInv
<1> QED
  BY <1>1, <1>3, SameView DEF SessionsInv

(* What a session that asks next may be.                                        *)
LEMMA AskingNow ==
  ASSUME VerifierInv, NEW v \in Verifier, NEW item \in Reads, Next1(v, item)
  PROVE  /\ session[v] \in Sessions /\ Sound(session[v], View) /\ View \in Views
         /\ session[v].outcome = "running"
         /\ ~ Revoking(session[v])
         /\ session[v].valid => item \in {"useRecord", "useSlot"}
         /\ \A x : Asked(session[v], 1, x) => x = item
<1>1. /\ session[v] \in Sessions /\ Sound(session[v], View) /\ View \in Views
      /\ session[v].outcome = "running" /\ session[v].todo[1] = item
  BY FactsViews DEF VerifierInv, SessionsInv, Next1, Running
<1>2. ~ Revoking(session[v])
  BY <1>1 DEF Reads, Revoking
<1>3. ASSUME session[v].valid PROVE item \in {"useRecord", "useSlot"}
  <2>1. session[v].todo \in Rests(session[v].used) /\ session[v].todo # <<>>
    BY <1>1, <1>3 DEF Sound, Ahead
  <2>2. session[v].todo[1] \in {"receipt", "useRecord", "useSlot", "report", "shown", "accept",
                               "consume"}
    BY <2>1 DEF Rests
  <2> QED BY <1>1, <2>2 DEF Reads
<1>4. \A x : Asked(session[v], 1, x) => x = item
  BY <1>1 DEF Asked
<1> QED
  BY <1>1, <1>2, <1>3, <1>4

LEMMA AnswerStep ==
  ASSUME VerifierInv, NEW v \in Verifier, NEW item \in Reads, Next1(v, item),
         ~ session[v].valid,
         NEW n \in Nat \ {0}, NEW check \in BOOLEAN, Answer(v, check, n),
         ~ Asked(session[v], n, "verdict"), ~ Asked(session[v], n, "useSlot"),
         ~ Asked(session[v], n, "useRecord"), ~ Asked(session[v], n, "available"),
         check /\ Asked(session[v], n, "credentialRevoked") => ~ revoked,
         check /\ Asked(session[v], n, "subjectRevoked") => subject # "revoked",
         check /\ Asked(session[v], n, "anchor") => anchor # "untimely",
         check /\ Asked(session[v], n, "allowed") => allowed,
         check /\ Asked(session[v], n, "signed") => signed
  PROVE  VerifierInv'
<1> DEFINE s == session[v]
           q == SubSeq(s.todo, n + 1, Len(s.todo))
           t == [s EXCEPT !.ok = s.ok /\ check, !.todo = q]
           k == View
<1>1. /\ s \in Sessions /\ Sound(s, k) /\ k \in Views /\ s.outcome = "running"
      /\ ~ Revoking(s) /\ ~ s.valid
  BY AskingNow
<1>2. q \in Seq(Item)
  <2>1. s.todo \in Seq(Item)
    BY <1>1 DEF Sessions
  <2> QED BY <2>1, Dropped
<1>3. UNCHANGED factVars /\ paper' = paper /\ session' = [session EXCEPT ![v] = t]
  BY DEF Answer, Rest
<1>4. /\ k.revoked = revoked /\ k.subject = subject /\ k.anchor = anchor
      /\ k.allowed = allowed /\ k.signed = signed
  BY DEF View
<1> HIDE DEF q, k
<1>5. /\ t \in Sessions
      /\ t.todo = q /\ (t.ok => s.ok /\ check) /\ ~ t.valid /\ t.program = s.program
      /\ t.began = s.began /\ t.used = s.used /\ t.outcome = "running"
      /\ t.slot = s.slot /\ t.configured = s.configured /\ t.refused = s.refused
  BY <1>1, <1>2 DEF Sessions
<1>6. t.refused => t.configured /\ ~ t.slot /\ ~ k.available
  BY <1>1, <1>5 DEF Sound, Noted
<1> HIDE DEF t, s
<1>7. Sound(t, k)
  BY <1>1, <1>4, <1>5, <1>6, SoundRead DEF q, s
<1>8. SessionsInv'
  BY <1>3, <1>5, <1>7, OwnStep DEF VerifierInv, k
<1>9. FactsInv'
  BY <1>3, FactsLater DEF VerifierInv
<1> QED
  BY <1>3, <1>8, <1>9 DEF VerifierInv

(* The answers that join the verdict.                                           *)
LEMMA SingleAnswers ==
  ASSUME VerifierInv, NEW v \in Verifier,
         \/ ReadAnchor(v) \/ ReadSubjectRevoked(v) \/ ReadAllowed(v) \/ ReadCredentialRevoked(v)
         \/ ReadSigned(v) \/ ReadDelegated(v) \/ ReadIssuer(v) \/ ReadTrusted(v)
  PROVE  VerifierInv'
<1>1. /\ allowed \in BOOLEAN /\ signed \in BOOLEAN /\ revoked \in BOOLEAN
      /\ delegated \in BOOLEAN /\ trusted \in BOOLEAN
  BY DEF VerifierInv, FactsInv, FactsTypeOK
<1>2. PICK item \in Reads, check \in BOOLEAN :
        /\ Next1(v, item) /\ Answer(v, check, 1)
        /\ item \notin {"useSlot", "useRecord", "available"}
        /\ item = "anchor" => (check <=> anchor = "timely")
        /\ item = "subjectRevoked" => (check <=> subject # "revoked")
        /\ item = "allowed" => (check <=> allowed)
        /\ item = "credentialRevoked" => (check <=> ~ revoked)
        /\ item = "signed" => (check <=> signed)
  <2> USE DEF Reads
  <2>1. CASE ReadAnchor(v)
    <3>1. Next1(v, "anchor") /\ Answer(v, anchor = "timely", 1) /\ (anchor = "timely") \in BOOLEAN
      BY <2>1 DEF ReadAnchor
    <3> QED BY <3>1
  <2>2. CASE ReadSubjectRevoked(v)
    <3>1. /\ Next1(v, "subjectRevoked") /\ Answer(v, subject # "revoked", 1)
          /\ (subject # "revoked") \in BOOLEAN
      BY <2>2 DEF ReadSubjectRevoked
    <3> QED BY <3>1
  <2>3. CASE ReadAllowed(v)
    BY <1>1, <2>3 DEF ReadAllowed
  <2>4. CASE ReadCredentialRevoked(v)
    <3>1. /\ Next1(v, "credentialRevoked") /\ Answer(v, ~ revoked, 1)
          /\ (~ revoked) \in BOOLEAN
      BY <1>1, <2>4 DEF ReadCredentialRevoked
    <3> QED BY <3>1
  <2>5. CASE ReadSigned(v)
    BY <1>1, <2>5 DEF ReadSigned
  <2>6. CASE ReadDelegated(v)
    BY <1>1, <2>6 DEF ReadDelegated
  <2>7. CASE ReadIssuer(v)
    BY <2>7 DEF ReadIssuer
  <2>8. CASE ReadTrusted(v)
    BY <1>1, <2>8 DEF ReadTrusted
  <2> QED BY <2>1, <2>2, <2>3, <2>4, <2>5, <2>6, <2>7, <2>8
<1>3. ~ session[v].valid /\ \A x : Asked(session[v], 1, x) => x = item
  BY <1>2, AskingNow
<1>4. /\ ~ Asked(session[v], 1, "verdict") /\ ~ Asked(session[v], 1, "useSlot")
      /\ ~ Asked(session[v], 1, "useRecord") /\ ~ Asked(session[v], 1, "available")
  BY <1>2, <1>3 DEF Reads
<1>5. /\ check /\ Asked(session[v], 1, "credentialRevoked") => ~ revoked
      /\ check /\ Asked(session[v], 1, "subjectRevoked") => subject # "revoked"
      /\ check /\ Asked(session[v], 1, "anchor") => anchor # "untimely"
      /\ check /\ Asked(session[v], 1, "allowed") => allowed
      /\ check /\ Asked(session[v], 1, "signed") => signed
  BY <1>2, <1>3
<1> QED
  BY <1>2, <1>3, <1>4, <1>5, AnswerStep

LEMMA AnchoredAnswer ==
  ASSUME VerifierInv, NEW v \in Verifier, ReadAnchored(v)
  PROVE  VerifierInv'
<1> DEFINE s == session[v]
           n == IF anchor = "none" THEN 2 ELSE 1
<1>1. Next1(v, "anchored") /\ Answer(v, TRUE, n) /\ "anchored" \in Reads /\ n \in {1, 2}
  BY DEF ReadAnchored, Reads
<1>2. ~ Revoking(s) /\ ~ s.valid /\ Sound(s, View)
  BY <1>1, AskingNow
<1>3. /\ s.todo \in Seq(Reads \cup {"verdict"}) /\ s.todo[1] = "anchored"
      /\ Linked(s.todo, s.program)
  BY <1>1, <1>2 DEF Sound, Ahead, Asking, Next1
<1>4. 1 <= Len(s.todo) => s.todo[2] = "anchor"
  <2>1. Len(s.todo) \in Nat
    BY <1>3, LenProperties
  <2> QED BY <1>3, <2>1 DEF Linked
<1>5. \A x : Asked(s, n, x) => x = "anchored" \/ (x = "anchor" /\ anchor = "none")
  BY <1>1, <1>3, <1>4 DEF Asked
<1> HIDE DEF n
<1>6. /\ ~ Asked(session[v], n, "verdict") /\ ~ Asked(session[v], n, "useSlot")
      /\ ~ Asked(session[v], n, "useRecord") /\ ~ Asked(session[v], n, "available")
      /\ ~ Asked(session[v], n, "credentialRevoked") /\ ~ Asked(session[v], n, "signed")
      /\ ~ Asked(session[v], n, "subjectRevoked") /\ ~ Asked(session[v], n, "allowed")
      /\ Asked(session[v], n, "anchor") => anchor # "untimely"
  BY <1>5
<1>7. n \in Nat \ {0} /\ TRUE \in BOOLEAN
  BY <1>1
<1> QED
  BY <1>1, <1>2, <1>6, <1>7, AnswerStep

LEMMA ExistsAnswer ==
  ASSUME VerifierInv, NEW v \in Verifier, Next1(v, "exists"),
         \/ Answer(v, TRUE, 1)
         \/ session[v].program = "cli" /\ Answer(v, FALSE, 3)
  PROVE  VerifierInv'
<1> DEFINE s == session[v]
<1>1. "exists" \in Reads
  BY DEF Reads
<1>2. /\ ~ Revoking(s) /\ ~ s.valid /\ Sound(s, View)
      /\ \A x : Asked(s, 1, x) => x = "exists"
  BY <1>1, AskingNow
<1>3. CASE Answer(v, TRUE, 1)
  <2>1. /\ ~ Asked(session[v], 1, "verdict") /\ ~ Asked(session[v], 1, "useSlot")
        /\ ~ Asked(session[v], 1, "useRecord") /\ ~ Asked(session[v], 1, "available")
        /\ ~ Asked(session[v], 1, "credentialRevoked") /\ ~ Asked(session[v], 1, "signed")
        /\ ~ Asked(session[v], 1, "subjectRevoked") /\ ~ Asked(session[v], 1, "allowed")
        /\ ~ Asked(session[v], 1, "anchor")
    BY <1>2
  <2>2. 1 \in Nat \ {0} /\ TRUE \in BOOLEAN
    OBVIOUS
  <2> QED BY <1>1, <1>2, <1>3, <2>1, <2>2, AnswerStep
<1>4. CASE session[v].program = "cli" /\ Answer(v, FALSE, 3)
  <2>1. /\ s.todo \in Seq(Reads \cup {"verdict"}) /\ s.todo[1] = "exists"
        /\ Linked(s.todo, "cli") /\ Len(s.todo) \in Nat
    BY <1>2, <1>4, LenProperties DEF Sound, Ahead, Asking, Next1
  <2>2. 1 <= Len(s.todo) => s.todo[2] = "subjectRevoked" /\ s.todo[3] = "allowed"
    BY <2>1 DEF Linked
  <2>3. \A x : Asked(s, 3, x) => x \in {"exists", "subjectRevoked", "allowed"}
    BY <2>1, <2>2 DEF Asked
  <2>4. /\ ~ Asked(session[v], 3, "verdict") /\ ~ Asked(session[v], 3, "useSlot")
        /\ ~ Asked(session[v], 3, "useRecord") /\ ~ Asked(session[v], 3, "available")
    BY <2>3
  <2>5. 3 \in Nat \ {0} /\ FALSE \in BOOLEAN
    OBVIOUS
  <2> QED
    BY <1>1, <1>2, <1>4, <2>4, <2>5, AnswerStep
<1> QED
  BY <1>3, <1>4

(* The answers about the uses, before the verdict.                              *)
LEMMA UseAnswers ==
  ASSUME VerifierInv, NEW v \in Verifier, ~ session[v].valid,
         ReadUseRecord(v) \/ ReadUseSlot(v) \/ CheckAvailable(v)
  PROVE  VerifierInv'
<1> DEFINE s == session[v]
           q == SubSeq(s.todo, 1 + 1, Len(s.todo))
           k == View
<1>1. PICK item \in {"useRecord", "useSlot", "available"} : Next1(v, item) /\ item \in Reads
  BY DEF ReadUseRecord, ReadUseSlot, CheckAvailable, Reads
<1>2. /\ s \in Sessions /\ Sound(s, k) /\ k \in Views /\ s.outcome = "running"
      /\ ~ Revoking(s)
      /\ \A x : Asked(s, 1, x) => x = item
  BY <1>1, AskingNow
<1>3. q \in Seq(Item)
  <2>1. s.todo \in Seq(Item)
    BY <1>2 DEF Sessions
  <2> QED BY <2>1, Dropped
<1>4. UNCHANGED factVars /\ paper' = paper
  BY DEF ReadUseRecord, ReadUseSlot, CheckAvailable
<1>5. k.configured = consumption.configured /\ k.available = Available /\ k.available \in BOOLEAN
      /\ k.configured \in BOOLEAN
  BY <1>2 DEF View, Views
<1>6. /\ s.slot \in BOOLEAN /\ s.configured \in BOOLEAN
      /\ s.refused => s.configured /\ ~ s.slot /\ ~ k.available
      /\ s.configured => k.configured
      /\ Preceded(s.todo, "useSlot", "available") \/ s.slot \/ ~ k.available
  BY <1>2 DEF Sessions, Sound, Noted, Ahead, Asking
<1>7. FactsInv'
  BY <1>4, FactsLater DEF VerifierInv
<1> SUFFICES SessionsInv'
  BY <1>4, <1>7 DEF VerifierInv
<1>8. CASE item = "useRecord"
  <2> DEFINE t == [s EXCEPT !.configured = k.configured, !.todo = q]
  <2>1. session' = [session EXCEPT ![v] = t]
    BY <1>1, <1>5, <1>8 DEF ReadUseRecord, ReadUseSlot, CheckAvailable, Next1, Rest
  <2> HIDE DEF q, k
  <2>2. /\ t \in Sessions
        /\ t.todo = q /\ t.ok = s.ok /\ ~ t.valid /\ t.program = s.program
        /\ t.began = s.began /\ t.used = s.used /\ t.outcome = "running"
        /\ t.slot = s.slot /\ t.configured = k.configured /\ t.refused = s.refused
    BY <1>2, <1>3, <1>5 DEF Sessions
  <2> HIDE DEF t, s
  <2>3. /\ ~ Asked(s, 1, "verdict") /\ ~ Asked(s, 1, "useSlot")
        /\ ~ Asked(s, 1, "credentialRevoked") /\ ~ Asked(s, 1, "subjectRevoked")
        /\ ~ Asked(s, 1, "anchor") /\ ~ Asked(s, 1, "available") /\ ~ Asked(s, 1, "allowed")
        /\ ~ Asked(s, 1, "signed")
    BY <1>2, <1>8
  <2>4. t.refused => t.configured /\ ~ t.slot /\ ~ k.available
    BY <1>6, <2>2
  <2>5. 1 \in Nat \ {0} /\ ~ s.valid
    BY DEF s
  <2>6. Sound(t, k)
    BY <1>2, <2>2, <2>3, <2>4, <2>5, SoundRead DEF q
  <2> QED
    BY <1>4, <2>1, <2>2, <2>6, OwnStep DEF VerifierInv, k
<1>9. CASE item = "useSlot"
  <2> DEFINE t == [s EXCEPT !.slot = k.available, !.todo = q]
  <2>1. session' = [session EXCEPT ![v] = t]
    BY <1>1, <1>5, <1>9 DEF ReadUseRecord, ReadUseSlot, CheckAvailable, Next1, Rest
  <2> HIDE DEF q, k
  <2>2. /\ t \in Sessions
        /\ t.todo = q /\ t.ok = s.ok /\ ~ t.valid /\ t.program = s.program
        /\ t.began = s.began /\ t.used = s.used /\ t.outcome = "running"
        /\ t.slot = k.available /\ t.configured = s.configured /\ t.refused = s.refused
    BY <1>2, <1>3, <1>5 DEF Sessions
  <2> HIDE DEF t, s
  <2>3. /\ ~ Asked(s, 1, "verdict") /\ ~ Asked(s, 1, "useRecord")
        /\ ~ Asked(s, 1, "credentialRevoked") /\ ~ Asked(s, 1, "subjectRevoked")
        /\ ~ Asked(s, 1, "anchor") /\ ~ Asked(s, 1, "available") /\ ~ Asked(s, 1, "allowed")
        /\ ~ Asked(s, 1, "signed")
    BY <1>2, <1>9
  <2>4. t.refused => t.configured /\ ~ t.slot /\ ~ k.available
    BY <1>6, <2>2
  <2>5. 1 \in Nat \ {0} /\ ~ s.valid
    BY DEF s
  <2>6. Sound(t, k)
    BY <1>2, <2>2, <2>3, <2>4, <2>5, SoundRead DEF q
  <2> QED
    BY <1>4, <2>1, <2>2, <2>6, OwnStep DEF VerifierInv, k
<1>10. CASE item = "available"
  <2> DEFINE free == ~ s.configured \/ s.slot
             t == [s EXCEPT !.ok = s.ok /\ free, !.refused = ~ free, !.todo = q]
  <2>1. CheckAvailable(v) /\ s.todo[1] = "available"
    BY <1>1, <1>10 DEF ReadUseRecord, ReadUseSlot, Next1
  <2>2. session' = [session EXCEPT ![v] = t]
    BY <2>1 DEF CheckAvailable, Rest
  <2>3. s.slot \/ ~ k.available
    <3>1. s.todo \in Seq(Reads \cup {"verdict"}) /\ Pending(s.todo, "verdict")
      BY <1>2 DEF Sound, Ahead, Asking
    <3>2. 1 <= Len(s.todo)
      BY <3>1, LenProperties DEF Pending
    <3>3. Len(s.todo) \in Nat
      BY <3>1, LenProperties
    <3>4. ~ Preceded(s.todo, "useSlot", "available")
      BY <2>1, <3>2, <3>3 DEF Preceded
    <3> QED BY <1>6, <3>4
  <2>4. free \in BOOLEAN
    BY <1>6
  <2> HIDE DEF q, k
  <2>5. /\ t \in Sessions
        /\ t.todo = q /\ (t.ok => s.ok /\ free) /\ ~ t.valid /\ t.program = s.program
        /\ t.began = s.began /\ t.used = s.used /\ t.outcome = "running"
        /\ t.slot = s.slot /\ t.configured = s.configured /\ (t.refused => ~ free)
    BY <1>2, <1>3, <2>4 DEF Sessions
  <2>6. t.refused => t.configured /\ ~ t.slot /\ ~ k.available
    BY <2>3, <2>5
  <2>7. t.ok => ~ t.configured \/ t.slot
    BY <2>5
  <2> HIDE DEF t, s, free
  <2>8. /\ ~ Asked(s, 1, "verdict") /\ ~ Asked(s, 1, "useRecord") /\ ~ Asked(s, 1, "useSlot")
        /\ ~ Asked(s, 1, "credentialRevoked") /\ ~ Asked(s, 1, "subjectRevoked")
        /\ ~ Asked(s, 1, "anchor") /\ ~ Asked(s, 1, "allowed") /\ ~ Asked(s, 1, "signed")
    BY <1>2, <1>10
  <2>9. 1 \in Nat \ {0} /\ ~ s.valid
    BY DEF s
  <2>10. Sound(t, k)
    BY <1>2, <2>5, <2>6, <2>7, <2>8, <2>9, SoundRead DEF q
  <2> QED
    BY <1>4, <2>2, <2>5, <2>10, OwnStep DEF VerifierInv, k
<1> QED
  BY <1>8, <1>9, <1>10

------------------------------------------------------------------------------
(* After the verdict: what is left when the first item is done.                 *)
LEMMA FirstOfFour ==
  ASSUME NEW a, NEW b, NEW c, NEW d, NEW q, q = <<a, b, c, d>>
  PROVE  SubSeq(q, 1 + 1, Len(q)) = <<b, c, d>>
<1> DEFINE S == {a, b, c, d}
           r == SubSeq(q, 1 + 1, Len(q))
<1>1. q \in Seq(S) /\ Len(q) = 4 /\ q[2] = b /\ q[3] = c /\ q[4] = d
  OBVIOUS
<1>2. <<b, c, d>> \in Seq(S) /\ Len(<<b, c, d>>) = 3
  OBVIOUS
<1> HIDE DEF S
<1>3. r \in Seq(S) /\ Len(r) = 3 /\ \A i \in 1 .. 3 : r[i] = q[i + 1]
  <2>1. 1 \in Nat \ {0}
    OBVIOUS
  <2> QED BY <1>1, <2>1, Dropped
<1> HIDE DEF r
<1>4. r[1] = b /\ r[2] = c /\ r[3] = d
  BY <1>1, <1>3
<1>5. r = <<b, c, d>>
  BY <1>2, <1>3, <1>4, SeqEqual
<1> QED
  BY <1>5 DEF r

LEMMA FirstOfThree ==
  ASSUME NEW a, NEW b, NEW c, NEW q, q = <<a, b, c>>
  PROVE  SubSeq(q, 1 + 1, Len(q)) = <<b, c>>
<1> DEFINE S == {a, b, c}
           r == SubSeq(q, 1 + 1, Len(q))
<1>1. q \in Seq(S) /\ Len(q) = 3 /\ q[2] = b /\ q[3] = c
  OBVIOUS
<1>2. <<b, c>> \in Seq(S) /\ Len(<<b, c>>) = 2
  OBVIOUS
<1> HIDE DEF S
<1>3. r \in Seq(S) /\ Len(r) = 2 /\ \A i \in 1 .. 2 : r[i] = q[i + 1]
  <2>1. 1 \in Nat \ {0}
    OBVIOUS
  <2> QED BY <1>1, <2>1, Dropped
<1> HIDE DEF r
<1>4. r[1] = b /\ r[2] = c
  BY <1>1, <1>3
<1>5. r = <<b, c>>
  BY <1>2, <1>3, <1>4, SeqEqual
<1> QED
  BY <1>5 DEF r

LEMMA FirstOfTwo ==
  ASSUME NEW a, NEW b, NEW q, q = <<a, b>>
  PROVE  SubSeq(q, 1 + 1, Len(q)) = <<b>>
<1> DEFINE S == {a, b}
           r == SubSeq(q, 1 + 1, Len(q))
<1>1. q \in Seq(S) /\ Len(q) = 2 /\ q[2] = b
  OBVIOUS
<1>2. <<b>> \in Seq(S) /\ Len(<<b>>) = 1
  OBVIOUS
<1> HIDE DEF S
<1>3. r \in Seq(S) /\ Len(r) = 1 /\ \A i \in 1 .. 1 : r[i] = q[i + 1]
  <2>1. 1 \in Nat \ {0}
    OBVIOUS
  <2> QED BY <1>1, <2>1, Dropped
<1> HIDE DEF r
<1>4. r[1] = b
  BY <1>1, <1>3
<1>5. r = <<b>>
  BY <1>2, <1>3, <1>4, SeqEqual
<1> QED
  BY <1>5 DEF r

LEMMA Tails ==
  ASSUME NEW q
  PROVE  /\ q = <<"receipt", "useRecord", "useSlot", "shown", "report">> =>
              SubSeq(q, 1 + 1, Len(q)) = <<"useRecord", "useSlot", "shown", "report">>
         /\ q = <<"useRecord", "useSlot", "shown", "report">> =>
              SubSeq(q, 1 + 1, Len(q)) = <<"useSlot", "shown", "report">>
         /\ q = <<"useSlot", "shown", "report">> =>
              SubSeq(q, 1 + 1, Len(q)) = <<"shown", "report">>
         /\ q = <<"shown", "report">> =>
              SubSeq(q, 1 + 1, Len(q)) = <<"report">>
         /\ q = <<"receipt", "useRecord", "useSlot", "report">> =>
              SubSeq(q, 1 + 1, Len(q)) = <<"useRecord", "useSlot", "report">>
         /\ q = <<"useRecord", "useSlot", "report">> =>
              SubSeq(q, 1 + 1, Len(q)) = <<"useSlot", "report">>
         /\ q = <<"useSlot", "report">> =>
              SubSeq(q, 1 + 1, Len(q)) = <<"report">>
         /\ q = <<"shown", "accept">> =>
              SubSeq(q, 1 + 1, Len(q)) = <<"accept">>
         /\ q = <<"shown", "useRecord", "consume">> =>
              SubSeq(q, 1 + 1, Len(q)) = <<"useRecord", "consume">>
         /\ q = <<"useRecord", "consume">> =>
              SubSeq(q, 1 + 1, Len(q)) = <<"consume">>
<1>1. ASSUME q = <<"receipt", "useRecord", "useSlot", "shown", "report">>
      PROVE  SubSeq(q, 1 + 1, Len(q)) = <<"useRecord", "useSlot", "shown", "report">>
  <2> DEFINE r == SubSeq(q, 1 + 1, Len(q))
             l == <<"useRecord", "useSlot", "shown", "report">>
  <2>1. /\ q \in Seq(Item) /\ Len(q) = 5
        /\ q[2] = "useRecord" /\ q[3] = "useSlot" /\ q[4] = "shown" /\ q[5] = "report"
    BY <1>1 DEF Item
  <2>2. /\ l \in Seq(Item) /\ Len(l) = 4
        /\ l[1] = "useRecord" /\ l[2] = "useSlot" /\ l[3] = "shown" /\ l[4] = "report"
    BY DEF Item
  <2>3. r \in Seq(Item) /\ Len(r) = 4 /\ \A i \in 1 .. 4 : r[i] = q[i + 1]
    <3>1. 1 \in Nat \ {0} /\ q \in Seq(Item) /\ Len(q) = 5
      BY <2>1
    <3> HIDE DEF l
    <3>2. /\ r \in Seq(Item)
          /\ Len(r) = IF 1 <= Len(q) THEN Len(q) - 1 ELSE 0
          /\ \A i \in 1 .. Len(r) : r[i] = q[i + 1]
      BY <3>1, Dropped
    <3> HIDE DEF r
    <3> QED BY <3>1, <3>2
  <2> HIDE DEF r, l
  <2>4. r[1] = l[1] /\ r[2] = l[2] /\ r[3] = l[3] /\ r[4] = l[4]
    BY <2>1, <2>2, <2>3
  <2>5. r = l
    BY <2>2, <2>3, <2>4, SeqEqual
  <2> QED BY <2>5 DEF r, l
<1>2. ASSUME q = <<"useRecord", "useSlot", "shown", "report">>
      PROVE  SubSeq(q, 1 + 1, Len(q)) = <<"useSlot", "shown", "report">>
  BY <1>2, FirstOfFour
<1>3. ASSUME q = <<"useSlot", "shown", "report">>
      PROVE  SubSeq(q, 1 + 1, Len(q)) = <<"shown", "report">>
  BY <1>3, FirstOfThree
<1>4. ASSUME q = <<"shown", "report">>
      PROVE  SubSeq(q, 1 + 1, Len(q)) = <<"report">>
  BY <1>4, FirstOfTwo
<1>5. ASSUME q = <<"receipt", "useRecord", "useSlot", "report">>
      PROVE  SubSeq(q, 1 + 1, Len(q)) = <<"useRecord", "useSlot", "report">>
  BY <1>5, FirstOfFour
<1>6. ASSUME q = <<"useRecord", "useSlot", "report">>
      PROVE  SubSeq(q, 1 + 1, Len(q)) = <<"useSlot", "report">>
  BY <1>6, FirstOfThree
<1>7. ASSUME q = <<"useSlot", "report">>
      PROVE  SubSeq(q, 1 + 1, Len(q)) = <<"report">>
  BY <1>7, FirstOfTwo
<1>8. ASSUME q = <<"shown", "accept">>
      PROVE  SubSeq(q, 1 + 1, Len(q)) = <<"accept">>
  BY <1>8, FirstOfTwo
<1>9. ASSUME q = <<"shown", "useRecord", "consume">>
      PROVE  SubSeq(q, 1 + 1, Len(q)) = <<"useRecord", "consume">>
  BY <1>9, FirstOfThree
<1>10. ASSUME q = <<"useRecord", "consume">>
      PROVE  SubSeq(q, 1 + 1, Len(q)) = <<"consume">>
  BY <1>10, FirstOfTwo
<1> QED
  BY <1>1, <1>2, <1>3, <1>4, <1>5, <1>6, <1>7, <1>8, <1>9, <1>10

LEMMA RestGoesOn ==
  ASSUME NEW used \in BOOLEAN, NEW q \in Rests(used), q # <<>>,
         q[1] \in {"receipt", "useRecord", "useSlot", "shown"}
  PROVE  /\ SubSeq(q, 1 + 1, Len(q)) \in Rests(used) \ {<<>>}
         /\ used /\ q[1] \in {"receipt", "useRecord"} =>
              Pending(SubSeq(q, 1 + 1, Len(q)), "useSlot")
         /\ used /\ q[1] = "shown" => ~ Pending(q, "useSlot")
<1> DEFINE r == SubSeq(q, 1 + 1, Len(q))
<1>1. CASE used /\ q = <<"receipt", "useRecord", "useSlot", "shown", "report">>
  <2>1. r = <<"useRecord", "useSlot", "shown", "report">>
    BY <1>1, Tails, Zenon
  <2>2. r = <<"useRecord", "useSlot", "shown", "report">> /\ q[1] = "receipt"
    BY <1>1, <2>1
  <2> HIDE DEF r
  <2>3. r \in Rests(used) /\ r # <<>>
    BY <1>1, <2>2 DEF Rests
  <2>4. Pending(r, "useSlot")
    BY <2>2 DEF Pending
  <2> QED BY <2>2, <2>3, <2>4 DEF r
<1>2. CASE used /\ q = <<"useRecord", "useSlot", "shown", "report">>
  <2>1. r = <<"useSlot", "shown", "report">>
    BY <1>2, Tails, Zenon
  <2>2. r = <<"useSlot", "shown", "report">> /\ q[1] = "useRecord"
    BY <1>2, <2>1
  <2> HIDE DEF r
  <2>3. r \in Rests(used) /\ r # <<>>
    BY <1>2, <2>2 DEF Rests
  <2>4. Pending(r, "useSlot")
    BY <2>2 DEF Pending
  <2> QED BY <2>2, <2>3, <2>4 DEF r
<1>3. CASE used /\ q = <<"useSlot", "shown", "report">>
  <2>1. r = <<"shown", "report">>
    BY <1>3, Tails, Zenon
  <2>2. r = <<"shown", "report">> /\ q[1] = "useSlot"
    BY <1>3, <2>1
  <2> HIDE DEF r
  <2>3. r \in Rests(used) /\ r # <<>>
    BY <1>3, <2>2 DEF Rests
  <2> QED BY <2>2, <2>3 DEF r
<1>4. CASE used /\ q = <<"shown", "report">>
  <2>1. r = <<"report">>
    BY <1>4, Tails, Zenon
  <2>2. r = <<"report">> /\ q[1] = "shown"
    BY <1>4, <2>1
  <2> HIDE DEF r
  <2>3. r \in Rests(used) /\ r # <<>>
    BY <1>4, <2>2 DEF Rests
  <2>4. ~ Pending(q, "useSlot")
    BY <1>4 DEF Pending
  <2> QED BY <2>2, <2>3, <2>4 DEF r
<1>5. CASE used /\ q = <<"receipt", "useRecord", "useSlot", "report">>
  <2>1. r = <<"useRecord", "useSlot", "report">>
    BY <1>5, Tails, Zenon
  <2>2. r = <<"useRecord", "useSlot", "report">> /\ q[1] = "receipt"
    BY <1>5, <2>1
  <2> HIDE DEF r
  <2>3. r \in Rests(used) /\ r # <<>>
    BY <1>5, <2>2 DEF Rests
  <2>4. Pending(r, "useSlot")
    BY <2>2 DEF Pending
  <2> QED BY <2>2, <2>3, <2>4 DEF r
<1>6. CASE used /\ q = <<"useRecord", "useSlot", "report">>
  <2>1. r = <<"useSlot", "report">>
    BY <1>6, Tails, Zenon
  <2>2. r = <<"useSlot", "report">> /\ q[1] = "useRecord"
    BY <1>6, <2>1
  <2> HIDE DEF r
  <2>3. r \in Rests(used) /\ r # <<>>
    BY <1>6, <2>2 DEF Rests
  <2>4. Pending(r, "useSlot")
    BY <2>2 DEF Pending
  <2> QED BY <2>2, <2>3, <2>4 DEF r
<1>7. CASE used /\ q = <<"useSlot", "report">>
  <2>1. r = <<"report">>
    BY <1>7, Tails, Zenon
  <2>2. r = <<"report">> /\ q[1] = "useSlot"
    BY <1>7, <2>1
  <2> HIDE DEF r
  <2>3. r \in Rests(used) /\ r # <<>>
    BY <1>7, <2>2 DEF Rests
  <2> QED BY <2>2, <2>3 DEF r
<1>8. CASE ~ used /\ q = <<"shown", "accept">>
  <2>1. r = <<"accept">>
    BY <1>8, Tails, Zenon
  <2>2. r = <<"accept">> /\ q[1] = "shown"
    BY <1>8, <2>1
  <2> HIDE DEF r
  <2>3. r \in Rests(used) /\ r # <<>>
    BY <1>8, <2>2 DEF Rests
  <2> QED BY <1>8, <2>3 DEF r
<1>9. CASE ~ used /\ q = <<"shown", "useRecord", "consume">>
  <2>1. r = <<"useRecord", "consume">>
    BY <1>9, Tails, Zenon
  <2>2. r = <<"useRecord", "consume">> /\ q[1] = "shown"
    BY <1>9, <2>1
  <2> HIDE DEF r
  <2>3. r \in Rests(used) /\ r # <<>>
    BY <1>9, <2>2 DEF Rests
  <2> QED BY <1>9, <2>3 DEF r
<1>10. CASE ~ used /\ q = <<"useRecord", "consume">>
  <2>1. r = <<"consume">>
    BY <1>10, Tails, Zenon
  <2>2. r = <<"consume">> /\ q[1] = "useRecord"
    BY <1>10, <2>1
  <2> HIDE DEF r
  <2>3. r \in Rests(used) /\ r # <<>>
    BY <1>10, <2>2 DEF Rests
  <2> QED BY <1>10, <2>3 DEF r
<1> HIDE DEF r
<1>11. CASE used
  <2>1. q \in {<<"receipt", "useRecord", "useSlot", "shown", "report">>,
              <<"useRecord", "useSlot", "shown", "report">>, <<"useSlot", "shown", "report">>,
              <<"shown", "report">>,
              <<"receipt", "useRecord", "useSlot", "report">>,
              <<"useRecord", "useSlot", "report">>, <<"useSlot", "report">>}
    <3>1. q # <<"report">>
      OBVIOUS
    <3> QED BY <1>11, <3>1, Zenon DEF Rests
  <2> QED BY <1>1, <1>2, <1>3, <1>4, <1>5, <1>6, <1>7, <1>11, <2>1, Zenon
<1>12. CASE ~ used
  <2>1. q \in {<<"shown", "accept">>, <<"shown", "useRecord", "consume">>,
              <<"useRecord", "consume">>}
    <3>1. q # <<"accept">> /\ q # <<"consume">>
      OBVIOUS
    <3> QED BY <1>12, <3>1, Zenon DEF Rests
  <2> QED BY <1>8, <1>9, <1>10, <1>12, <2>1, Zenon
<1> QED
  BY <1>11, <1>12

(* Who asks or does one of these has a verdict.                                 *)
LEMMA JudgedNow ==
  ASSUME VerifierInv, NEW v \in Verifier, Running(v),
         \/ session[v].valid
         \/ session[v].todo[1] \in {"shown", "accept", "consume", "report"}
         \/ session[v].used
  PROVE  /\ session[v] \in Sessions /\ Sound(session[v], View) /\ View \in Views
         /\ session[v].outcome = "running" /\ session[v].valid
         /\ session[v].todo \in Rests(session[v].used) \ {<<>>}
<1>1. /\ session[v] \in Sessions /\ Sound(session[v], View) /\ View \in Views
      /\ session[v].outcome = "running"
  BY FactsViews DEF VerifierInv, SessionsInv, Running
<1>2. session[v].valid
  <2> SUFFICES ASSUME ~ session[v].valid PROVE FALSE
    OBVIOUS
  <2>1. ~ Revoking(session[v]) /\ ~ session[v].used
    BY <1>1 DEF Revoking, Sound, Noted
  <2>2. session[v].todo \in Seq(Reads \cup {"verdict"}) /\ Pending(session[v].todo, "verdict")
    BY <1>1, <2>1 DEF Sound, Ahead, Asking
  <2>3. 1 \in 1 .. Len(session[v].todo)
    BY <2>2, LenProperties DEF Pending
  <2>4. session[v].todo[1] \in Reads \cup {"verdict"}
    BY <2>2, <2>3, ElementOfSeq
  <2> QED BY <2>1, <2>4 DEF Reads
<1> QED
  BY <1>1, <1>2 DEF Sound, Ahead

LEMMA SoundAfter ==
  ASSUME NEW k \in Views, NEW s \in Sessions, Sound(s, k), s.valid, s.outcome = "running",
         s.todo # <<>>, s.todo[1] \in {"receipt", "useRecord", "useSlot", "shown"},
         NEW t \in Sessions, t.todo = SubSeq(s.todo, 1 + 1, Len(s.todo)),
         t.valid, t.began = s.began, t.used = s.used, t.refused = s.refused,
         t.outcome = "running",
         t.slot \in {s.slot, k.available}, t.configured \in {s.configured, k.configured},
         s.todo[1] = "useSlot" => t.slot = k.available
  PROVE  Sound(t, k)
<1>1. /\ s.used \in BOOLEAN /\ s.slot \in BOOLEAN /\ s.configured \in BOOLEAN
      /\ k.available \in BOOLEAN /\ k.configured \in BOOLEAN
      /\ (~ k.available => k.configured)
  BY DEF Sessions, Views
<1>2. s.todo \in Rests(s.used)
  BY DEF Sound, Ahead
<1>3. /\ t.todo \in Rests(s.used) \ {<<>>}
      /\ s.used /\ s.todo[1] \in {"receipt", "useRecord"} => Pending(t.todo, "useSlot")
      /\ s.used /\ s.todo[1] = "shown" => ~ Pending(s.todo, "useSlot")
  BY <1>1, <1>2, RestGoesOn
<1>4. Ahead(t, k)
  BY <1>3 DEF Ahead
<1>5. Noted(s, k) /\ Just(s, k)
  BY DEF Sound
<1>6. Noted(t, k)
  <2>1. t.configured => k.configured
    BY <1>1, <1>5 DEF Noted
  <2>2. t.refused => t.configured /\ ~ t.slot /\ ~ k.available
    BY <1>1, <1>5 DEF Noted
  <2>3. t.used => t.slot \/ ~ k.available \/ Pending(t.todo, "useSlot")
    BY <1>1, <1>3, <1>5 DEF Noted
  <2> QED BY <1>5, <2>1, <2>2, <2>3 DEF Noted
<1>7. Just(t, k)
  <2>1. t.began.configured => t.configured
    BY <1>1, <1>5 DEF Just, Noted
  <2> QED BY <1>5, <2>1 DEF Just, Judging
<1> QED
  BY <1>4, <1>6, <1>7 DEF Sound

LEMMA JudgedReads ==
  ASSUME VerifierInv, NEW v \in Verifier,
         \/ session[v].valid /\ (ReadUseRecord(v) \/ ReadUseSlot(v))
         \/ ReadShown(v)
         \/ session[v].used /\ ReadReceipt(v)
  PROVE  VerifierInv'
<1> DEFINE s == session[v]
           q == SubSeq(s.todo, 1 + 1, Len(s.todo))
           k == View
<1>1. PICK item \in {"receipt", "useRecord", "useSlot", "shown"} :
        /\ Running(v) /\ s.todo[1] = item /\ (item # "shown" => s.valid \/ s.used)
        /\ item = "useRecord" => ReadUseRecord(v)
        /\ item = "useSlot" => ReadUseSlot(v)
        /\ item \in {"shown", "receipt"} => Answer(v, TRUE, 1)
  BY DEF ReadUseRecord, ReadUseSlot, ReadShown, ReadReceipt, Next1
<1>2. /\ s \in Sessions /\ Sound(s, k) /\ k \in Views /\ s.outcome = "running" /\ s.valid
      /\ s.todo \in Rests(s.used) \ {<<>>}
  BY <1>1, JudgedNow
<1>3. q \in Seq(Item)
  <2>1. s.todo \in Seq(Item) /\ 1 \in Nat \ {0}
    BY <1>2 DEF Sessions
  <2> QED BY <2>1, Dropped
<1>4. UNCHANGED factVars /\ paper' = paper
  BY DEF ReadUseRecord, ReadUseSlot, ReadShown, ReadReceipt, Answer
<1>5. /\ k.configured = consumption.configured /\ k.available = Available
      /\ k.available \in BOOLEAN /\ k.configured \in BOOLEAN
  BY <1>2 DEF View, Views
<1>6. PICK ok \in BOOLEAN, configured \in {s.configured, k.configured},
           slot \in {s.slot, k.available} :
        /\ session' = [session EXCEPT ![v] =
             [s EXCEPT !.ok = ok, !.configured = configured, !.slot = slot, !.todo = q]]
        /\ item = "useSlot" => slot = k.available
  <2>1. s.ok \in BOOLEAN /\ s = [s EXCEPT !.ok = s.ok] /\ s = [s EXCEPT !.slot = s.slot]
        /\ s = [s EXCEPT !.configured = s.configured]
    BY <1>2 DEF Sessions
  <2>2. CASE item = "useRecord"
    <3>1. session' = [session EXCEPT ![v] = [s EXCEPT !.configured = k.configured, !.todo = q]]
      BY <1>1, <1>5, <2>2 DEF ReadUseRecord, Rest
    <3> HIDE DEF q, k
    <3>2. [s EXCEPT !.configured = k.configured, !.todo = q] =
          [s EXCEPT !.ok = s.ok, !.configured = k.configured, !.slot = s.slot, !.todo = q]
      BY <1>2 DEF Sessions
    <3> QED BY <2>1, <2>2, <3>1, <3>2
  <2>3. CASE item = "useSlot"
    <3>1. session' = [session EXCEPT ![v] = [s EXCEPT !.slot = k.available, !.todo = q]]
      BY <1>1, <1>5, <2>3 DEF ReadUseSlot, Rest
    <3> HIDE DEF q, k
    <3>2. [s EXCEPT !.slot = k.available, !.todo = q] =
          [s EXCEPT !.ok = s.ok, !.configured = s.configured, !.slot = k.available, !.todo = q]
      BY <1>2 DEF Sessions
    <3> QED BY <2>1, <2>3, <3>1, <3>2
  <2>4. CASE item \in {"shown", "receipt"}
    <3>1. session' = [session EXCEPT ![v] = [s EXCEPT !.ok = s.ok /\ TRUE, !.todo = q]]
      BY <1>1, <2>4 DEF Answer, Rest
    <3> HIDE DEF q, k
    <3>2. [s EXCEPT !.ok = s.ok /\ TRUE, !.todo = q] =
          [s EXCEPT !.ok = s.ok, !.configured = s.configured, !.slot = s.slot, !.todo = q]
      BY <1>2 DEF Sessions
    <3> QED BY <2>1, <2>4, <3>1, <3>2
  <2> QED BY <2>2, <2>3, <2>4
<1> DEFINE t == [s EXCEPT !.ok = ok, !.configured = configured, !.slot = slot, !.todo = q]
<1> HIDE DEF q, k
<1>7. configured \in BOOLEAN /\ slot \in BOOLEAN
  <2>1. s.configured \in BOOLEAN /\ s.slot \in BOOLEAN
    BY <1>2 DEF Sessions
  <2> QED BY <1>5, <2>1
<1>8. /\ t \in Sessions
      /\ t.todo = q /\ t.valid /\ t.began = s.began /\ t.used = s.used /\ t.refused = s.refused
      /\ t.outcome = "running" /\ t.slot = slot /\ t.configured = configured
  BY <1>2, <1>3, <1>7 DEF Sessions
<1> HIDE DEF t, s
<1>9. Sound(t, k)
  BY <1>1, <1>2, <1>6, <1>8, SoundAfter DEF q
<1>10. SessionsInv'
  BY <1>4, <1>6, <1>8, <1>9, OwnStep DEF VerifierInv, k, t, s
<1>11. FactsInv'
  BY <1>4, FactsLater DEF VerifierInv
<1> QED
  BY <1>4, <1>10, <1>11 DEF VerifierInv

------------------------------------------------------------------------------
(* A session ends without a transaction.                                        *)
LEMMA EndStep ==
  ASSUME VerifierInv, NEW v \in Verifier, UNCHANGED <<factVars, paper>>,
         NEW outcome \in {"failed", "invalid", "valid", "skipped", "consumed", "revoked"},
         End(v, outcome),
         outcome = "skipped" => ~ session[v].began.configured,
         outcome = "consumed" => session[v].used,
         outcome # "failed" /\ session[v].used => session[v].slot \/ ~ View.available
  PROVE  VerifierInv'
<1> DEFINE s == session[v]
           t == [s EXCEPT !.outcome = outcome, !.todo = <<>>]
<1>1. s \in Sessions /\ Sound(s, View)
  BY DEF VerifierInv, SessionsInv
<1>2. session' = [session EXCEPT ![v] = t]
  BY DEF End
<1>3. t \in Sessions /\ Sound(t, View)
  <2> HIDE DEF s
  <2> QED BY <1>1, SoundEnded DEF s
<1>4. UNCHANGED factVars /\ paper' = paper
  OBVIOUS
<1> HIDE DEF t
<1>5. SessionsInv'
  BY <1>2, <1>3, <1>4, OwnStep DEF VerifierInv
<1>6. FactsInv'
  BY <1>4, FactsLater DEF VerifierInv
<1> QED
  BY <1>4, <1>5, <1>6 DEF VerifierInv

LEMMA FailureStep ==
  ASSUME VerifierInv, NEW v \in Verifier, UNCHANGED <<factVars, paper>>, End(v, "failed")
  PROVE  VerifierInv'
  BY EndStep

LEMMA RejectStep ==
  ASSUME VerifierInv, NEW v \in Verifier, Reject(v)
  PROVE  VerifierInv'
<1> DEFINE s == session[v]
<1>1. UNCHANGED <<factVars, paper>> /\ End(v, "invalid") /\ Running(v) /\ s.todo[1] = "verdict"
  BY DEF Reject, Next1
<1>2. ~ s.used
  <2> SUFFICES ASSUME s.used PROVE FALSE
    OBVIOUS
  <2>1. s.valid
    BY DEF VerifierInv, SessionsInv, Sound, Noted
  <2>2. s.todo \in Rests(s.used) \ {<<>>}
    BY <1>1, <2>1, JudgedNow
  <2> QED BY <1>1, <2>2 DEF Rests
<1> QED
  BY <1>1, <1>2, EndStep

LEMMA AcceptStep ==
  ASSUME VerifierInv, NEW v \in Verifier, Accept(v)
  PROVE  VerifierInv'
<1> DEFINE s == session[v]
<1>1. UNCHANGED <<factVars, paper>> /\ End(v, "valid") /\ Running(v) /\ s.todo[1] = "accept"
  BY DEF Accept, Next1
<1>2. s.todo \in Rests(s.used) \ {<<>>}
  BY <1>1, JudgedNow
<1>3. ~ s.used
  BY <1>1, <1>2 DEF Rests
<1> QED
  BY <1>1, <1>3, EndStep

LEMMA SkipStep ==
  ASSUME VerifierInv, NEW v \in Verifier, SkipConsumption(v)
  PROVE  VerifierInv'
<1> DEFINE s == session[v]
<1>1. /\ UNCHANGED <<factVars, paper>> /\ End(v, "skipped") /\ Running(v)
      /\ s.todo[1] = "consume" /\ ~ s.configured
  BY DEF SkipConsumption, Next1
<1>2. s.todo \in Rests(s.used) \ {<<>>} /\ s.valid /\ Sound(s, View)
  BY <1>1, JudgedNow
<1>3. ~ s.used
  BY <1>1, <1>2 DEF Rests
<1>4. ~ s.began.configured
  BY <1>1, <1>2 DEF Sound, Just
<1> QED
  BY <1>1, <1>3, <1>4, EndStep

LEMMA ReportStep ==
  ASSUME VerifierInv, NEW v \in Verifier, Report(v)
  PROVE  VerifierInv'
<1> DEFINE s == session[v]
<1>1. UNCHANGED <<factVars, paper>> /\ End(v, "consumed") /\ Running(v) /\ s.todo[1] = "report"
  BY DEF Report, Next1
<1>2. s.todo \in Rests(s.used) \ {<<>>} /\ Sound(s, View) /\ s.outcome = "running"
  BY <1>1, JudgedNow
<1>3. s.used /\ s.todo = <<"report">>
  BY <1>1, <1>2 DEF Rests
<1>4. ~ Pending(s.todo, "useSlot")
  BY <1>3 DEF Pending
<1>5. s.slot \/ ~ View.available
  BY <1>2, <1>3, <1>4 DEF Sound, Noted
<1> QED
  BY <1>1, <1>3, <1>5, EndStep

(* The verdict: nothing is left to be asked, so nothing was wrong.              *)
LEMMA OneAndOne ==
  ASSUME NEW a, NEW b
  PROVE  <<a>> \o <<b>> = <<a, b>>
<1> DEFINE S == {a, b}
           p == <<a>>
           q == <<b>>
           r == p \o q
<1>1. p \in Seq(S) /\ Len(p) = 1 /\ p[1] = a /\ q \in Seq(S) /\ Len(q) = 1 /\ q[1] = b
  OBVIOUS
<1>2. <<a, b>> \in Seq(S) /\ Len(<<a, b>>) = 2
  OBVIOUS
<1> HIDE DEF S, p, q
<1>3. /\ r \in Seq(S) /\ Len(r) = 1 + 1
      /\ \A i \in 1 .. 1 + 1 : r[i] = IF i <= 1 THEN p[i] ELSE q[i - 1]
  BY <1>1, ConcatProperties
<1> HIDE DEF r
<1>4. Len(r) = 2 /\ r[1] = a /\ r[2] = b
  BY <1>1, <1>3
<1>5. r = <<a, b>>
  BY <1>2, <1>3, <1>4, SeqEqual
<1> QED
  BY <1>5 DEF r, p, q

LEMMA OneAndTwo ==
  ASSUME NEW a, NEW b, NEW c
  PROVE  <<a>> \o <<b, c>> = <<a, b, c>>
<1> DEFINE S == {a, b, c}
           p == <<a>>
           q == <<b, c>>
           r == p \o q
<1>1. /\ p \in Seq(S) /\ Len(p) = 1 /\ p[1] = a
      /\ q \in Seq(S) /\ Len(q) = 2 /\ q[1] = b /\ q[2] = c
  OBVIOUS
<1>2. <<a, b, c>> \in Seq(S) /\ Len(<<a, b, c>>) = 3
  OBVIOUS
<1> HIDE DEF S, p, q
<1>3. /\ r \in Seq(S) /\ Len(r) = 1 + 2
      /\ \A i \in 1 .. 1 + 2 : r[i] = IF i <= 1 THEN p[i] ELSE q[i - 1]
  BY <1>1, ConcatProperties
<1> HIDE DEF r
<1>4. Len(r) = 3 /\ r[1] = a /\ r[2] = b /\ r[3] = c
  BY <1>1, <1>3
<1>5. r = <<a, b, c>>
  BY <1>2, <1>3, <1>4, SeqEqual
<1> QED
  BY <1>5 DEF r, p, q

LEMMA Todos ==
  ASSUME NEW program, NEW then,
         then \in {<<"accept">>, When(program = "cli", <<"useRecord">>) \o <<"consume">>}
  PROVE  When(program = "cli", <<"shown">>) \o then \in Rests(FALSE) \ {<<>>}
<1> DEFINE q == When(program = "cli", <<"shown">>) \o then
<1>1. CASE program = "cli"
  <2>1. CASE then = <<"accept">>
    <3>1. q = <<"shown">> \o <<"accept">>
      BY <1>1, <2>1 DEF When
    <3>2. <<"shown">> \o <<"accept">> = <<"shown", "accept">>
      BY OneAndOne
    <3> HIDE DEF q
    <3>3. q = <<"shown", "accept">>
      BY <3>1, <3>2
    <3> QED BY <3>3 DEF Rests, q
  <2>2. CASE then # <<"accept">>
    <3>1. q = <<"shown">> \o (<<"useRecord">> \o <<"consume">>)
      BY <1>1, <2>2 DEF When
    <3>2. <<"useRecord">> \o <<"consume">> = <<"useRecord", "consume">>
      BY OneAndOne
    <3>3. <<"shown">> \o <<"useRecord", "consume">> = <<"shown", "useRecord", "consume">>
      BY OneAndTwo
    <3>4. q = <<"shown", "useRecord", "consume">>
      BY <3>1, <3>2, <3>3
    <3> QED BY <3>4 DEF Rests
  <2> QED BY <2>1, <2>2
<1>2. CASE program # "cli"
  <2>1. CASE then = <<"accept">>
    <3>1. q = <<>> \o <<"accept">>
      BY <1>2, <2>1 DEF When
    <3>2. q = <<"accept">>
      BY <3>1
    <3> QED BY <3>2 DEF Rests
  <2>2. CASE then # <<"accept">>
    <3>1. q = <<>> \o (<<>> \o <<"consume">>)
      BY <1>2, <2>2 DEF When
    <3>2. <<>> \o <<"consume">> = <<"consume">>
      OBVIOUS
    <3>3. q = <<"consume">>
      BY <3>1, <3>2
    <3> QED BY <3>3 DEF Rests
  <2> QED BY <2>1, <2>2
<1> QED
  BY <1>1, <1>2

LEMMA RestsItems ==
  ASSUME NEW used \in BOOLEAN, NEW q \in Rests(used)
  PROVE  q \in Seq(Item)
<1> USE DEF Item
<1>1. /\ <<>> \in Seq(Item) /\ <<"accept">> \in Seq(Item) /\ <<"consume">> \in Seq(Item)
      /\ <<"report">> \in Seq(Item)
  OBVIOUS
<1>2. /\ <<"shown", "accept">> \in Seq(Item) /\ <<"useRecord", "consume">> \in Seq(Item)
      /\ <<"useSlot", "report">> \in Seq(Item) /\ <<"shown", "report">> \in Seq(Item)
  OBVIOUS
<1>3. /\ <<"shown", "useRecord", "consume">> \in Seq(Item)
      /\ <<"useRecord", "useSlot", "report">> \in Seq(Item)
      /\ <<"useSlot", "shown", "report">> \in Seq(Item)
  OBVIOUS
<1>4. /\ <<"useRecord", "useSlot", "shown", "report">> \in Seq(Item)
      /\ <<"receipt", "useRecord", "useSlot", "report">> \in Seq(Item)
      /\ <<"receipt", "useRecord", "useSlot", "shown", "report">> \in Seq(Item)
  OBVIOUS
<1> HIDE DEF Item
<1> QED
  BY <1>1, <1>2, <1>3, <1>4 DEF Rests

LEMMA SoundVerdict ==
  ASSUME NEW k \in Views, NEW s \in Sessions, Sound(s, k), ~ s.valid, s.ok,
         s.todo[1] = "verdict", s.outcome = "running", NEW q \in Rests(FALSE) \ {<<>>}
  PROVE  /\ [s EXCEPT !.valid = TRUE, !.todo = q] \in Sessions
         /\ Sound([s EXCEPT !.valid = TRUE, !.todo = q], k)
<1> DEFINE t == [s EXCEPT !.valid = TRUE, !.todo = q]
<1>1. Asking(s, k) /\ Noted(s, k) /\ Just(s, k)
  <2>1. ~ Revoking(s)
    BY DEF Revoking
  <2> QED BY <2>1 DEF Sound, Ahead
<1>2. Pending(s.todo, "verdict") /\ Len(s.todo) = 1
  <2>1. s.todo \in Seq(Reads \cup {"verdict"}) /\ Pending(s.todo, "verdict")
        /\ VerdictLast(s.todo)
    BY <1>1 DEF Asking
  <2>2. 1 \in 1 .. Len(s.todo)
    BY <2>1, LenProperties DEF Pending
  <2> QED BY <2>1, <2>2 DEF VerdictLast
<1>3. \A x : Pending(s.todo, x) => x = "verdict"
  BY <1>2 DEF Pending
<1>4. ~ Withheld(s, k) /\ ~ Unearned(s, k) /\ ~ Pending(s.todo, "useRecord")
  BY <1>3 DEF Withheld, Unearned
<1>5. /\ ~ s.began.withdrawn /\ ~ s.began.unentitled
      /\ s.began.configured => s.configured
  BY <1>1, <1>2, <1>4 DEF Just, Judging
<1>6. ~ s.used
  BY <1>1 DEF Noted
<1>7. /\ t \in Sessions
      /\ t.outcome = "running" /\ t.todo = q /\ t.valid /\ t.configured = s.configured
      /\ t.slot = s.slot /\ t.refused = s.refused /\ t.used = s.used /\ t.began = s.began
  <2>1. q \in Seq(Item)
    BY RestsItems
  <2> QED BY <2>1 DEF Sessions
<1> HIDE DEF t
<1>8. Ahead(t, k)
  <2>1. s.used = FALSE
    BY <1>6 DEF Sessions
  <2> QED BY <1>7, <2>1 DEF Ahead
<1>9. Noted(t, k)
  BY <1>1, <1>6, <1>7 DEF Noted
<1>10. Just(t, k)
  BY <1>5, <1>7 DEF Just, Judging
<1> QED
  BY <1>7, <1>8, <1>9, <1>10 DEF Sound, t

LEMMA JudgeStep ==
  ASSUME VerifierInv, NEW v \in Verifier, Judge(v)
  PROVE  VerifierInv'
<1> DEFINE s == session[v]
           cli(reads) == When(s.program = "cli", reads)
<1>1. /\ Running(v) /\ s.todo[1] = "verdict" /\ s.ok /\ UNCHANGED factVars /\ paper' = paper
  BY DEF Judge, Next1
<1>2. PICK then \in {<<"accept">>, cli(<<"useRecord">>) \o <<"consume">>} :
        session' = [session EXCEPT ![v].valid = TRUE, ![v].todo = cli(<<"shown">>) \o then]
  BY DEF Judge
<1> DEFINE q == cli(<<"shown">>) \o then
           t == [s EXCEPT !.valid = TRUE, !.todo = q]
<1>3. q \in Rests(FALSE) \ {<<>>}
  BY Todos
<1>4. session' = [session EXCEPT ![v] = t]
  BY <1>2
<1> HIDE DEF q
<1>5. /\ s \in Sessions /\ Sound(s, View) /\ View \in Views /\ s.outcome = "running"
  BY <1>1, FactsViews DEF VerifierInv, SessionsInv, Running
<1>6. ~ s.valid
  <2> SUFFICES ASSUME s.valid PROVE FALSE
    OBVIOUS
  <2>1. s.todo \in Rests(s.used) \ {<<>>}
    BY <1>1, JudgedNow
  <2> QED BY <1>1, <2>1 DEF Rests
<1>7. t \in Sessions /\ Sound(t, View)
  <2> HIDE DEF s
  <2> QED BY <1>1, <1>3, <1>5, <1>6, SoundVerdict
<1> HIDE DEF t, s
<1>8. SessionsInv'
  BY <1>1, <1>4, <1>7, OwnStep DEF VerifierInv
<1>9. FactsInv'
  BY <1>1, FactsLater DEF VerifierInv
<1> QED
  BY <1>1, <1>8, <1>9 DEF VerifierInv

------------------------------------------------------------------------------
(* A session begins.                                                            *)
LEMMA BeginStep ==
  ASSUME VerifierInv, NEW v \in Verifier, NEW program \in {"cli", "ui"},
         NEW outcome \in {"running", "failed"}, NEW reads,
         BeginWith(v, program, outcome, reads),
         \/ Planned(reads, program) /\ outcome = "running"
         \/ reads = <<>> /\ outcome = "failed"
         \/ reads = <<"revoke">> /\ outcome = "running"
  PROVE  VerifierInv'
<1> DEFINE ok == paper.formed /\ paper.schema /\ paper.hashed /\ paper.proof
           t == [Idle EXCEPT !.program = program, !.outcome = outcome, !.todo = reads,
                             !.ok = ok, !.began = Beginning]
           k == View
<1>1. UNCHANGED factVars /\ paper' = paper /\ session' = [session EXCEPT ![v] = t]
  BY DEF BeginWith
<1>2. FactsInv /\ paper \in Paper /\ k \in Views
  BY FactsViews DEF VerifierInv
<1>3. /\ k.over = over /\ k.subject = subject /\ k.allowed = allowed /\ k.signed = signed
      /\ k.revoked = revoked /\ k.anchor = anchor /\ k.available = Available
      /\ k.configured = consumption.configured
  BY DEF View
<1>4. ok \in BOOLEAN
  BY <1>2, PaperAssumption
<1>5. /\ Beginning \in Began
      /\ Beginning.withdrawn <=> Withdrawn
      /\ Beginning.unentitled <=> over /\ ~ Entitled
      /\ Beginning.configured = consumption.configured
  <2>1. consumption.configured \in BOOLEAN
    BY <1>2 DEF FactsInv, FactsTypeOK
  <2>2. revoked \in BOOLEAN
    BY <1>2 DEF FactsInv, FactsTypeOK
  <2>3. Withdrawn \in BOOLEAN /\ (over /\ ~ Entitled) \in BOOLEAN
    BY <2>2, Zenon DEF Withdrawn
  <2> QED BY <2>1, <2>3 DEF Beginning, Began
<1>6. reads \in Seq(Item)
  <2>1. CASE Planned(reads, program)
    <3>1. reads \in Seq(Reads \cup {"verdict"}) /\ Reads \cup {"verdict"} \subseteq Item
      BY <2>1 DEF Planned, Plan, Reads, Item
    <3> QED BY <3>1, SeqMonotonic
  <2>2. CASE reads = <<>>
    BY <2>2
  <2>3. CASE reads = <<"revoke">>
    BY <2>3 DEF Item
  <2> QED BY <2>1, <2>2, <2>3
<1> HIDE DEF ok, k
<1>7. /\ t \in Sessions
      /\ t.program = program /\ t.outcome = outcome /\ t.todo = reads /\ t.ok = ok
      /\ ~ t.valid /\ ~ t.configured /\ ~ t.slot /\ ~ t.refused /\ ~ t.used
      /\ t.began = Beginning
  BY <1>4, <1>5, <1>6 DEF Idle, Sessions, Outcome
<1> HIDE DEF t
<1>8. Ahead(t, k)
  <2>1. CASE Planned(reads, program)
    BY <1>7, <2>1 DEF Planned, Plan, Ahead, Asking
  <2>2. CASE reads = <<>> /\ outcome = "failed"
    <3>1. <<>> \in Seq(Reads \cup {"verdict"}) /\ Len(<<>>) = 0
      OBVIOUS
    <3>2. Linked(<<>>, program) /\ VerdictLast(<<>>) /\ Preceded(<<>>, "useSlot", "available")
      BY <3>1 DEF Linked, VerdictLast, Preceded
    <3> QED BY <1>7, <2>2, <3>1, <3>2 DEF Ahead, Asking
  <2>3. CASE reads = <<"revoke">>
    BY <1>7, <2>3 DEF Ahead, Revoking
  <2> QED BY <2>1, <2>2, <2>3
<1>9. Noted(t, k)
  BY <1>3, <1>5, <1>7 DEF Noted
<1>10. Just(t, k)
  <2> SUFFICES ASSUME Judging(t)
               PROVE  /\ Beginning.withdrawn => Withheld(t, k)
                      /\ Beginning.unentitled => Unearned(t, k)
                      /\ Pending(reads, "useRecord")
    BY <1>7 DEF Just
  <2>1. Planned(reads, program)
    <3>1. Pending(reads, "verdict")
      BY <1>7 DEF Judging
    <3>2. reads # <<>> /\ reads # <<"revoke">>
      BY <3>1 DEF Pending
    <3> QED BY <3>2
  <2>2. Thorough(reads)
    <3>1. ok
      BY <1>7 DEF Judging
    <3> QED BY <2>1, <3>1 DEF Planned, ok
  <2>3. Withdrawn => Withheld(t, k)
    BY <1>3, <1>7, <2>1, <2>2 DEF Withdrawn, Withheld, Thorough, Planned
  <2>4. over /\ ~ Entitled => Unearned(t, k)
    BY <1>3, <1>7, <2>2 DEF Entitled, Unearned, Thorough, AsksAuthority
  <2>5. Pending(reads, "useRecord")
    BY <2>2 DEF Thorough
  <2> QED BY <1>5, <2>3, <2>4, <2>5
<1>11. Sound(t, k)
  BY <1>8, <1>9, <1>10 DEF Sound
<1>12. SessionsInv'
  BY <1>1, <1>7, <1>11, OwnStep DEF VerifierInv, k
<1>13. FactsInv'
  BY <1>1, FactsLater DEF VerifierInv
<1> QED
  BY <1>1, <1>12, <1>13 DEF VerifierInv

LEMMA Begins ==
  ASSUME VerifierInv, NEW v \in Verifier, BeginCli(v) \/ BeginUi(v) \/ BeginRevoke(v)
  PROVE  VerifierInv'
<1>1. paper \in Paper
  BY DEF VerifierInv
<1>2. CASE BeginCli(v)
  <2>1. PICK uses \in UseReads, finalUses \in UseReads :
          BeginWith(v, "cli", "running", CliReads(uses, finalUses))
    BY <1>2 DEF BeginCli
  <2>2. Planned(CliReads(uses, finalUses), "cli")
    BY <1>1, CliPlanned
  <2> QED BY <2>1, <2>2, BeginStep
<1>3. CASE BeginUi(v)
  <2>1. CASE paper.formed
    <3>1. PICK uses \in UseReads : BeginWith(v, "ui", "running", UiReads(uses))
      BY <1>3, <2>1 DEF BeginUi
    <3>2. Planned(UiReads(uses), "ui")
      BY <1>1, UiPlanned
    <3> QED BY <3>1, <3>2, BeginStep
  <2>2. CASE ~ paper.formed
    <3>1. BeginWith(v, "ui", "failed", <<>>)
      BY <1>3, <2>2 DEF BeginUi
    <3> QED BY <3>1, BeginStep
  <2> QED BY <2>1, <2>2
<1>4. CASE BeginRevoke(v)
  <2>1. \/ BeginWith(v, "ui", "running", <<"revoke">>)
        \/ BeginWith(v, "ui", "failed", <<>>)
    BY <1>4 DEF BeginRevoke
  <2> QED BY <2>1, BeginStep
<1> QED
  BY <1>2, <1>3, <1>4

------------------------------------------------------------------------------
(* The others watch: what a session knows survives what anybody else does.      *)
Watches(v) ==
  session'[v] = IF Running(v)
                THEN [session[v] EXCEPT !.steady = session[v].steady /\ factVars' = factVars]
                ELSE session[v]

LEMMA WatchingStep ==
  ASSUME SessionsInv, NEW v \in Verifier, Watches(v), Later(View, View')
  PROVE  session'[v] \in Sessions /\ Sound(session'[v], View')
<1> DEFINE s == session[v]
           steady == s.steady /\ factVars' = factVars
           t == [s EXCEPT !.steady = steady]
<1>1. s \in Sessions /\ Sound(s, View)
  BY DEF SessionsInv
<1>2. steady \in BOOLEAN
  BY <1>1 DEF Sessions
<1> HIDE DEF steady
<1>3. t \in Sessions /\ Sound(t, View)
  <2> HIDE DEF s
  <2> QED BY <1>1, <1>2, SoundNotices
<1>4. session'[v] \in {s, t}
  BY DEF Watches, steady
<1> HIDE DEF t, s
<1>5. session'[v] \in Sessions /\ Sound(session'[v], View)
  BY <1>1, <1>3, <1>4
<1> QED
  BY <1>5, SoundLater

LEMMA RegistryStep ==
  ASSUME VerifierInv, RegistryMoves
  PROVE  VerifierInv'
<1>1. FactsNext /\ paper' = paper
  BY DEF RegistryMoves, FactsNext
<1>2. FactsInv' /\ Later(View, View')
  BY <1>1, FactsLater DEF VerifierInv
<1>3. session' = [v \in Verifier |->
        IF Running(v) THEN [session[v] EXCEPT !.steady = session[v].steady /\ factVars' = factVars]
        ELSE session[v]]
  BY DEF RegistryMoves
<1>4. \A v \in Verifier : Watches(v)
  BY <1>3 DEF Watches
<1>5. \A v \in Verifier : session'[v] \in Sessions /\ Sound(session'[v], View')
  BY <1>2, <1>4, WatchingStep DEF VerifierInv
<1>6. session' \in [Verifier -> Sessions]
  BY <1>3, <1>5
<1> QED
  BY <1>1, <1>2, <1>5, <1>6 DEF VerifierInv, SessionsInv

LEMMA MinedStep ==
  ASSUME VerifierInv, NEW v \in Verifier, FactsNext, NEW t \in Sessions, Sound(t, View),
         Mined(v, t)
  PROVE  VerifierInv'
<1>1. FactsInv' /\ Later(View, View')
  BY FactsLater DEF VerifierInv
<1>2. /\ paper' = paper
      /\ session' = [w \in Verifier |->
           IF w = v THEN t
           ELSE IF Running(w)
                THEN [session[w] EXCEPT !.steady = session[w].steady /\ factVars' = factVars]
           ELSE session[w]]
  BY DEF Mined
<1>3. \A w \in Verifier : IF w = v THEN session'[w] = t ELSE Watches(w)
  BY <1>2 DEF Watches
<1>4. Sound(t, View')
  BY <1>1, SoundLater
<1>5. \A w \in Verifier : session'[w] \in Sessions /\ Sound(session'[w], View')
  BY <1>1, <1>3, <1>4, WatchingStep DEF VerifierInv
<1>6. session' \in [Verifier -> Sessions]
  BY <1>2, <1>5
<1> QED
  BY <1>1, <1>2, <1>5, <1>6 DEF VerifierInv, SessionsInv

LEMMA RevokeStep ==
  ASSUME VerifierInv, NEW v \in Verifier, RevokeOnChain(v)
  PROVE  VerifierInv'
<1> DEFINE s == session[v]
           q == <<"receipt">>
           t == [s EXCEPT !.todo = q]
           k == View
<1>1. Running(v) /\ s.todo[1] = "revoke" /\ FactsNext /\ Mined(v, t)
  BY DEF RevokeOnChain, Next1, FactsNext
<1>2. s \in Sessions /\ Sound(s, k) /\ s.outcome = "running"
  BY <1>1 DEF VerifierInv, SessionsInv, Running
<1>3. ~ s.valid /\ ~ s.used
  <2> SUFFICES ASSUME s.valid \/ s.used PROVE FALSE
    OBVIOUS
  <2>1. s.todo \in Rests(s.used) \ {<<>>}
    BY <1>1, JudgedNow
  <2> QED BY <1>1, <2>1 DEF Rests
<1>4. q \in Seq(Item) /\ ~ Pending(q, "verdict")
  BY DEF Item, Pending
<1> HIDE DEF q, k
<1>5. /\ t \in Sessions
      /\ t.outcome = "running" /\ t.todo = q /\ t.valid = s.valid /\ t.used = s.used
      /\ t.configured = s.configured /\ t.slot = s.slot /\ t.refused = s.refused
      /\ t.began = s.began
  BY <1>2, <1>4 DEF Sessions
<1> HIDE DEF t, s
<1>6. Ahead(t, k)
  BY <1>3, <1>5 DEF Ahead, Revoking, q
<1>7. Noted(t, k)
  BY <1>2, <1>3, <1>5 DEF Sound, Noted
<1>8. Just(t, k)
  BY <1>3, <1>4, <1>5 DEF Just, Judging
<1>9. Sound(t, k)
  BY <1>6, <1>7, <1>8 DEF Sound
<1> QED
  BY <1>1, <1>5, <1>9, MinedStep DEF k

(* The receipt ends a revocation, and a consumption reads its status.           *)
LEMMA ReceiptStep ==
  ASSUME VerifierInv, NEW v \in Verifier, ReadReceipt(v)
  PROVE  VerifierInv'
<1>1. CASE session[v].used
  BY <1>1, JudgedReads
<1>2. CASE ~ session[v].used
  <2>1. End(v, "revoked") /\ UNCHANGED <<factVars, paper>>
    BY <1>2 DEF ReadReceipt
  <2> QED BY <1>2, <2>1, EndStep
<1> QED
  BY <1>1, <1>2

LEMMA ConsumeStep ==
  ASSUME VerifierInv, NEW v \in Verifier, ConsumeOnChain(v)
  PROVE  VerifierInv'
<1> DEFINE s == session[v]
           q == AfterUse(s.program)
           t == [s EXCEPT !.used = TRUE, !.todo = q]
           k == View
<1>1. /\ Running(v) /\ s.todo[1] = "consume" /\ s.configured /\ FactsNext /\ Mined(v, t)
  BY DEF ConsumeOnChain, Next1, FactsNext
<1>2. s \in Sessions /\ Sound(s, k) /\ s.outcome = "running" /\ s.valid
  BY <1>1, JudgedNow
<1>3. q \in Rests(TRUE) /\ q # <<>> /\ Pending(q, "useSlot")
  <2>1. q \in {<<"receipt", "useRecord", "useSlot", "shown", "report">>,
              <<"receipt", "useRecord", "useSlot", "report">>}
    BY DEF AfterUse
  <2> HIDE DEF q
  <2> QED BY <2>1 DEF Rests, Pending
<1>4. q \in Seq(Item)
  BY <1>3, RestsItems
<1> HIDE DEF q, k
<1>5. /\ t \in Sessions
      /\ t.outcome = "running" /\ t.todo = q /\ t.valid /\ t.configured = s.configured
      /\ t.slot = s.slot /\ t.refused = s.refused /\ t.used = TRUE /\ t.began = s.began
  BY <1>2, <1>4 DEF Sessions
<1> HIDE DEF t, s
<1>6. Ahead(t, k)
  BY <1>3, <1>5 DEF Ahead
<1>7. Noted(s, k) /\ Just(s, k)
  BY <1>2 DEF Sound
<1>8. Noted(t, k)
  BY <1>1, <1>3, <1>5, <1>7 DEF Noted
<1>9. Just(t, k)
  BY <1>2, <1>5, <1>7 DEF Just, Judging
<1>10. Sound(t, k)
  BY <1>6, <1>8, <1>9 DEF Sound
<1> QED
  BY <1>1, <1>5, <1>10, MinedStep DEF k

------------------------------------------------------------------------------
LEMMA VerifierInitially == Init => VerifierInv
<1> SUFFICES ASSUME Init PROVE VerifierInv
  OBVIOUS
<1>1. FactsInv /\ paper \in Paper
  BY FactsInitially DEF Init
<1>2. View \in Views
  BY <1>1, FactsViews
<1>3. session = [v \in Verifier |-> Idle]
  BY DEF Init
<1>4. Idle \in Sessions /\ Sound(Idle, View)
  BY <1>2, SoundIdle
<1> QED
  BY <1>1, <1>3, <1>4 DEF VerifierInv, SessionsInv

LEMMA ReadStep ==
  ASSUME VerifierInv, NEW v \in Verifier, Read(v)
  PROVE  VerifierInv'
<1>1. CASE ReadAnchored(v)
  BY <1>1, AnchoredAnswer
<1>2. CASE ReadExists(v)
  <2>1. \/ /\ Next1(v, "exists")
           /\ Answer(v, TRUE, 1) \/ (session[v].program = "cli" /\ Answer(v, FALSE, 3))
        \/ End(v, "failed") /\ UNCHANGED <<factVars, paper>>
    BY <1>2 DEF ReadExists
  <2> QED BY <2>1, ExistsAnswer, FailureStep
<1>3. CASE ReadUseRecord(v) \/ ReadUseSlot(v) \/ CheckAvailable(v)
  <2>1. CASE ~ session[v].valid
    BY <1>3, <2>1, UseAnswers
  <2>2. CASE session[v].valid
    <3>1. ~ CheckAvailable(v)
      <4> SUFFICES ASSUME CheckAvailable(v) PROVE FALSE
        OBVIOUS
      <4>1. Next1(v, "available") /\ "available" \in Reads
        BY DEF CheckAvailable, Reads
      <4>2. "available" \in {"useRecord", "useSlot"}
        BY <2>2, <4>1, AskingNow
      <4> QED BY <4>2
    <3> QED BY <1>3, <2>2, <3>1, JudgedReads
  <2> QED BY <2>1, <2>2
<1>4. CASE \/ ReadAnchor(v) \/ ReadSubjectRevoked(v) \/ ReadAllowed(v) \/ ReadCredentialRevoked(v)
           \/ ReadSigned(v) \/ ReadDelegated(v) \/ ReadIssuer(v) \/ ReadTrusted(v)
  BY <1>4, SingleAnswers
<1> QED
  BY <1>1, <1>2, <1>3, <1>4 DEF Read

LEMMA ConcludeStep ==
  ASSUME VerifierInv, NEW v \in Verifier, Conclude(v)
  PROVE  VerifierInv'
<1>1. CASE ConsumeReverts(v)
  BY <1>1, FailureStep DEF ConsumeReverts
<1>2. CASE ReadShown(v)
  BY <1>2, JudgedReads
<1> QED
  BY <1>1, <1>2, JudgeStep, RejectStep, AcceptStep, SkipStep, ConsumeStep, ReportStep, RevokeStep,
     ReceiptStep
  DEF Conclude

LEMMA VerifierSteps ==
  ASSUME VerifierInv, [Next]_vars
  PROVE  VerifierInv'
<1>1. CASE RegistryMoves
  BY <1>1, RegistryStep
<1>2. ASSUME NEW v \in Verifier, Fail(v)
      PROVE  VerifierInv'
  BY <1>2, FailureStep DEF Fail
<1>3. CASE UNCHANGED vars
  <2>1. UNCHANGED factVars /\ paper' = paper /\ session' = session
    BY <1>3 DEF vars
  <2>2. View' = View /\ FactsInv'
    BY <2>1, SameView, FactsLater DEF VerifierInv
  <2> QED BY <2>1, <2>2 DEF VerifierInv, SessionsInv
<1> QED
  BY <1>1, <1>2, <1>3, Begins, ReadStep, ConcludeStep DEF Next

LEMMA VerifierAlways == SafeSpec => []VerifierInv
<1>1. Init => VerifierInv
  BY VerifierInitially
<1>2. VerifierInv /\ [Next]_vars => VerifierInv'
  BY VerifierSteps
<1> QED
  BY <1>1, <1>2, PTL DEF SafeSpec

------------------------------------------------------------------------------
(* Every value has its type; a session has something to do while it runs.       *)
THEOREM TypeCorrect == SafeSpec => []TypeOK
<1>1. VerifierInv => TypeOK
  <2> SUFFICES ASSUME VerifierInv, NEW v \in Verifier
               PROVE  /\ session[v].program \in {"none", "cli", "ui"}
                      /\ session[v].outcome \in Outcome
                      /\ \A i \in DOMAIN session[v].todo : session[v].todo[i] \in Item
                      /\ Running(v) <=> session[v].todo # <<>>
                      /\ session[v].used => session[v].valid
    BY DEF VerifierInv, FactsInv, TypeOK
  <2> DEFINE s == session[v]
  <2>1. s \in Sessions /\ Sound(s, View)
    BY DEF VerifierInv, SessionsInv
  <2>2. s.program \in {"none", "cli", "ui"} /\ s.outcome \in Outcome /\ s.todo \in Seq(Item)
    BY <2>1 DEF Sessions
  <2>3. s.outcome = "running" => s.todo # <<>>
    <3> SUFFICES ASSUME s.outcome = "running", s.todo = <<>> PROVE FALSE
      OBVIOUS
    <3>1. ~ Pending(<<>>, "verdict") /\ ~ Revoking(s)
      BY DEF Pending, Revoking
    <3> QED BY <2>1, <3>1 DEF Sound, Ahead, Asking
  <2>4. s.outcome # "running" => s.todo = <<>>
    BY <2>1 DEF Sound, Noted
  <2>5. s.used => s.valid
    BY <2>1 DEF Sound, Noted
  <2> QED BY <2>2, <2>3, <2>4, <2>5, ElementOfSeq, LenProperties DEF Running
<1> QED
  BY <1>1, VerifierAlways, PTL

(* However many sessions verify a credential at once, and whatever happens      *)
(* on-chain between two of their reads: a credential found valid had nothing    *)
(* standing against it when its session began.                                  *)
THEOREM ValidMeansSo == SafeSpec => []ValidSinceTheBeginning
<1>1. VerifierInv => ValidSinceTheBeginning
  BY DEF VerifierInv, SessionsInv, Sound, Just, ValidSinceTheBeginning
<1> QED
  BY <1>1, VerifierAlways, PTL

(* A limit anchored before a session began is never bypassed by it.             *)
THEOREM LimitNeverSkipped == SafeSpec => []SkippedOnlyWithoutPolicy
<1>1. VerifierInv => SkippedOnlyWithoutPolicy
  BY DEF VerifierInv, SessionsInv, Sound, Noted, SkippedOnlyWithoutPolicy
<1> QED
  BY <1>1, VerifierAlways, PTL

(* A refusal for lack of uses is final, whichever status is shown with it.      *)
THEOREM RefusalStands == SafeSpec => []RefusedUseStaysRefused
<1>1. VerifierInv => RefusedUseStaysRefused
  BY DEF VerifierInv, SessionsInv, Sound, Noted, RefusedUseStaysRefused
<1> QED
  BY <1>1, VerifierAlways, PTL

(* "limit reached" is never reported while a use is left.                       *)
THEOREM LimitReachedTruly == SafeSpec => []LimitReachedIsTrue
<1>1. VerifierInv => LimitReachedIsTrue
  <2> SUFFICES ASSUME VerifierInv, NEW v \in Verifier,
                      session[v].outcome = "consumed", ~ session[v].slot
               PROVE  ~ Available
    BY DEF LimitReachedIsTrue
  <2>1. Noted(session[v], View)
    BY DEF VerifierInv, SessionsInv, Sound
  <2>2. session[v].used /\ session[v].todo = <<>> /\ ~ Pending(<<>>, "useSlot")
    BY <2>1 DEF Noted, Pending
  <2> QED BY <2>1, <2>2 DEF Noted, View
<1> QED
  BY <1>1, VerifierAlways, PTL

------------------------------------------------------------------------------
(* Uses are counted one by one: never more sessions got one than were counted.  *)
Users == {v \in Verifier : session[v].used}

UsesInv ==
  consumption.mode = LIMITED =>
    IsFiniteSet(Users) /\ Cardinality(Users) <= consumption.useCount

(* Only a mined consumption makes a session one that got a use.                 *)
LEMMA OthersGetNone ==
  ASSUME SessionsInv, NEW v \in Verifier,
         BeginCli(v) \/ BeginUi(v) \/ BeginRevoke(v) \/ Read(v) \/ Conclude(v) \/ Fail(v),
         ~ ConsumeOnChain(v), NEW w \in Verifier, session'[w].used
  PROVE  session[w].used
<1> DEFINE s == session[v]
<1>1. s \in Sessions /\ session[w] \in Sessions /\ session \in [Verifier -> Sessions]
  BY DEF SessionsInv
<1>2. CASE BeginCli(v) \/ BeginUi(v) \/ BeginRevoke(v)
  <2>1. PICK program, outcome, reads : BeginWith(v, program, outcome, reads)
    BY <1>2 DEF BeginCli, BeginUi, BeginRevoke
  <2> QED BY <1>1, <2>1 DEF BeginWith, Idle
<1>3. ASSUME NEW outcome, End(v, outcome) PROVE session[w].used
  BY <1>1, <1>3 DEF End, Sessions
<1>4. ASSUME NEW check, NEW n, Answer(v, check, n) PROVE session[w].used
  BY <1>1, <1>4 DEF Answer, Sessions
<1>5. CASE Read(v)
  <2>1. CASE ReadUseRecord(v)
    BY <1>1, <2>1 DEF ReadUseRecord, Sessions
  <2>2. CASE ReadUseSlot(v)
    BY <1>1, <2>2 DEF ReadUseSlot, Sessions
  <2>3. CASE CheckAvailable(v)
    BY <1>1, <2>3 DEF CheckAvailable, Sessions
  <2>4. CASE ReadExists(v)
    BY <1>3, <1>4, <2>4 DEF ReadExists
  <2>5. CASE ReadAnchored(v) \/ ReadAnchor(v) \/ ReadSubjectRevoked(v) \/ ReadAllowed(v)
    BY <1>4, <2>5 DEF ReadAnchored, ReadAnchor, ReadSubjectRevoked, ReadAllowed
  <2>6. CASE ReadCredentialRevoked(v) \/ ReadSigned(v) \/ ReadDelegated(v)
    BY <1>4, <2>6 DEF ReadCredentialRevoked, ReadSigned, ReadDelegated
  <2>7. CASE ReadIssuer(v) \/ ReadTrusted(v)
    BY <1>4, <2>7 DEF ReadIssuer, ReadTrusted
  <2> QED BY <1>5, <2>1, <2>2, <2>3, <2>4, <2>5, <2>6, <2>7 DEF Read
<1>6. CASE Conclude(v)
  <2>1. CASE Judge(v)
    BY <1>1, <2>1 DEF Judge, Sessions
  <2>2. CASE RevokeOnChain(v)
    BY <1>1, <2>2 DEF RevokeOnChain, Mined, Sessions
  <2>3. CASE ReadShown(v)
    BY <1>4, <2>3 DEF ReadShown
  <2>4. CASE Reject(v) \/ Accept(v) \/ SkipConsumption(v) \/ ConsumeReverts(v) \/ Report(v)
    BY <1>3, <2>4 DEF Reject, Accept, SkipConsumption, ConsumeReverts, Report
  <2>5. CASE ReadReceipt(v)
    BY <1>3, <1>4, <2>5 DEF ReadReceipt
  <2> QED BY <1>6, <2>1, <2>2, <2>3, <2>4, <2>5 DEF Conclude
<1>7. CASE Fail(v)
  BY <1>3, <1>7 DEF Fail
<1> QED
  BY <1>2, <1>5, <1>6, <1>7

LEMMA FewerUsers ==
  ASSUME VerifierInv, UsesInv, FactsNext \/ UNCHANGED factVars, Users' \subseteq Users
  PROVE  UsesInv'
<1>1. FactsInv /\ consumption.useCount \in Nat
  BY DEF VerifierInv, FactsInv, FactsTypeOK
<1>2. ASSUME IsFiniteSet(Users)
      PROVE  /\ IsFiniteSet(Users') /\ Cardinality(Users') <= Cardinality(Users)
             /\ Cardinality(Users') \in Nat /\ Cardinality(Users) \in Nat
  BY <1>2, FS_Subset, FS_CardinalityType
<1>3. CASE Anchor
  <2>1. ~ View.configured /\ consumption'.useCount = 0
    BY <1>1, <1>3, AnchorEffect DEF View
  <2>2. \A v \in Verifier : ~ session[v].used
    BY <2>1 DEF VerifierInv, SessionsInv, Sound, Noted
  <2>3. Users' = {}
    BY <2>2 DEF Users
  <2>4. IsFiniteSet({}) /\ Cardinality({}) = 0
    BY FS_EmptySet
  <2> QED BY <2>1, <2>3, <2>4 DEF UsesInv
<1>4. CASE Consume
  <2>1. /\ consumption'.mode = consumption.mode
        /\ consumption.mode = LIMITED => consumption'.useCount = consumption.useCount + 1
    BY <1>1, <1>4, ConsumeEffect
  <2> SUFFICES ASSUME consumption.mode = LIMITED
               PROVE  IsFiniteSet(Users') /\ Cardinality(Users') <= consumption'.useCount
    BY <2>1 DEF UsesInv
  <2>2. IsFiniteSet(Users) /\ Cardinality(Users) <= consumption.useCount
    BY DEF UsesInv
  <2> HIDE DEF Users
  <2> QED BY <1>1, <1>2, <2>1, <2>2
<1>5. CASE consumption' = consumption
  <2> SUFFICES ASSUME consumption.mode = LIMITED
               PROVE  IsFiniteSet(Users') /\ Cardinality(Users') <= consumption.useCount
    BY <1>5 DEF UsesInv
  <2>1. IsFiniteSet(Users) /\ Cardinality(Users) <= consumption.useCount
    BY DEF UsesInv
  <2> QED BY <1>1, <1>2, <2>1
<1> QED
  BY <1>1, <1>3, <1>4, <1>5, QuietEffect DEF FactsNext

LEMMA OneMoreUser ==
  ASSUME VerifierInv, UsesInv, NEW v \in Verifier, ConsumeOnChain(v)
  PROVE  UsesInv'
<1>1. Consume /\ Mined(v, [session[v] EXCEPT !.used = TRUE, !.todo = AfterUse(session[v].program)])
  BY DEF ConsumeOnChain
<1>2. /\ consumption'.mode = consumption.mode
      /\ consumption.mode = LIMITED => consumption'.useCount = consumption.useCount + 1
      /\ consumption.useCount \in Nat
  BY <1>1, ConsumeEffect DEF VerifierInv, FactsInv, FactsTypeOK
<1>3. \A w \in Verifier \ {v} : session'[w].used => session[w].used
  <2> SUFFICES ASSUME NEW w \in Verifier \ {v} PROVE session'[w].used => session[w].used
    OBVIOUS
  <2>1. session'[w] = IF Running(w)
          THEN [session[w] EXCEPT !.steady = session[w].steady /\ factVars' = factVars]
          ELSE session[w]
    BY <1>1 DEF Mined
  <2>2. session[w] \in Sessions
    BY DEF VerifierInv, SessionsInv
  <2>3. CASE ~ Running(w)
    BY <2>1, <2>3
  <2>4. CASE Running(w)
    <3>1. PICK b : session'[w] = [session[w] EXCEPT !.steady = b]
      BY <2>1, <2>4
    <3> QED BY <2>2, <3>1 DEF Sessions
  <2> QED BY <2>3, <2>4
<1>4. Users' \subseteq Users \cup {v}
  BY <1>3 DEF Users
<1> SUFFICES ASSUME consumption.mode = LIMITED
             PROVE  IsFiniteSet(Users') /\ Cardinality(Users') <= consumption'.useCount
  BY <1>2 DEF UsesInv
<1>5. IsFiniteSet(Users) /\ Cardinality(Users) <= consumption.useCount
  BY DEF UsesInv
<1> HIDE DEF Users
<1>6. /\ IsFiniteSet(Users \cup {v})
      /\ Cardinality(Users \cup {v}) = Cardinality(Users)
           \/ Cardinality(Users \cup {v}) = Cardinality(Users) + 1
  BY <1>5, FS_AddElement
<1>7. IsFiniteSet(Users') /\ Cardinality(Users') <= Cardinality(Users \cup {v})
  BY <1>4, <1>6, FS_Subset
<1>8. /\ Cardinality(Users) \in Nat /\ Cardinality(Users') \in Nat
      /\ Cardinality(Users \cup {v}) \in Nat
  BY <1>5, <1>6, <1>7, FS_CardinalityType
<1> QED
  BY <1>2, <1>5, <1>6, <1>7, <1>8

LEMMA UsersStep ==
  ASSUME VerifierInv, UsesInv, [Next]_vars
  PROVE  UsesInv'
<1>1. CASE RegistryMoves
  <2>1. FactsNext
    BY <1>1 DEF RegistryMoves, FactsNext
  <2>2. \A w \in Verifier : session'[w].used => session[w].used
    <3> SUFFICES ASSUME NEW w \in Verifier PROVE session'[w].used => session[w].used
      OBVIOUS
    <3>1. session'[w] = IF Running(w)
            THEN [session[w] EXCEPT !.steady = session[w].steady /\ factVars' = factVars]
            ELSE session[w]
      BY <1>1 DEF RegistryMoves
    <3>2. session[w] \in Sessions
      BY DEF VerifierInv, SessionsInv
    <3>3. CASE ~ Running(w)
      BY <3>1, <3>3
    <3>4. CASE Running(w)
      <4>1. PICK b : session'[w] = [session[w] EXCEPT !.steady = b]
        BY <3>1, <3>4
      <4> QED BY <3>2, <4>1 DEF Sessions
    <3> QED BY <3>3, <3>4
  <2>3. Users' \subseteq Users
    BY <2>2 DEF Users
  <2> QED BY <2>1, <2>3, FewerUsers
<1>2. CASE UNCHANGED vars
  <2>1. UNCHANGED factVars /\ Users' \subseteq Users
    BY <1>2 DEF vars, Users
  <2> QED BY <2>1, FewerUsers
<1>3. ASSUME NEW v \in Verifier,
             BeginCli(v) \/ BeginUi(v) \/ BeginRevoke(v) \/ Read(v) \/ Conclude(v) \/ Fail(v)
      PROVE  UsesInv'
  <2>1. CASE ConsumeOnChain(v)
    BY <2>1, OneMoreUser
  <2>2. CASE ~ ConsumeOnChain(v)
    <3>1. \A w \in Verifier : session'[w].used => session[w].used
      BY <1>3, <2>2, OthersGetNone DEF VerifierInv
    <3>2. Users' \subseteq Users
      BY <3>1 DEF Users
    <3>3. FactsNext \/ UNCHANGED factVars
      BY <1>3, <2>2
      DEF BeginCli, BeginUi, BeginRevoke, BeginWith, Read, Conclude, Fail, Answer, FactsNext,
          ReadAnchored, ReadAnchor, ReadExists, ReadSubjectRevoked, ReadAllowed,
          ReadCredentialRevoked, ReadUseRecord, ReadUseSlot, CheckAvailable, ReadSigned,
          ReadDelegated, ReadIssuer, ReadTrusted, Judge, Reject, ReadShown, Accept,
          SkipConsumption, ConsumeReverts, ReadReceipt, Report, RevokeOnChain
    <3> QED BY <3>2, <3>3, FewerUsers
  <2> QED BY <2>1, <2>2
<1> QED
  BY <1>1, <1>2, <1>3 DEF Next

(* Of a credential limited to n uses at most n sessions ever get one, however   *)
(* many there are and whichever of them fail afterwards.                        *)
THEOREM UsesGranted == SafeSpec => []UsesGrantedWithinLimit
<1>1. Init => UsesInv
  <2> SUFFICES ASSUME Init PROVE UsesInv
    OBVIOUS
  <2>1. consumption = NoConsumption
    BY DEF Init, FactsInit
  <2> QED BY <2>1 DEF UsesInv, NoConsumption, LIMITED
<1>2. VerifierInv /\ UsesInv /\ [Next]_vars => UsesInv'
  BY UsersStep
<1>3. VerifierInv /\ UsesInv => UsesGrantedWithinLimit
  <2> SUFFICES ASSUME VerifierInv, UsesInv, consumption.mode = LIMITED
               PROVE  Cardinality(Users) <= consumption.maxUses
    BY DEF UsesGrantedWithinLimit, Users
  <2>1. /\ IsFiniteSet(Users) /\ Cardinality(Users) <= consumption.useCount
        /\ consumption.useCount <= consumption.maxUses
        /\ consumption.useCount \in Nat /\ consumption.maxUses \in Nat
    BY DEF UsesInv, VerifierInv, FactsInv, FactsTypeOK
  <2>2. Cardinality(Users) \in Nat
    BY <2>1, FS_CardinalityType
  <2> QED BY <2>1, <2>2
<1> QED
  BY <1>1, <1>2, <1>3, VerifierAlways, PTL DEF SafeSpec

------------------------------------------------------------------------------
(* While nothing moves: what is wrong with the credential is still to be asked  *)
(* for, or has been found.                                                      *)
Facts ==
  [model |-> paper.model,
   flawless |-> paper.formed /\ paper.schema /\ paper.hashed /\ paper.proof,
   subject |-> subject, allowed |-> allowed, signed |-> signed, delegated |-> delegated,
   trusted |-> trusted, revoked |-> revoked, anchor |-> anchor,
   configured |-> consumption.configured, available |-> Available]

AllFacts ==
  {f \in [model : {"self", "controller", "external"}, flawless : BOOLEAN,
          subject : {"none", "active", "revoked"}, allowed : BOOLEAN, signed : BOOLEAN,
          delegated : BOOLEAN, trusted : BOOLEAN, revoked : BOOLEAN,
          anchor : {"none", "timely", "untimely"}, configured : BOOLEAN, available : BOOLEAN] :
    ~ f.configured => f.available}

Favourable(f) ==
  /\ f.flawless /\ f.subject = "active" /\ f.allowed
  /\ ~ f.revoked /\ f.available /\ f.anchor # "untimely"
  /\ f.model = "self" => f.signed
  /\ f.model = "controller" => f.delegated
  /\ f.model = "external" => f.trusted

Open(q, f) ==
  /\ f.subject = "none" => Pending(q, "exists")
  /\ f.subject = "revoked" => Pending(q, "subjectRevoked")
  /\ ~ f.allowed => Pending(q, "allowed")
  /\ f.revoked => Pending(q, "credentialRevoked")
  /\ ~ f.available => Pending(q, "available")
  /\ f.anchor = "untimely" => Pending(q, "anchor")
  /\ f.model = "self" /\ ~ f.signed => Pending(q, "signed")
  /\ f.model = "controller" /\ ~ f.delegated => Pending(q, "delegated")
  /\ f.model = "external" /\ ~ f.trusted => Pending(q, "trusted")

Level(s, f) ==
  s.outcome = "running" /\ ~ s.valid /\ ~ Revoking(s) /\ s.steady =>
    /\ ByModel(s.todo, f.model)
    /\ f.anchor = "none" => Coupled(s.todo)
    /\ s.configured = f.configured \/ Preceded(s.todo, "useRecord", "available")
    /\ s.slot = f.available \/ Preceded(s.todo, "useSlot", "available")
    /\ s.ok => f.flawless /\ Open(s.todo, f)
    /\ ~ s.ok => ~ Favourable(f)

LEMMA FactsTyped ==
  ASSUME VerifierInv
  PROVE  /\ Facts \in AllFacts
         /\ Acceptable <=> Favourable(Facts)
<1>1. /\ allowed \in BOOLEAN /\ signed \in BOOLEAN /\ delegated \in BOOLEAN
      /\ trusted \in BOOLEAN /\ revoked \in BOOLEAN
      /\ subject \in {"none", "active", "revoked"}
      /\ anchor \in {"none", "timely", "untimely"}
      /\ consumption.configured \in BOOLEAN
  BY DEF VerifierInv, FactsInv, FactsTypeOK
<1>2. /\ paper.model \in {"self", "controller", "external"}
      /\ (paper.formed /\ paper.schema /\ paper.hashed /\ paper.proof) \in BOOLEAN
  BY PaperAssumption DEF VerifierInv
<1>3. Available \in BOOLEAN /\ (~ consumption.configured => Available)
  BY <1>1 DEF Available
<1>4. Facts \in AllFacts
  <2> HIDE DEF Available
  <2> QED BY <1>1, <1>2, <1>3 DEF Facts, AllFacts
<1>5. /\ Facts.model = paper.model
      /\ Facts.flawless <=> paper.formed /\ paper.schema /\ paper.hashed /\ paper.proof
      /\ Facts.subject = subject /\ (Facts.allowed <=> allowed) /\ (Facts.signed <=> signed)
      /\ (Facts.delegated <=> delegated) /\ (Facts.trusted <=> trusted)
      /\ (Facts.revoked <=> revoked) /\ Facts.anchor = anchor /\ (Facts.available <=> Available)
  BY DEF Facts
<1> HIDE DEF Facts
<1>6. CASE paper.model = "self"
  <2>1. Acceptable <=> /\ paper.formed /\ paper.schema /\ paper.hashed /\ paper.proof
                       /\ subject = "active" /\ allowed /\ ~ Withdrawn /\ signed
    BY <1>6 DEF Acceptable
  <2>2. Favourable(Facts) <=> /\ Facts.flawless /\ Facts.subject = "active" /\ Facts.allowed
                              /\ ~ Facts.revoked /\ Facts.available /\ Facts.anchor # "untimely"
                              /\ Facts.signed
    BY <1>5, <1>6 DEF Favourable
  <2>3. subject = "active" => subject # "revoked"
    OBVIOUS
  <2>4. Withdrawn <=> revoked \/ subject = "revoked" \/ ~ Available \/ anchor = "untimely"
    BY DEF Withdrawn
  <2> HIDE DEF Available
  <2>5. Acceptable => Favourable(Facts)
    BY <1>5, <2>1, <2>2, <2>4
  <2>6. Favourable(Facts) => Acceptable
    BY <1>5, <2>1, <2>2, <2>3, <2>4
  <2> QED BY <1>4, <2>5, <2>6
<1>7. CASE paper.model = "controller"
  <2>1. Acceptable <=> /\ paper.formed /\ paper.schema /\ paper.hashed /\ paper.proof
                       /\ subject = "active" /\ allowed /\ ~ Withdrawn /\ delegated
    BY <1>7 DEF Acceptable
  <2>2. Favourable(Facts) <=> /\ Facts.flawless /\ Facts.subject = "active" /\ Facts.allowed
                              /\ ~ Facts.revoked /\ Facts.available /\ Facts.anchor # "untimely"
                              /\ Facts.delegated
    BY <1>5, <1>7 DEF Favourable
  <2>3. subject = "active" => subject # "revoked"
    OBVIOUS
  <2>4. Withdrawn <=> revoked \/ subject = "revoked" \/ ~ Available \/ anchor = "untimely"
    BY DEF Withdrawn
  <2> HIDE DEF Available
  <2>5. Acceptable => Favourable(Facts)
    BY <1>5, <2>1, <2>2, <2>4
  <2>6. Favourable(Facts) => Acceptable
    BY <1>5, <2>1, <2>2, <2>3, <2>4
  <2> QED BY <1>4, <2>5, <2>6
<1>8. CASE paper.model = "external"
  <2>1. Acceptable <=> /\ paper.formed /\ paper.schema /\ paper.hashed /\ paper.proof
                       /\ subject = "active" /\ allowed /\ ~ Withdrawn /\ trusted
    BY <1>8 DEF Acceptable
  <2>2. Favourable(Facts) <=> /\ Facts.flawless /\ Facts.subject = "active" /\ Facts.allowed
                              /\ ~ Facts.revoked /\ Facts.available /\ Facts.anchor # "untimely"
                              /\ Facts.trusted
    BY <1>5, <1>8 DEF Favourable
  <2>3. subject = "active" => subject # "revoked"
    OBVIOUS
  <2>4. Withdrawn <=> revoked \/ subject = "revoked" \/ ~ Available \/ anchor = "untimely"
    BY DEF Withdrawn
  <2> HIDE DEF Available
  <2>5. Acceptable => Favourable(Facts)
    BY <1>5, <2>1, <2>2, <2>4
  <2>6. Favourable(Facts) => Acceptable
    BY <1>5, <2>1, <2>2, <2>3, <2>4
  <2> QED BY <1>4, <2>5, <2>6
<1> QED
  BY <1>2, <1>4, <1>6, <1>7, <1>8

(* One read, as above: what was wrong and is not asked for any more was found.  *)
LEMMA LevelRead ==
  ASSUME NEW f \in AllFacts, NEW s \in Sessions, NEW S, s.todo \in Seq(S),
         s.outcome = "running", ~ s.valid, ~ Revoking(s), Level(s, f),
         NEW n \in Nat \ {0}, NEW t \in Sessions,
         t.todo = SubSeq(s.todo, n + 1, Len(s.todo)), t.steady => s.steady,
         s.steady /\ t.ok => s.ok,
         s.steady /\ ~ t.ok => ~ s.ok \/ ~ Favourable(f),
         t.slot \in {s.slot, f.available}, t.configured \in {s.configured, f.configured},
         Asked(s, n, "useSlot") => t.slot = f.available,
         Asked(s, n, "useRecord") => t.configured = f.configured,
         s.steady /\ f.anchor = "none" /\ n <= Len(s.todo) => s.todo[n] # "anchored",
         s.steady /\ t.ok =>
           /\ Asked(s, n, "exists") => f.subject # "none"
           /\ Asked(s, n, "subjectRevoked") => f.subject # "revoked"
           /\ Asked(s, n, "allowed") => f.allowed
           /\ Asked(s, n, "credentialRevoked") => ~ f.revoked
           /\ Asked(s, n, "available") => f.available
           /\ Asked(s, n, "anchor") => f.anchor # "untimely"
           /\ Asked(s, n, "signed") => f.signed
           /\ Asked(s, n, "delegated") => f.delegated
           /\ Asked(s, n, "trusted") => f.trusted
  PROVE  Level(t, f)
<1> DEFINE q == s.todo
           r == t.todo
<1> SUFFICES ASSUME t.steady, s.steady
             PROVE  /\ ByModel(r, f.model)
                    /\ f.anchor = "none" => Coupled(r)
                    /\ t.configured = f.configured \/ Preceded(r, "useRecord", "available")
                    /\ t.slot = f.available \/ Preceded(r, "useSlot", "available")
                    /\ t.ok => f.flawless /\ Open(r, f)
                    /\ ~ t.ok => ~ Favourable(f)
  BY DEF Level
<1>1. /\ \A x : ~ Asked(s, n, x) /\ Pending(q, x) => Pending(r, x)
      /\ \A x, y : ~ Asked(s, n, x) /\ Preceded(q, x, y) => Preceded(r, x, y)
      /\ \A model : ByModel(q, model) => ByModel(r, model)
      /\ Coupled(q) /\ (n <= Len(q) => q[n] # "anchored") => Coupled(r)
  <2>1. r = SubSeq(q, n + 1, Len(q)) /\ q \in Seq(S)
    OBVIOUS
  <2> QED BY <2>1, AskedStays
<1>2. /\ ByModel(q, f.model)
      /\ f.anchor = "none" => Coupled(q)
      /\ s.configured = f.configured \/ Preceded(q, "useRecord", "available")
      /\ s.slot = f.available \/ Preceded(q, "useSlot", "available")
      /\ s.ok => f.flawless /\ Open(q, f)
      /\ ~ s.ok => ~ Favourable(f)
  BY DEF Level
<1>3. f.anchor = "none" => Coupled(r)
  BY <1>1, <1>2
<1> HIDE DEF q, r
<1>4. /\ t.configured = f.configured \/ Preceded(r, "useRecord", "available")
      /\ t.slot = f.available \/ Preceded(r, "useSlot", "available")
  BY <1>1, <1>2
<1>5. ASSUME t.ok PROVE Open(r, f)
  <2>1. Open(q, f)
    BY <1>2, <1>5
  <2> QED BY <1>1, <1>5, <2>1 DEF Open
<1> QED
  BY <1>1, <1>2, <1>3, <1>4, <1>5

SteadyInv == \A v \in Verifier : Level(session[v], Facts)

LEMMA SameFacts ==
  ASSUME UNCHANGED <<factVars, paper>>
  PROVE  Facts' = Facts
  BY DEF factVars, Facts, Available, authority

LEMMA LevelKept ==
  ASSUME VerifierInv, SteadyInv, NEW v \in Verifier, NEW t, UNCHANGED <<factVars, paper>>,
         session' = [session EXCEPT ![v] = t], Level(t, Facts)
  PROVE  SteadyInv'
<1>1. \A w \in Verifier : session'[w] = IF w = v THEN t ELSE session[w]
  BY DEF VerifierInv, SessionsInv
<1>2. \A w \in Verifier : Level(session'[w], Facts)
  BY <1>1 DEF SteadyInv
<1> QED
  BY <1>2, SameFacts DEF SteadyInv

(* What has ended or is judged asks no more.                                    *)
LEMMA LevelOver ==
  ASSUME VerifierInv, SteadyInv, NEW v \in Verifier, NEW t, UNCHANGED <<factVars, paper>>,
         session' = [session EXCEPT ![v] = t], t.outcome # "running" \/ t.valid
  PROVE  SteadyInv'
<1>1. Level(t, Facts)
  BY DEF Level
<1> QED
  BY <1>1, LevelKept

LEMMA LevelAnswer ==
  ASSUME VerifierInv, SteadyInv, NEW v \in Verifier, NEW item \in Reads, Next1(v, item),
         ~ session[v].valid,
         NEW n \in Nat \ {0}, NEW check \in BOOLEAN, Answer(v, check, n),
         ~ Asked(session[v], n, "useSlot"),
         ~ Asked(session[v], n, "useRecord"), ~ Asked(session[v], n, "available"),
         Facts.anchor = "none" /\ n <= Len(session[v].todo) => session[v].todo[n] # "anchored",
         ~ check /\ session[v].steady => ~ Favourable(Facts),
         check /\ session[v].steady =>
           /\ Asked(session[v], n, "exists") => Facts.subject # "none"
           /\ Asked(session[v], n, "subjectRevoked") => Facts.subject # "revoked"
           /\ Asked(session[v], n, "allowed") => Facts.allowed
           /\ Asked(session[v], n, "credentialRevoked") => ~ Facts.revoked
           /\ Asked(session[v], n, "anchor") => Facts.anchor # "untimely"
           /\ Asked(session[v], n, "signed") => Facts.signed
           /\ Asked(session[v], n, "delegated") => Facts.delegated
           /\ Asked(session[v], n, "trusted") => Facts.trusted
  PROVE  SteadyInv'
<1> DEFINE s == session[v]
           q == SubSeq(s.todo, n + 1, Len(s.todo))
           t == [s EXCEPT !.ok = s.ok /\ check, !.todo = q]
           f == Facts
<1>1. s \in Sessions /\ s.outcome = "running" /\ ~ Revoking(s)
  BY AskingNow
<1>2. f \in AllFacts /\ Level(s, f)
  BY FactsTyped DEF SteadyInv
<1>3. s.todo \in Seq(Item) /\ q \in Seq(Item)
  <2>1. s.todo \in Seq(Item)
    BY <1>1 DEF Sessions
  <2> QED BY <2>1, Dropped
<1>4. UNCHANGED <<factVars, paper>> /\ session' = [session EXCEPT ![v] = t]
  BY DEF Answer, Rest
<1> HIDE DEF q
<1>5. /\ t \in Sessions
      /\ t.todo = q /\ (t.ok => s.ok /\ check) /\ (~ t.ok => ~ s.ok \/ ~ check)
      /\ t.steady = s.steady /\ t.slot = s.slot /\ t.configured = s.configured
  BY <1>1, <1>3 DEF Sessions
<1> HIDE DEF t, f, s
<1>6. Level(t, f)
  BY <1>1, <1>2, <1>3, <1>5, LevelRead DEF q, f, s
<1> QED
  BY <1>4, <1>6, LevelKept DEF f

LEMMA LevelSingle ==
  ASSUME VerifierInv, SteadyInv, NEW v \in Verifier,
         \/ ReadAnchor(v) \/ ReadSubjectRevoked(v) \/ ReadAllowed(v) \/ ReadCredentialRevoked(v)
         \/ ReadSigned(v) \/ ReadDelegated(v) \/ ReadIssuer(v) \/ ReadTrusted(v)
  PROVE  SteadyInv'
<1> DEFINE s == session[v]
           f == Facts
<1>1. /\ f \in AllFacts
      /\ f.subject = subject /\ f.allowed = allowed /\ f.signed = signed
      /\ f.delegated = delegated /\ f.trusted = trusted /\ f.revoked = revoked
      /\ f.anchor = anchor
  BY FactsTyped DEF Facts
<1>2. /\ f.allowed \in BOOLEAN /\ f.signed \in BOOLEAN /\ f.delegated \in BOOLEAN
      /\ f.trusted \in BOOLEAN /\ f.revoked \in BOOLEAN
  BY <1>1 DEF AllFacts
<1> HIDE DEF f
<1>3. PICK item \in Reads, check \in BOOLEAN :
        /\ Next1(v, item) /\ Answer(v, check, 1)
        /\ item \in {"anchor", "subjectRevoked", "allowed", "credentialRevoked", "signed",
                     "delegated", "issuer", "trusted"}
        /\ item = "anchor" => (check <=> f.anchor = "timely")
        /\ item = "subjectRevoked" => (check <=> f.subject # "revoked")
        /\ item = "allowed" => (check <=> f.allowed)
        /\ item = "credentialRevoked" => (check <=> ~ f.revoked)
        /\ item = "signed" => (check <=> f.signed)
        /\ item = "delegated" => (check <=> f.delegated)
        /\ item = "issuer" => (f.trusted => check)
        /\ item = "trusted" => (check <=> f.trusted)
  <2> USE DEF Reads
  <2>1. CASE ReadAnchor(v)
    <3>1. Next1(v, "anchor") /\ Answer(v, anchor = "timely", 1) /\ (anchor = "timely") \in BOOLEAN
      BY <2>1 DEF ReadAnchor
    <3> QED BY <1>1, <3>1
  <2>2. CASE ReadSubjectRevoked(v)
    <3>1. /\ Next1(v, "subjectRevoked") /\ Answer(v, subject # "revoked", 1)
          /\ (subject # "revoked") \in BOOLEAN
      BY <2>2 DEF ReadSubjectRevoked
    <3> QED BY <1>1, <3>1
  <2>3. CASE ReadAllowed(v)
    BY <1>1, <1>2, <2>3 DEF ReadAllowed
  <2>4. CASE ReadCredentialRevoked(v)
    <3>1. /\ Next1(v, "credentialRevoked") /\ Answer(v, ~ revoked, 1)
          /\ (~ revoked) \in BOOLEAN
      BY <1>1, <1>2, <2>4 DEF ReadCredentialRevoked
    <3> QED BY <1>1, <3>1
  <2>5. CASE ReadSigned(v)
    BY <1>1, <1>2, <2>5 DEF ReadSigned
  <2>6. CASE ReadDelegated(v)
    BY <1>1, <1>2, <2>6 DEF ReadDelegated
  <2>7. CASE ReadIssuer(v)
    BY <1>1, <1>2, <2>7 DEF ReadIssuer
  <2>8. CASE ReadTrusted(v)
    BY <1>1, <1>2, <2>8 DEF ReadTrusted
  <2> QED BY <2>1, <2>2, <2>3, <2>4, <2>5, <2>6, <2>7, <2>8
<1>4. /\ s \in Sessions /\ Sound(s, View) /\ ~ s.valid /\ ~ Revoking(s)
      /\ s.outcome = "running" /\ \A x : Asked(s, 1, x) => x = item
  BY <1>3, AskingNow
<1>5. s.todo \in Seq(Reads \cup {"verdict"}) /\ s.todo[1] = item /\ 1 \in 1 .. Len(s.todo)
  <2>1. /\ s.todo \in Seq(Reads \cup {"verdict"}) /\ Pending(s.todo, "verdict")
        /\ s.todo[1] = item
    BY <1>3, <1>4 DEF Sound, Ahead, Asking, Next1
  <2> QED BY <2>1, LenProperties DEF Pending
<1>6. s.steady => /\ item = "signed" => f.model = "self"
                  /\ item = "delegated" => f.model = "controller"
                  /\ item \in {"issuer", "trusted"} => f.model = "external"
                  /\ item = "anchor" => f.anchor # "none"
  <2> SUFFICES ASSUME s.steady
               PROVE  /\ item = "signed" => f.model = "self"
                      /\ item = "delegated" => f.model = "controller"
                      /\ item \in {"issuer", "trusted"} => f.model = "external"
                      /\ item = "anchor" => f.anchor # "none"
    OBVIOUS
  <2>1. ByModel(s.todo, f.model) /\ (f.anchor = "none" => Coupled(s.todo))
    BY <1>4 DEF SteadyInv, Level, f
  <2>2. /\ item = "signed" => f.model = "self"
        /\ item = "delegated" => f.model = "controller"
        /\ item \in {"issuer", "trusted"} => f.model = "external"
    BY <1>5, <2>1 DEF ByModel
  <2>3. item = "anchor" => f.anchor # "none"
    BY <1>5, <2>1 DEF Coupled
  <2> QED BY <2>2, <2>3
<1>7. ~ check /\ s.steady => ~ Favourable(f)
  <2>1. f.anchor \in {"none", "timely", "untimely"}
    BY <1>1 DEF AllFacts
  <2> QED BY <1>2, <1>3, <1>6, <2>1 DEF Favourable
<1>8. /\ ~ Asked(session[v], 1, "useSlot") /\ ~ Asked(session[v], 1, "useRecord")
      /\ ~ Asked(session[v], 1, "available")
      /\ session[v].todo[1] # "anchored"
  BY <1>3, <1>4, <1>5
<1>9. check =>
        /\ Asked(session[v], 1, "exists") => f.subject # "none"
        /\ Asked(session[v], 1, "subjectRevoked") => f.subject # "revoked"
        /\ Asked(session[v], 1, "allowed") => f.allowed
        /\ Asked(session[v], 1, "credentialRevoked") => ~ f.revoked
        /\ Asked(session[v], 1, "anchor") => f.anchor # "untimely"
        /\ Asked(session[v], 1, "signed") => f.signed
        /\ Asked(session[v], 1, "delegated") => f.delegated
        /\ Asked(session[v], 1, "trusted") => f.trusted
  BY <1>3, <1>4
<1>10. 1 \in Nat \ {0}
  OBVIOUS
<1> QED
  BY <1>3, <1>4, <1>7, <1>8, <1>9, <1>10, LevelAnswer DEF f

LEMMA LevelAnchored ==
  ASSUME VerifierInv, SteadyInv, NEW v \in Verifier, ReadAnchored(v)
  PROVE  SteadyInv'
<1> DEFINE s == session[v]
           n == IF anchor = "none" THEN 2 ELSE 1
           f == Facts
<1>1. Next1(v, "anchored") /\ Answer(v, TRUE, n) /\ "anchored" \in Reads /\ n \in {1, 2}
      /\ (anchor = "none" => n = 2)
  BY DEF ReadAnchored, Reads
<1>2. ~ Revoking(s) /\ ~ s.valid /\ Sound(s, View)
  BY <1>1, AskingNow
<1>3. /\ s.todo \in Seq(Reads \cup {"verdict"}) /\ s.todo[1] = "anchored"
      /\ Linked(s.todo, s.program) /\ Len(s.todo) \in Nat
  BY <1>1, <1>2, LenProperties DEF Sound, Ahead, Asking, Next1
<1>4. 1 <= Len(s.todo) => s.todo[2] = "anchor"
  BY <1>3 DEF Linked
<1>5. \A x : Asked(s, n, x) => x = "anchored" \/ (x = "anchor" /\ anchor = "none")
  <2>1. n = 2 => anchor = "none"
    OBVIOUS
  <2> HIDE DEF n
  <2> QED BY <1>1, <1>3, <1>4, <2>1 DEF Asked
<1>6. f.anchor = anchor
  BY DEF Facts
<1> HIDE DEF n, f
<1>7. f.anchor = "none" /\ n <= Len(session[v].todo) => session[v].todo[n] # "anchored"
  BY <1>1, <1>3, <1>4, <1>6
<1>8. /\ ~ Asked(session[v], n, "useSlot") /\ ~ Asked(session[v], n, "useRecord")
      /\ ~ Asked(session[v], n, "available") /\ ~ Asked(session[v], n, "exists")
      /\ ~ Asked(session[v], n, "credentialRevoked") /\ ~ Asked(session[v], n, "signed")
      /\ ~ Asked(session[v], n, "subjectRevoked") /\ ~ Asked(session[v], n, "allowed")
      /\ ~ Asked(session[v], n, "delegated") /\ ~ Asked(session[v], n, "trusted")
      /\ Asked(session[v], n, "anchor") => f.anchor # "untimely"
  BY <1>5, <1>6
<1>9. n \in Nat \ {0} /\ TRUE \in BOOLEAN
  BY <1>1
<1> QED
  BY <1>1, <1>2, <1>7, <1>8, <1>9, LevelAnswer DEF f

LEMMA LevelExists ==
  ASSUME VerifierInv, SteadyInv, NEW v \in Verifier, ReadExists(v)
  PROVE  SteadyInv'
<1> DEFINE s == session[v]
           f == Facts
<1>1. Next1(v, "exists") /\ "exists" \in Reads
  BY DEF ReadExists, Reads
<1>2. /\ ~ Revoking(s) /\ ~ s.valid /\ Sound(s, View)
      /\ \A x : Asked(s, 1, x) => x = "exists"
  BY <1>1, AskingNow
<1>3. /\ s.todo \in Seq(Reads \cup {"verdict"}) /\ s.todo[1] = "exists"
      /\ Linked(s.todo, s.program) /\ Len(s.todo) \in Nat
  BY <1>1, <1>2, LenProperties DEF Sound, Ahead, Asking, Next1
<1>4. f.subject = subject
  BY DEF Facts
<1>5. CASE subject # "none"
  <2>1. Answer(v, TRUE, 1)
    BY <1>5 DEF ReadExists
  <2>2. /\ ~ Asked(session[v], 1, "useSlot") /\ ~ Asked(session[v], 1, "useRecord")
        /\ ~ Asked(session[v], 1, "available") /\ ~ Asked(session[v], 1, "anchor")
        /\ ~ Asked(session[v], 1, "credentialRevoked") /\ ~ Asked(session[v], 1, "signed")
        /\ ~ Asked(session[v], 1, "subjectRevoked") /\ ~ Asked(session[v], 1, "allowed")
        /\ ~ Asked(session[v], 1, "delegated") /\ ~ Asked(session[v], 1, "trusted")
    BY <1>2
  <2>3. 1 \in Nat \ {0} /\ TRUE \in BOOLEAN /\ session[v].todo[1] # "anchored"
    BY <1>3
  <2>4. f.subject # "none"
    BY <1>4, <1>5
  <2> HIDE DEF f
  <2> QED BY <1>1, <1>2, <2>1, <2>2, <2>3, <2>4, LevelAnswer DEF f
<1>6. CASE subject = "none" /\ session[v].program = "cli"
  <2>1. Answer(v, FALSE, 3)
    BY <1>6 DEF ReadExists
  <2>2. 1 <= Len(s.todo) => s.todo[2] = "subjectRevoked" /\ s.todo[3] = "allowed"
    BY <1>3, <1>6 DEF Linked
  <2>3. \A x : Asked(s, 3, x) => x \in {"exists", "subjectRevoked", "allowed"}
    BY <1>3, <2>2 DEF Asked
  <2>4. /\ ~ Asked(session[v], 3, "useSlot") /\ ~ Asked(session[v], 3, "useRecord")
        /\ ~ Asked(session[v], 3, "available")
    BY <2>3
  <2>5. ~ Favourable(f)
    BY <1>4, <1>6 DEF Favourable
  <2>6. 3 \in Nat \ {0} /\ FALSE \in BOOLEAN
    OBVIOUS
  <2>7. 3 <= Len(session[v].todo) => session[v].todo[3] # "anchored"
    BY <1>3, <2>2
  <2> HIDE DEF f
  <2> QED BY <1>1, <1>2, <2>1, <2>4, <2>5, <2>6, <2>7, LevelAnswer DEF f
<1>7. CASE subject = "none" /\ session[v].program # "cli"
  <2>1. End(v, "failed") /\ UNCHANGED <<factVars, paper>>
    BY <1>7 DEF ReadExists
  <2>2. session[v] \in Sessions
    BY DEF VerifierInv, SessionsInv
  <2> DEFINE t == [session[v] EXCEPT !.outcome = "failed", !.todo = <<>>]
  <2>3. session' = [session EXCEPT ![v] = t] /\ t.outcome # "running"
    BY <2>1, <2>2 DEF End, Sessions
  <2> HIDE DEF t
  <2> QED BY <2>1, <2>3, LevelOver
<1> QED
  BY <1>5, <1>6, <1>7

LEMMA LevelUses ==
  ASSUME VerifierInv, SteadyInv, NEW v \in Verifier, ~ session[v].valid,
         ReadUseRecord(v) \/ ReadUseSlot(v) \/ CheckAvailable(v)
  PROVE  SteadyInv'
<1> DEFINE s == session[v]
           q == SubSeq(s.todo, 1 + 1, Len(s.todo))
           f == Facts
<1>1. PICK item \in {"useRecord", "useSlot", "available"} : Next1(v, item) /\ item \in Reads
  BY DEF ReadUseRecord, ReadUseSlot, CheckAvailable, Reads
<1>2. /\ s \in Sessions /\ Sound(s, View) /\ s.outcome = "running" /\ ~ Revoking(s)
      /\ \A x : Asked(s, 1, x) => x = item
  BY <1>1, AskingNow
<1>3. s.todo \in Seq(Item) /\ q \in Seq(Item)
  <2>1. s.todo \in Seq(Item)
    BY <1>2 DEF Sessions
  <2> QED BY <2>1, Dropped
<1>4. UNCHANGED <<factVars, paper>>
  BY DEF ReadUseRecord, ReadUseSlot, CheckAvailable
<1>5. f \in AllFacts /\ Level(s, f) /\ f.configured = consumption.configured
      /\ f.available = Available
  BY FactsTyped DEF SteadyInv, Facts
<1>6. /\ s.slot \in BOOLEAN /\ s.configured \in BOOLEAN
      /\ f.available \in BOOLEAN /\ f.configured \in BOOLEAN
      /\ (~ f.configured => f.available)
  BY <1>2, <1>5 DEF Sessions, AllFacts
<1>7. 1 \in Nat \ {0} /\ ~ s.valid
  OBVIOUS
<1>8. s.todo \in Seq(Reads \cup {"verdict"}) /\ s.todo[1] = item /\ 1 \in 1 .. Len(s.todo)
  <2>1. /\ s.todo \in Seq(Reads \cup {"verdict"}) /\ Pending(s.todo, "verdict")
        /\ s.todo[1] = item
    BY <1>1, <1>2 DEF Sound, Ahead, Asking, Next1
  <2> QED BY <2>1, LenProperties DEF Pending
<1>9. s.todo[1] # "anchored"
  BY <1>8
<1>10. CASE item = "useRecord"
  <2> DEFINE t == [s EXCEPT !.configured = f.configured, !.todo = q]
  <2>1. session' = [session EXCEPT ![v] = t]
    BY <1>1, <1>5, <1>10 DEF ReadUseRecord, ReadUseSlot, CheckAvailable, Next1, Rest
  <2> HIDE DEF q, f
  <2>2. /\ t \in Sessions
        /\ t.todo = q /\ t.ok = s.ok /\ t.steady = s.steady
        /\ t.slot = s.slot /\ t.configured = f.configured
    BY <1>2, <1>3, <1>6 DEF Sessions
  <2> HIDE DEF t, s
  <2>3. /\ ~ Asked(s, 1, "useSlot") /\ ~ Asked(s, 1, "exists")
        /\ ~ Asked(s, 1, "credentialRevoked") /\ ~ Asked(s, 1, "subjectRevoked")
        /\ ~ Asked(s, 1, "anchor") /\ ~ Asked(s, 1, "available") /\ ~ Asked(s, 1, "allowed")
        /\ ~ Asked(s, 1, "signed") /\ ~ Asked(s, 1, "delegated") /\ ~ Asked(s, 1, "trusted")
    BY <1>2, <1>10
  <2>4. Level(t, f)
    BY <1>2, <1>3, <1>5, <1>7, <1>9, <2>2, <2>3, LevelRead DEF q
  <2> QED BY <1>4, <2>1, <2>4, LevelKept DEF f
<1>11. CASE item = "useSlot"
  <2> DEFINE t == [s EXCEPT !.slot = f.available, !.todo = q]
  <2>1. session' = [session EXCEPT ![v] = t]
    BY <1>1, <1>5, <1>11 DEF ReadUseRecord, ReadUseSlot, CheckAvailable, Next1, Rest
  <2> HIDE DEF q, f
  <2>2. /\ t \in Sessions
        /\ t.todo = q /\ t.ok = s.ok /\ t.steady = s.steady
        /\ t.slot = f.available /\ t.configured = s.configured
    BY <1>2, <1>3, <1>6 DEF Sessions
  <2> HIDE DEF t, s
  <2>3. /\ ~ Asked(s, 1, "useRecord") /\ ~ Asked(s, 1, "exists")
        /\ ~ Asked(s, 1, "credentialRevoked") /\ ~ Asked(s, 1, "subjectRevoked")
        /\ ~ Asked(s, 1, "anchor") /\ ~ Asked(s, 1, "available") /\ ~ Asked(s, 1, "allowed")
        /\ ~ Asked(s, 1, "signed") /\ ~ Asked(s, 1, "delegated") /\ ~ Asked(s, 1, "trusted")
    BY <1>2, <1>11
  <2>4. Level(t, f)
    BY <1>2, <1>3, <1>5, <1>7, <1>9, <2>2, <2>3, LevelRead DEF q
  <2> QED BY <1>4, <2>1, <2>4, LevelKept DEF f
<1>12. CASE item = "available"
  <2> DEFINE free == ~ s.configured \/ s.slot
             t == [s EXCEPT !.ok = s.ok /\ free, !.refused = ~ free, !.todo = q]
  <2>1. CheckAvailable(v) /\ s.todo[1] = "available"
    BY <1>1, <1>12 DEF ReadUseRecord, ReadUseSlot, Next1
  <2>2. session' = [session EXCEPT ![v] = t]
    BY <2>1 DEF CheckAvailable, Rest
  <2>3. s.steady => s.configured = f.configured /\ s.slot = f.available
    <3>1. /\ ~ Preceded(s.todo, "useRecord", "available")
          /\ ~ Preceded(s.todo, "useSlot", "available")
      BY <1>8, <2>1 DEF Preceded
    <3> QED BY <1>2, <1>5, <1>7, <3>1 DEF Level
  <2>4. s.steady => (free <=> f.available) /\ (~ free => ~ Favourable(f))
    BY <1>6, <2>3 DEF Favourable
  <2>5. free \in BOOLEAN
    BY <1>6
  <2> HIDE DEF q, f, free
  <2>6. /\ t \in Sessions
        /\ t.todo = q /\ (t.ok => s.ok /\ free) /\ (~ t.ok => ~ s.ok \/ ~ free)
        /\ t.steady = s.steady /\ t.slot = s.slot /\ t.configured = s.configured
    BY <1>2, <1>3, <2>5 DEF Sessions
  <2> HIDE DEF t, s
  <2>7. /\ ~ Asked(s, 1, "useRecord") /\ ~ Asked(s, 1, "useSlot") /\ ~ Asked(s, 1, "exists")
        /\ ~ Asked(s, 1, "credentialRevoked") /\ ~ Asked(s, 1, "subjectRevoked")
        /\ ~ Asked(s, 1, "anchor") /\ ~ Asked(s, 1, "allowed")
        /\ ~ Asked(s, 1, "signed") /\ ~ Asked(s, 1, "delegated") /\ ~ Asked(s, 1, "trusted")
    BY <1>2, <1>12
  <2>8. Level(t, f)
    BY <1>2, <1>3, <1>5, <1>7, <1>9, <2>4, <2>6, <2>7, LevelRead DEF q
  <2> QED BY <1>4, <2>2, <2>8, LevelKept DEF f
<1> QED
  BY <1>10, <1>11, <1>12

LEMMA LevelBegins ==
  ASSUME VerifierInv, SteadyInv, NEW v \in Verifier,
         BeginCli(v) \/ BeginUi(v) \/ BeginRevoke(v)
  PROVE  SteadyInv'
<1> DEFINE f == Facts
           ok == paper.formed /\ paper.schema /\ paper.hashed /\ paper.proof
<1>1. paper \in Paper
  BY DEF VerifierInv
<1>2. PICK program, outcome, reads :
        /\ program \in {"cli", "ui"} /\ outcome \in {"running", "failed"}
        /\ BeginWith(v, program, outcome, reads)
        /\ outcome = "running" /\ reads # <<"revoke">> => Planned(reads, program)
  <2>1. CASE BeginCli(v)
    <3>1. PICK uses \in UseReads, finalUses \in UseReads :
            BeginWith(v, "cli", "running", CliReads(uses, finalUses))
      BY <2>1 DEF BeginCli
    <3>2. Planned(CliReads(uses, finalUses), "cli")
      BY <1>1, CliPlanned
    <3> QED BY <3>1, <3>2
  <2>2. CASE BeginUi(v) /\ paper.formed
    <3>1. PICK uses \in UseReads : BeginWith(v, "ui", "running", UiReads(uses))
      BY <2>2 DEF BeginUi
    <3>2. Planned(UiReads(uses), "ui")
      BY <1>1, UiPlanned
    <3> QED BY <3>1, <3>2
  <2>3. CASE BeginUi(v) /\ ~ paper.formed
    <3>1. BeginWith(v, "ui", "failed", <<>>)
      BY <2>3 DEF BeginUi
    <3> QED BY <3>1
  <2>4. CASE BeginRevoke(v)
    <3>1. \/ BeginWith(v, "ui", "running", <<"revoke">>)
          \/ BeginWith(v, "ui", "failed", <<>>)
      BY <2>4 DEF BeginRevoke
    <3> QED BY <3>1
  <2> QED BY <2>1, <2>2, <2>3, <2>4
<1> DEFINE t == [Idle EXCEPT !.program = program, !.outcome = outcome, !.todo = reads,
                             !.ok = ok, !.began = Beginning]
<1>3. UNCHANGED <<factVars, paper>> /\ session' = [session EXCEPT ![v] = t]
  BY <1>2 DEF BeginWith
<1>4. /\ t.outcome = outcome /\ t.todo = reads /\ t.ok = ok /\ ~ t.valid
  BY DEF Idle
<1>5. f.flawless = ok /\ f.model = paper.model /\ f \in AllFacts
  BY FactsTyped DEF Facts
<1> HIDE DEF t, f
<1>6. ASSUME Planned(reads, program) PROVE Level(t, f)
  <2>1. /\ ByModel(reads, f.model) /\ Coupled(reads)
        /\ Preceded(reads, "useRecord", "available") /\ Preceded(reads, "useSlot", "available")
    BY <1>5, <1>6 DEF Planned, Plan
  <2>2. ~ ok => ~ Favourable(f)
    BY <1>5 DEF Favourable
  <2>3. ok => Thorough(reads)
    BY <1>6 DEF Planned
  <2> HIDE DEF ok
  <2>4. ok => f.flawless /\ Open(reads, f)
    BY <1>5, <2>3 DEF Thorough, Open, AsksAuthority
  <2> QED BY <1>4, <2>1, <2>2, <2>4 DEF Level
<1>7. Level(t, f)
  BY <1>2, <1>4, <1>6 DEF Level, Revoking
<1> QED
  BY <1>3, <1>7, LevelKept DEF f

LEMMA LevelWatches ==
  ASSUME VerifierInv, SteadyInv, NEW w \in Verifier, Watches(w), paper' = paper
  PROVE  Level(session'[w], Facts')
<1> DEFINE s == session[w]
<1>1. s \in Sessions /\ Level(s, Facts)
  BY DEF VerifierInv, SessionsInv, SteadyInv
<1>2. CASE ~ Running(w)
  BY <1>2 DEF Watches, Running, Level
<1>3. CASE Running(w) /\ factVars' = factVars
  <2> DEFINE t == [s EXCEPT !.steady = s.steady /\ TRUE]
  <2>1. session'[w] = t
    BY <1>3 DEF Watches
  <2>2. /\ t.outcome = s.outcome /\ t.valid = s.valid /\ t.todo = s.todo /\ t.ok = s.ok
        /\ t.configured = s.configured /\ t.slot = s.slot /\ (t.steady => s.steady)
    BY <1>1 DEF Sessions
  <2> HIDE DEF t
  <2>3. Level(t, Facts)
    BY <1>1, <2>2 DEF Level, Revoking
  <2>4. Facts' = Facts
    BY <1>3, SameFacts
  <2> QED BY <2>1, <2>3, <2>4
<1>4. CASE Running(w) /\ factVars' # factVars
  <2> DEFINE t == [s EXCEPT !.steady = s.steady /\ FALSE]
  <2>1. session'[w] = t
    BY <1>4 DEF Watches
  <2>2. ~ t.steady
    BY <1>1 DEF Sessions
  <2> HIDE DEF t
  <2> QED BY <2>1, <2>2 DEF Level
<1> QED
  BY <1>2, <1>3, <1>4

LEMMA LevelMined ==
  ASSUME VerifierInv, SteadyInv, NEW v \in Verifier, NEW t, Mined(v, t),
         Revoking(t) \/ t.valid
  PROVE  SteadyInv'
<1>1. /\ paper' = paper
      /\ session' = [w \in Verifier |->
           IF w = v THEN t
           ELSE IF Running(w)
                THEN [session[w] EXCEPT !.steady = session[w].steady /\ factVars' = factVars]
           ELSE session[w]]
  BY DEF Mined
<1>2. \A w \in Verifier : IF w = v THEN session'[w] = t ELSE Watches(w)
  BY <1>1 DEF Watches
<1>3. \A w \in Verifier : Level(session'[w], Facts')
  <2> SUFFICES ASSUME NEW w \in Verifier PROVE Level(session'[w], Facts')
    OBVIOUS
  <2>1. CASE w = v
    BY <1>2, <2>1 DEF Level
  <2>2. CASE w # v
    BY <1>1, <1>2, <2>2, LevelWatches
  <2> QED BY <2>1, <2>2
<1> QED
  BY <1>3 DEF SteadyInv

LEMMA LevelEnds ==
  ASSUME VerifierInv, SteadyInv, NEW v \in Verifier, UNCHANGED <<factVars, paper>>,
         NEW outcome, outcome # "running", End(v, outcome)
  PROVE  SteadyInv'
<1> DEFINE s == session[v]
           t == [s EXCEPT !.outcome = outcome, !.todo = <<>>]
<1>1. session' = [session EXCEPT ![v] = t]
  BY DEF End
<1>2. s \in Sessions
  BY DEF VerifierInv, SessionsInv
<1>3. t.outcome # "running"
  BY <1>2 DEF Sessions
<1> HIDE DEF t
<1> QED
  BY <1>1, <1>3, LevelOver

LEMMA LevelJudged ==
  ASSUME VerifierInv, SteadyInv, NEW v \in Verifier,
         \/ session[v].valid /\ (ReadUseRecord(v) \/ ReadUseSlot(v) \/ CheckAvailable(v))
         \/ ReadShown(v) \/ Judge(v)
         \/ session[v].used /\ ReadReceipt(v)
  PROVE  SteadyInv'
<1> DEFINE s == session[v]
<1>1. s \in Sessions /\ session \in [Verifier -> Sessions]
  BY DEF VerifierInv, SessionsInv
<1>2. s.valid \/ Judge(v)
  <2>1. /\ ReadShown(v) => Running(v) /\ session[v].todo[1] = "shown"
        /\ ReadReceipt(v) => Running(v)
    BY DEF ReadShown, ReadReceipt, Next1
  <2> QED BY <2>1, JudgedNow
<1>3. UNCHANGED <<factVars, paper>>
  BY DEF ReadUseRecord, ReadUseSlot, CheckAvailable, ReadShown, ReadReceipt, Answer, Judge
<1>4. PICK t : session' = [session EXCEPT ![v] = t] /\ t.valid
  <2>1. CASE s.valid /\ ReadUseRecord(v)
    <3> DEFINE u == [s EXCEPT !.configured = consumption.configured, !.todo = Rest(v, 1)]
    <3>1. session' = [session EXCEPT ![v] = u]
      BY <2>1 DEF ReadUseRecord
    <3>2. u.valid
      BY <1>1, <2>1 DEF Sessions
    <3> QED BY <3>1, <3>2
  <2>2. CASE s.valid /\ ReadUseSlot(v)
    <3> DEFINE u == [s EXCEPT !.slot = Available, !.todo = Rest(v, 1)]
    <3>1. session' = [session EXCEPT ![v] = u]
      BY <2>2 DEF ReadUseSlot
    <3>2. u.valid
      BY <1>1, <2>2 DEF Sessions
    <3> QED BY <3>1, <3>2
  <2>3. CASE s.valid /\ CheckAvailable(v)
    <3> DEFINE free == ~ s.configured \/ s.slot
               u == [s EXCEPT !.ok = s.ok /\ free, !.refused = ~ free, !.todo = Rest(v, 1)]
    <3>1. session' = [session EXCEPT ![v] = u]
      BY <2>3 DEF CheckAvailable
    <3>2. u.valid
      BY <1>1, <2>3 DEF Sessions
    <3> QED BY <3>1, <3>2
  <2>4. CASE s.valid /\ (ReadShown(v) \/ (s.used /\ ReadReceipt(v)))
    <3> DEFINE u == [s EXCEPT !.ok = s.ok /\ TRUE, !.todo = Rest(v, 1)]
    <3>1. session' = [session EXCEPT ![v] = u]
      BY <2>4 DEF ReadShown, ReadReceipt, Answer
    <3>2. u.valid
      BY <1>1, <2>4 DEF Sessions
    <3> QED BY <3>1, <3>2
  <2>5. CASE Judge(v)
    <3>1. PICK q : session' = [session EXCEPT ![v].valid = TRUE, ![v].todo = q]
      BY <2>5 DEF Judge
    <3> DEFINE u == [s EXCEPT !.valid = TRUE, !.todo = q]
    <3>2. session' = [session EXCEPT ![v] = u]
      BY <3>1
    <3>3. u.valid
      BY <1>1 DEF Sessions
    <3> QED BY <3>2, <3>3
  <2> QED BY <1>2, <2>1, <2>2, <2>3, <2>4, <2>5
<1> QED
  BY <1>3, <1>4, LevelOver

LEMMA LevelSteps ==
  ASSUME VerifierInv, SteadyInv, [Next]_vars
  PROVE  SteadyInv'
<1>1. CASE RegistryMoves
  <2>1. paper' = paper /\ \A w \in Verifier : Watches(w)
    BY <1>1 DEF RegistryMoves, Watches
  <2>2. \A w \in Verifier : Level(session'[w], Facts')
    BY <2>1, LevelWatches
  <2> QED BY <2>2 DEF SteadyInv
<1>2. CASE UNCHANGED vars
  <2>1. UNCHANGED <<factVars, paper>> /\ session' = session
    BY <1>2 DEF vars
  <2>2. Facts' = Facts
    BY <2>1, SameFacts
  <2> QED BY <2>1, <2>2 DEF SteadyInv
<1>3. ASSUME NEW v \in Verifier, Read(v) PROVE SteadyInv'
  <2>1. CASE ReadAnchored(v)
    BY <2>1, LevelAnchored
  <2>2. CASE ReadExists(v)
    BY <2>2, LevelExists
  <2>3. CASE ReadUseRecord(v) \/ ReadUseSlot(v) \/ CheckAvailable(v)
    BY <2>3, LevelUses, LevelJudged
  <2>4. CASE \/ ReadAnchor(v) \/ ReadSubjectRevoked(v) \/ ReadAllowed(v) \/ ReadCredentialRevoked(v)
             \/ ReadSigned(v) \/ ReadDelegated(v) \/ ReadIssuer(v) \/ ReadTrusted(v)
    BY <2>4, LevelSingle
  <2> QED BY <1>3, <2>1, <2>2, <2>3, <2>4 DEF Read
<1>4. ASSUME NEW v \in Verifier, Conclude(v) PROVE SteadyInv'
  <2>1. CASE Judge(v) \/ ReadShown(v)
    BY <2>1, LevelJudged
  <2>2. CASE Reject(v) \/ Accept(v) \/ SkipConsumption(v) \/ ConsumeReverts(v) \/ Report(v)
    BY <2>2, LevelEnds DEF Reject, Accept, SkipConsumption, ConsumeReverts, Report
  <2>3. CASE RevokeOnChain(v)
    <3> DEFINE t == [session[v] EXCEPT !.todo = <<"receipt">>]
    <3>1. Mined(v, t) /\ session[v] \in Sessions
      BY <2>3 DEF RevokeOnChain, VerifierInv, SessionsInv
    <3>2. Revoking(t)
      BY <3>1 DEF Sessions, Revoking
    <3> HIDE DEF t
    <3> QED BY <3>1, <3>2, LevelMined
  <2>4. CASE ConsumeOnChain(v)
    <3> DEFINE t == [session[v] EXCEPT !.used = TRUE, !.todo = AfterUse(session[v].program)]
    <3>1. Mined(v, t) /\ Running(v) /\ session[v].todo[1] = "consume"
      BY <2>4 DEF ConsumeOnChain, Next1
    <3>2. session[v].valid /\ session[v] \in Sessions
      BY <3>1, JudgedNow
    <3>3. t.valid
      BY <3>2 DEF Sessions
    <3> HIDE DEF t
    <3> QED BY <3>1, <3>3, LevelMined
  <2>5. CASE ReadReceipt(v)
    <3>1. CASE session[v].used
      BY <2>5, <3>1, LevelJudged
    <3>2. CASE ~ session[v].used
      BY <2>5, <3>2, LevelEnds DEF ReadReceipt
    <3> QED BY <3>1, <3>2
  <2> QED BY <1>4, <2>1, <2>2, <2>3, <2>4, <2>5 DEF Conclude
<1>5. ASSUME NEW v \in Verifier, Fail(v) PROVE SteadyInv'
  BY <1>5, LevelEnds DEF Fail
<1> QED
  BY <1>1, <1>2, <1>3, <1>4, <1>5, LevelBegins DEF Next

(* What a session that comes to its verdict has found out.                      *)
LEMMA VerdictNow ==
  ASSUME VerifierInv, SteadyInv, NEW v \in Verifier, Next1(v, "verdict"), session[v].steady
  PROVE  /\ ~ session[v].valid /\ session[v].outcome = "running"
         /\ session[v].ok <=> Acceptable
<1> DEFINE s == session[v]
           f == Facts
<1>1. s \in Sessions /\ Sound(s, View) /\ s.outcome = "running" /\ s.todo[1] = "verdict"
  BY DEF VerifierInv, SessionsInv, Next1, Running
<1>2. ~ s.valid
  <2> SUFFICES ASSUME s.valid PROVE FALSE
    OBVIOUS
  <2>1. s.todo \in Rests(s.used) \ {<<>>}
    BY <1>1, JudgedNow DEF Running
  <2> QED BY <1>1, <2>1 DEF Rests
<1>3. ~ Revoking(s) /\ Asking(s, View)
  BY <1>1, <1>2 DEF Sound, Ahead, Revoking
<1>4. \A x : Pending(s.todo, x) => x = "verdict"
  <2>1. /\ s.todo \in Seq(Reads \cup {"verdict"}) /\ Pending(s.todo, "verdict")
        /\ VerdictLast(s.todo)
    BY <1>1, <1>3 DEF Asking
  <2>2. 1 \in 1 .. Len(s.todo)
    BY <2>1, LenProperties DEF Pending
  <2>3. Len(s.todo) = 1
    BY <1>1, <2>1, <2>2 DEF VerdictLast
  <2> QED BY <1>1, <2>3 DEF Pending
<1>5. Level(s, f) /\ f \in AllFacts /\ (Acceptable <=> Favourable(f))
  BY FactsTyped DEF SteadyInv
<1>6. /\ s.ok => f.flawless /\ Open(s.todo, f)
      /\ ~ s.ok => ~ Favourable(f)
  BY <1>1, <1>2, <1>3, <1>5 DEF Level
<1> HIDE DEF f, s
<1>7. Open(s.todo, f) /\ f.flawless => Favourable(f)
  BY <1>4, <1>5 DEF Open, Favourable, AllFacts
<1> QED
  BY <1>1, <1>2, <1>5, <1>6, <1>7 DEF s

(* While nothing moves, both programs give the one verdict that the registry's  *)
(* answers amount to.                                                           *)
THEOREM VerdictsAgree == SafeSpec => SteadyVerdict
<1> DEFINE Told(v) == /\ session'[v].valid => Acceptable
                      /\ session'[v].outcome = "invalid" => ~ Acceptable
<1>1. Init => SteadyInv
  <2>1. Idle.outcome # "running"
    BY DEF Idle
  <2> QED BY <2>1 DEF Init, SteadyInv, Level
<1>2. VerifierInv /\ SteadyInv /\ [Next]_vars => SteadyInv'
  BY LevelSteps
<1>3. ASSUME VerifierInv, SteadyInv, [Next]_vars,
             NEW v \in Verifier, Next1(v, "verdict"), session[v].steady
      PROVE  Told(v)
  <2> DEFINE s == session[v]
  <2>1. ~ s.valid /\ s.outcome = "running" /\ (s.ok <=> Acceptable) /\ s.todo[1] = "verdict"
    BY <1>3, VerdictNow DEF Next1
  <2>2. s \in Sessions /\ session \in [Verifier -> Sessions]
    BY <1>3 DEF VerifierInv, SessionsInv
  <2> HIDE DEF Acceptable
  <2>3. CASE ~ session'[v].valid /\ session'[v].outcome = "running"
    BY <2>3
  <2>4. CASE Watches(v)
    <3>1. PICK b : session'[v] \in {s, [s EXCEPT !.steady = b]}
      BY <2>4 DEF Watches
    <3>2. ~ session'[v].valid /\ session'[v].outcome = "running"
      BY <2>1, <2>2, <3>1 DEF Sessions
    <3> QED BY <3>2
  <2>5. CASE session'[v] = s
    BY <2>1, <2>5
  <2>6. CASE Judge(v)
    <3>1. s.ok /\ session'[v].outcome = s.outcome
      BY <2>2, <2>6 DEF Judge, Sessions
    <3> QED BY <2>1, <3>1
  <2>7. CASE Reject(v)
    <3>1. ~ s.ok /\ session'[v].valid = s.valid
      BY <2>2, <2>7 DEF Reject, End, Sessions
    <3> QED BY <2>1, <3>1
  <2>8. CASE RegistryMoves
    <3>1. Watches(v)
      BY <2>8 DEF RegistryMoves, Watches
    <3> QED BY <2>4, <3>1
  <2>9. CASE UNCHANGED vars
    BY <2>5, <2>9 DEF vars
  <2>10. ASSUME NEW w \in Verifier, w # v,
                \/ BeginCli(w) \/ BeginUi(w) \/ BeginRevoke(w) \/ Read(w) \/ Conclude(w) \/ Fail(w)
         PROVE  session'[v] = s \/ Watches(v)
    <3>1. ASSUME NEW t, session' = [session EXCEPT ![w] = t] PROVE session'[v] = s
      BY <2>2, <2>10, <3>1
    <3>2. ASSUME NEW outcome, End(w, outcome) PROVE session'[v] = s
      BY <2>2, <2>10, <3>2 DEF End
    <3>3. ASSUME NEW check, NEW n, Answer(w, check, n) PROVE session'[v] = s
      BY <2>2, <2>10, <3>3 DEF Answer
    <3>4. ASSUME NEW t, Mined(w, t) PROVE Watches(v)
      BY <2>10, <3>4 DEF Mined, Watches
    <3>5. CASE BeginCli(w) \/ BeginUi(w) \/ BeginRevoke(w)
      <4>1. PICK program, outcome, reads : BeginWith(w, program, outcome, reads)
        BY <3>5 DEF BeginCli, BeginUi, BeginRevoke
      <4> QED BY <2>2, <2>10, <4>1 DEF BeginWith
    <3>6. CASE Read(w)
      <4>1. CASE ReadUseRecord(w) \/ ReadUseSlot(w) \/ CheckAvailable(w)
        BY <2>2, <2>10, <4>1 DEF ReadUseRecord, ReadUseSlot, CheckAvailable
      <4>2. CASE ReadExists(w)
        BY <3>2, <3>3, <4>2 DEF ReadExists
      <4>3. CASE ReadAnchored(w) \/ ReadAnchor(w) \/ ReadSubjectRevoked(w) \/ ReadAllowed(w)
        BY <3>3, <4>3 DEF ReadAnchored, ReadAnchor, ReadSubjectRevoked, ReadAllowed
      <4>4. CASE ReadCredentialRevoked(w) \/ ReadSigned(w) \/ ReadDelegated(w)
        BY <3>3, <4>4 DEF ReadCredentialRevoked, ReadSigned, ReadDelegated
      <4>5. CASE ReadIssuer(w) \/ ReadTrusted(w)
        BY <3>3, <4>5 DEF ReadIssuer, ReadTrusted
      <4> QED BY <3>6, <4>1, <4>2, <4>3, <4>4, <4>5 DEF Read
    <3>7. CASE Conclude(w)
      <4>1. CASE Judge(w)
        BY <2>2, <2>10, <4>1 DEF Judge
      <4>2. CASE ReadShown(w)
        BY <3>3, <4>2 DEF ReadShown
      <4>3. CASE RevokeOnChain(w) \/ ConsumeOnChain(w)
        BY <3>4, <4>3 DEF RevokeOnChain, ConsumeOnChain
      <4>4. CASE Reject(w) \/ Accept(w) \/ SkipConsumption(w) \/ ConsumeReverts(w) \/ Report(w)
        BY <3>2, <4>4 DEF Reject, Accept, SkipConsumption, ConsumeReverts, Report
      <4>5. CASE ReadReceipt(w)
        BY <3>2, <3>3, <4>5 DEF ReadReceipt
      <4> QED BY <3>7, <4>1, <4>2, <4>3, <4>4, <4>5 DEF Conclude
    <3>8. CASE Fail(w)
      BY <3>2, <3>8 DEF Fail
    <3> QED BY <2>10, <3>5, <3>6, <3>7, <3>8
  <2>11. ASSUME \/ BeginCli(v) \/ BeginUi(v) \/ BeginRevoke(v)
                \/ Read(v) \/ Conclude(v) \/ Fail(v)
         PROVE  Judge(v) \/ Reject(v)
    <3>1. ~ BeginCli(v) /\ ~ BeginUi(v) /\ ~ BeginRevoke(v)
      <4>1. s.outcome # "idle"
        BY <2>1
      <4> QED BY <4>1 DEF BeginCli, BeginUi, BeginRevoke, BeginWith
    <3>2. ~ Read(v)
      BY <2>1 DEF Read, Next1, ReadAnchored, ReadAnchor, ReadExists, ReadSubjectRevoked,
         ReadAllowed, ReadCredentialRevoked, ReadUseRecord, ReadUseSlot, CheckAvailable,
         ReadSigned, ReadDelegated, ReadIssuer, ReadTrusted
    <3>3. Conclude(v) => Judge(v) \/ Reject(v)
      BY <2>1 DEF Conclude, Next1, ReadShown, Accept, SkipConsumption, ConsumeOnChain,
         ConsumeReverts, ReadReceipt, Report, RevokeOnChain
    <3>4. ~ Fail(v)
      BY <2>1 DEF Fail
    <3> QED BY <2>11, <3>1, <3>2, <3>3, <3>4
  <2>12. CASE \E w \in Verifier : \/ BeginCli(w) \/ BeginUi(w) \/ BeginRevoke(w)
                                  \/ Read(w) \/ Conclude(w) \/ Fail(w)
    <3>1. PICK w \in Verifier : \/ BeginCli(w) \/ BeginUi(w) \/ BeginRevoke(w)
                                \/ Read(w) \/ Conclude(w) \/ Fail(w)
      BY <2>12
    <3>2. CASE w = v
      BY <2>6, <2>7, <2>11, <3>1, <3>2
    <3>3. CASE w # v
      BY <2>4, <2>5, <2>10, <3>1, <3>3
    <3> QED BY <3>2, <3>3
  <2> QED BY <1>3, <2>8, <2>9, <2>12 DEF Next
<1>4. VerifierInv /\ SteadyInv /\ [Next]_vars =>
        [\A v \in Verifier : Next1(v, "verdict") /\ session[v].steady => Told(v)]_vars
  BY <1>3
<1> QED
  BY <1>1, <1>2, <1>4, VerifierAlways, PTL DEF SafeSpec, SteadyVerdict
==============================================================================
