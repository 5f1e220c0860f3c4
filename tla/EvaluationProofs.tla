-------------------------- MODULE EvaluationProofs --------------------------
(***************************************************************************)
(* Proofs about the live evaluation, for every body the endpoint may send, *)
(* every study of an embedding program and every setting of the command:   *)
(* the inductive invariant of EvaluationInvariant, and from it what the    *)
(* evidence says of calls and failures, and that the adapter's texts come  *)
(* from clean bodies.                                                      *)
(***************************************************************************)
EXTENDS EvaluationInvariant, RuleLemmas

-----------------------------------------------------------------------------
(* The rules as the study and the adapter have them are the rules.         *)

LEMMA LiveCardinality == \A S : Live!Cardinality(S) = Cardinality(S)
BY DEF Live!Cardinality, Cardinality

LEMMA LiveFilter == \A seq, indexes : Live!filter(seq, indexes) = filter(seq, indexes)
BY DEF Live!filter, filter, Live!Cardinality, Cardinality

LEMMA LiveTotal == \A lengths : Live!Total(lengths) = Total(lengths)
BY DEF Live!Total, Total

LEMMA LiveLength == \A text : Live!TextLength(text) = TextLength(text)
BY LiveTotal DEF Live!TextLength, Live!Offset, TextLength, Offset

LEMMA StudiedCardinality == \A S : Studied!Cardinality(S) = Cardinality(S)
BY DEF Studied!Cardinality, Cardinality

LEMMA StudiedFilter == \A seq, indexes : Studied!filter(seq, indexes) = filter(seq, indexes)
BY DEF Studied!filter, filter, Studied!Cardinality, Cardinality

LEMMA StudiedSuccessful == \A r : Studied!successful(r) = successful(r)
BY StudiedFilter DEF Studied!successful, successful

LEMMA StudiedOutcome ==
  ASSUME NEW validationOnly, NEW providerCount, NEW r
  PROVE  /\ Studied!studyStatus(r, providerCount) = studyStatus(r, providerCount)
         /\ Studied!lessonCandidate(validationOnly, r) = lessonCandidate(validationOnly, r)
BY StudiedSuccessful DEF Studied!studyStatus, studyStatus, Studied!lessonCandidate, lessonCandidate,
   Studied!NoLesson, NoLesson

LEMMA StudiedResult ==
  ASSUME NEW provider, NEW answer
  PROVE  Studied!providerResult(provider, answer) = providerResult(provider, answer)
BY DEF Studied!providerResult, providerResult, Studied!Usable, Usable,
   Studied!PROVIDER_TEXT_BOUND, PROVIDER_TEXT_BOUND

-----------------------------------------------------------------------------
(* The cases' objectives.                                                  *)

LEMMA LengthsOfObjectives ==
  /\ TextLength(Plain) = 60
  /\ TextLength(Bearing) = 41
<1>1. TextLength(Plain) = 60
  <2> DEFINE lengths == [k \in 1 .. 1 |-> Plain[k].length]
  <2>1. lengths \in Seq(Nat) /\ Len(lengths) = 1 /\ lengths[1] = 60
    BY DEF Plain, Piece
  <2>2. TextLength(Plain) = Total(lengths)
    BY DEF TextLength, Offset, Plain
  <2> HIDE DEF lengths
  <2> QED  BY <2>1, <2>2, TotalBounds
<1>2. TextLength(Bearing) = 41
  <2> DEFINE lengths == [k \in 1 .. 2 |-> Bearing[k].length]
  <2>1. lengths \in Seq(Nat) /\ Len(lengths) = 2 /\ lengths[1] = 8 /\ lengths[2] = 33
    BY DEF Bearing, Piece
  <2>2. TextLength(Bearing) = Total(lengths)
    BY DEF TextLength, Offset, Bearing
  <2> HIDE DEF lengths
  <2> QED  BY <2>1, <2>2, TotalBounds
<1> QED  BY <1>1, <1>2

\* The plain objective passes the preflight as it is, and the adapter's bound; the
\* one with a credential is refused.
LEMMA PreflightOfObjectives ==
  ASSUME NEW stillMatches
  PROVE  /\ sanitizeObjective(Plain, stillMatches).accepted
         /\ TextLength(sanitizeObjective(Plain, stillMatches).objective) = 60
         /\ ~ sanitizeObjective(Bearing, stillMatches).accepted
<1>1. /\ slice(Plain, OBJECTIVE_BOUND, stillMatches) = Plain
      /\ slice(Bearing, OBJECTIVE_BOUND, stillMatches) = Bearing
  BY LengthsOfObjectives DEF slice, OBJECTIVE_BOUND
<1>2. redact(Plain) = Plain
  BY DEF redact, Plain, Piece
<1>3. Plain # << >> /\ ~ HasKind(Plain, "secret")
  BY DEF Plain, Piece, HasKind
<1>4. HasKind(Bearing, "secret")
  BY DEF Bearing, Piece, HasKind
<1> QED  BY <1>1, <1>2, <1>3, <1>4, LengthsOfObjectives DEF sanitizeObjective

-----------------------------------------------------------------------------
(* The scan of a body.                                                     *)

Items == [type : {"message", "call", "other"}, parts : Seq(Nat)]
TextParts == Seq(Nat \ {0})

\* The parts of an item that are texts.
NonEmpty(item) ==
  IF item.type = "message" THEN {j \in DOMAIN item.parts : item.parts[j] > 0} ELSE {}

\* The parts of the first n items that are texts, and those up to one of them.
PartsTo(output, n) == {p \in (1 .. n) \X Nat : p[2] \in NonEmpty(output[p[1]])}
UpTo(output, p) ==
  {q \in PartsTo(output, p[1]) : q[1] < p[1] \/ (q[1] = p[1] /\ q[2] <= p[2])}

\* What an item contributes: its texts, each at its place.
LEMMA TextsOfItem ==
  ASSUME NEW item \in Items
  PROVE  LET J == NonEmpty(item)
             t == Live!textsOf(item)
         IN  /\ J \subseteq Nat /\ IsFiniteSet(J) /\ Cardinality(J) \in Nat
             /\ t \in TextParts
             /\ Len(t) = Cardinality(J)
             /\ \A j \in J : Place(j, J) \in 1 .. Len(t) /\ t[Place(j, J)] = item.parts[j]
<1> DEFINE J == NonEmpty(item)
           n == Len(item.parts)
<1>1. item.parts \in Seq(Nat) /\ n \in Nat /\ DOMAIN item.parts = 1 .. n
  BY DEF Items
<1>2. J \in SUBSET (1 .. n)
  BY <1>1 DEF NonEmpty
<1>3. J \subseteq Nat /\ IsFiniteSet(J) /\ Cardinality(J) \in Nat
  BY <1>1, <1>2, IndexesAreFinite
<1>4. CASE item.type = "message"
  <2> DEFINE t == filter(item.parts, J)
  <2>1. Live!textsOf(item) = t
    BY <1>4, LiveFilter DEF Live!textsOf, NonEmpty
  <2>2. \A j \in J : item.parts[j] \in Nat \ {0}
    BY <1>1, <1>4 DEF NonEmpty
  <2> HIDE DEF J, n
  <2>3. t \in TextParts
    BY <1>1, <1>2, <2>2, FilterType DEF TextParts
  <2>4. Len(t) = Cardinality(J)
    BY <1>1, <1>2, FilterLength
  <2>5. \A j \in J : Place(j, J) \in 1 .. Cardinality(J) /\ t[Place(j, J)] = item.parts[j]
    BY <1>1, <1>2, PlacesGrow, FilterKeeps
  <2> QED  BY <1>3, <2>1, <2>3, <2>4, <2>5 DEF J
<1>5. CASE item.type # "message"
  <2>1. Live!textsOf(item) = << >> /\ J = {}
    BY <1>5 DEF Live!textsOf, NonEmpty
  <2> QED  BY <1>3, <2>1, FS_EmptySet DEF TextParts
<1> QED  BY <1>4, <1>5

\* What was found in the first n items, for every n up to m.
Found(f, output, m) ==
  f = [n \in 0 .. m |-> IF n = 0 THEN << >> ELSE f[n - 1] \o Live!textsOf(output[n])]

LEMMA FoundExists ==
  ASSUME NEW output \in Seq(Items)
  PROVE  \E f : Found(f, output, Len(output))
<1> DEFINE m == Len(output)
           V == TextParts
           step == [x \in (1 .. m) \X V |-> x[2] \o Live!textsOf(output[x[1]])]
           base == << >>
<1>1. m \in Nat /\ \A n \in 1 .. m : output[n] \in Items
  OBVIOUS
<1>2. ASSUME NEW n \in 1 .. m, NEW t \in V PROVE t \o Live!textsOf(output[n]) \in V
  <2>1. Live!textsOf(output[n]) \in V
    BY <1>1, TextsOfItem
  <2> QED  BY <2>1 DEF TextParts
<1>3. step \in [(1 .. m) \X V -> V]
  BY <1>2
<1>4. base \in V
  BY DEF TextParts
<1>5. \A n \in 1 .. m, t \in V : step[<<n, t>>] = t \o Live!textsOf(output[n])
  OBVIOUS
<1> HIDE DEF step, m, base, V
<1>6. PICK f \in [0 .. m -> V] : Recursion(f, base, step, m)
  BY <1>1, <1>3, <1>4, RecursionExists
<1>7. \A n \in 0 .. m : n # 0 => n \in 1 .. m /\ f[n - 1] \in V
  BY <1>1
<1>8. \A n \in 0 .. m : n # 0 => step[<<n, f[n - 1]>>] = f[n - 1] \o Live!textsOf(output[n])
  BY <1>5, <1>7
<1>9. f = [n \in 0 .. m |-> IF n = 0 THEN << >> ELSE f[n - 1] \o Live!textsOf(output[n])]
  BY <1>6, <1>8 DEF base, Recursion
<1> QED  BY <1>9 DEF Found, m

\* texts is the last of them.
LEMMA TextsAreFound ==
  ASSUME NEW output \in Seq(Items)
  PROVE  \E f : /\ f[0] = << >>
                /\ \A n \in 1 .. Len(output) : f[n] = f[n - 1] \o Live!textsOf(output[n])
                /\ \A n \in 0 .. Len(output) : f[n] \in TextParts
                /\ Live!texts(output) = f[Len(output)]
<1> DEFINE m == Len(output)
           f == CHOOSE f : Found(f, output, m)
<1>1. m \in Nat /\ \A n \in 1 .. m : output[n] \in Items
  OBVIOUS
<1>2. Found(f, output, m)
  BY FoundExists
<1>3. Live!texts(output) = f[m]
  BY DEF Live!texts, Found
<1> HIDE DEF m, f
<1>4. f[0] = << >> /\ \A n \in 1 .. m : f[n] = f[n - 1] \o Live!textsOf(output[n])
  BY <1>1, <1>2 DEF Found
<1>5. \A n \in 0 .. m : f[n] \in TextParts
  <2> DEFINE S == {n \in Nat : n <= m => f[n] \in TextParts}
  <2>1. 0 \in S
    <3>1. << >> \in TextParts
      BY DEF TextParts
    <3>2. f[0] \in TextParts
      BY <1>4, <3>1
    <3> QED  BY <3>2
  <2>2. ASSUME NEW n \in Nat, n \in S PROVE n + 1 \in S
    <3> SUFFICES ASSUME n + 1 <= m PROVE f[n + 1] \in TextParts
      OBVIOUS
    <3>1. n + 1 \in 1 .. m /\ n <= m /\ (n + 1) - 1 = n
      BY <1>1
    <3>2. f[n + 1] = f[n] \o Live!textsOf(output[n + 1])
      BY <1>4, <3>1
    <3>3. f[n] \in TextParts /\ Live!textsOf(output[n + 1]) \in TextParts
      BY <1>1, <2>2, <3>1, TextsOfItem
    <3> QED  BY <3>2, <3>3 DEF TextParts
  <2> HIDE DEF S
  <2>3. Nat \subseteq S
    BY <2>1, <2>2, SetInduction
  <2> QED  BY <1>1, <2>3 DEF S
<1> QED  BY <1>3, <1>4, <1>5 DEF m

\* The texts of one more item follow all before them.
LEMMA RowOfParts ==
  ASSUME NEW n \in Nat, NEW J, IsFiniteSet(J), NEW A, IsFiniteSet(A),
         \A p \in A : p[1] # n
  PROVE  /\ IsFiniteSet(A \cup ({n} \X J))
         /\ Cardinality(A \cup ({n} \X J)) = Cardinality(A) + Cardinality(J)
<1> DEFINE row == {n} \X J
           g == [j \in J |-> <<n, j>>]
<1>1. g \in Bijection(J, row)
  <2>1. g \in [J -> row]
    OBVIOUS
  <2>2. \A i, j \in J : g[i] = g[j] => i = j
    OBVIOUS
  <2>3. \A p \in row : \E j \in J : g[j] = p
    OBVIOUS
  <2> QED  BY <2>1, <2>2, <2>3 DEF Bijection, Injection, Surjection, IsInjective
<1>2. IsFiniteSet(row) /\ Cardinality(row) = Cardinality(J)
  BY <1>1, FS_Bijection DEF ExistsBijection
<1>3. A \cap row = {}
  OBVIOUS
<1> HIDE DEF row
<1>4. Cardinality(A \cap row) = 0 /\ Cardinality(A) \in Nat /\ Cardinality(J) \in Nat
  BY <1>3, FS_EmptySet, FS_CardinalityType
<1> QED  BY <1>2, <1>4, FS_Union DEF row

\* The places of the texts after others.
LEMMA TextsAfterTexts ==
  ASSUME NEW s \in TextParts, NEW t \in TextParts
  PROVE  /\ Len(s) \in Nat /\ Len(t) \in Nat /\ Len(s \o t) = Len(s) + Len(t)
         /\ \A i \in 1 .. Len(s) : (s \o t)[i] = s[i]
         /\ \A i \in 1 .. Len(t) : (s \o t)[Len(s) + i] = t[i]
BY DEF TextParts

\* The texts found are the parts that are texts, each at its place among them.
LEMMA TextsAreParts ==
  ASSUME NEW output \in Seq(Items)
  PROVE  LET found == Live!texts(output)
             parts == PartsTo(output, Len(output))
         IN  /\ found \in TextParts
             /\ IsFiniteSet(parts)
             /\ Len(found) = Cardinality(parts)
             /\ \A p \in parts : found[Cardinality(UpTo(output, p))] = output[p[1]].parts[p[2]]
<1>1. PICK f : /\ f[0] = << >>
               /\ \A n \in 1 .. Len(output) : f[n] = f[n - 1] \o Live!textsOf(output[n])
               /\ \A n \in 0 .. Len(output) : f[n] \in TextParts
               /\ Live!texts(output) = f[Len(output)]
  BY TextsAreFound
<1> DEFINE m == Len(output)
           At(p) == Cardinality(UpTo(output, p))
           Right(n) ==
             /\ IsFiniteSet(PartsTo(output, n))
             /\ Len(f[n]) = Cardinality(PartsTo(output, n))
             /\ \A p \in PartsTo(output, n) :
                  At(p) \in 1 .. Len(f[n]) /\ f[n][At(p)] = output[p[1]].parts[p[2]]
           S == {n \in Nat : n <= m => Right(n)}
<1>2. m \in Nat /\ \A n \in 1 .. m : output[n] \in Items
  OBVIOUS
<1>3. 0 \in S
  <2>1. PartsTo(output, 0) = {}
    BY DEF PartsTo
  <2>2. Right(0)
    BY <1>1, <2>1, FS_EmptySet
  <2> QED  BY <2>2
<1>4. ASSUME NEW n \in Nat, n \in S PROVE n + 1 \in S
  <2> SUFFICES ASSUME n + 1 <= m PROVE Right(n + 1)
    OBVIOUS
  <2> DEFINE item == output[n + 1]
             J == NonEmpty(item)
             A == PartsTo(output, n)
             t == Live!textsOf(item)
             row == {n + 1} \X J
  <2>1. /\ n + 1 \in 1 .. m /\ n \in 0 .. m /\ n + 1 \in 0 .. m /\ n <= m
        /\ (n + 1) - 1 = n
    BY <1>2
  <2>2. /\ J \subseteq Nat /\ IsFiniteSet(J) /\ Cardinality(J) \in Nat
        /\ t \in TextParts /\ Len(t) = Cardinality(J)
        /\ \A j \in J : Place(j, J) \in 1 .. Len(t) /\ t[Place(j, J)] = item.parts[j]
    <3>1. item \in Items
      BY <1>2, <2>1
    <3> QED  BY <3>1, TextsOfItem
  <2>3. Right(n)
    BY <1>4, <2>1
  <2>4. f[n + 1] = f[n] \o t /\ f[n] \in TextParts /\ f[n + 1] \in TextParts
    BY <1>1, <2>1
  <2>5. PartsTo(output, n + 1) = A \cup row /\ \A p \in A : p[1] \in 1 .. n /\ p[1] # n + 1
    <3>1. \A p \in PartsTo(output, n + 1) : p \in A \/ p \in row
      BY DEF PartsTo
    <3>2. \A p \in row : p \in PartsTo(output, n + 1)
      BY <2>2 DEF PartsTo
    <3>3. \A p \in A : p \in PartsTo(output, n + 1) /\ p[1] \in 1 .. n /\ p[1] # n + 1
      BY DEF PartsTo
    <3> QED  BY <3>1, <3>2, <3>3
  <2>6. /\ Len(f[n]) \in Nat /\ Len(f[n + 1]) = Len(f[n]) + Len(t)
        /\ \A i \in 1 .. Len(f[n]) : f[n + 1][i] = f[n][i]
        /\ \A i \in 1 .. Len(t) : f[n + 1][Len(f[n]) + i] = t[i]
    <3> DEFINE s == f[n]
    <3>1. s \in TextParts /\ t \in TextParts /\ f[n + 1] = s \o t
      BY <2>2, <2>4
    <3> HIDE DEF s, t
    <3>2. /\ Len(s) \in Nat /\ Len(s \o t) = Len(s) + Len(t)
          /\ \A i \in 1 .. Len(s) : (s \o t)[i] = s[i]
          /\ \A i \in 1 .. Len(t) : (s \o t)[Len(s) + i] = t[i]
      BY <3>1, TextsAfterTexts
    <3> QED  BY <3>1, <3>2 DEF s
  <2>7. IsFiniteSet(PartsTo(output, n + 1)) /\ Cardinality(PartsTo(output, n + 1)) = Len(f[n + 1])
    <3> HIDE DEF J, A
    <3>1. IsFiniteSet(A \cup row) /\ Cardinality(A \cup row) = Cardinality(A) + Cardinality(J)
      BY <2>2, <2>3, <2>5, RowOfParts DEF A
    <3> QED  BY <2>2, <2>3, <2>5, <2>6, <3>1 DEF A
  <2>8. ASSUME NEW p \in A
        PROVE  At(p) \in 1 .. Len(f[n + 1]) /\ f[n + 1][At(p)] = output[p[1]].parts[p[2]]
    <3>1. At(p) \in 1 .. Len(f[n]) /\ f[n][At(p)] = output[p[1]].parts[p[2]]
      BY <2>3
    <3> QED  BY <2>2, <2>6, <3>1
  <2>9. ASSUME NEW p \in row
        PROVE  At(p) \in 1 .. Len(f[n + 1]) /\ f[n + 1][At(p)] = output[p[1]].parts[p[2]]
    <3> DEFINE j == p[2]
               K == {k \in J : k <= j}
    <3>1. p[1] = n + 1 /\ j \in J /\ j \in Nat
      BY <2>2
    <3>2. UpTo(output, p) = A \cup ({n + 1} \X K)
      <4>1. UpTo(output, p) = {q \in A \cup row : q[1] < n + 1 \/ (q[1] = n + 1 /\ q[2] <= j)}
        BY <2>5, <3>1 DEF UpTo
      <4>2. \A q \in A : q[1] < n + 1
        BY <2>5
      <4> HIDE DEF A, J, j
      <4>3. \A q \in row : q[1] = n + 1 /\ q[2] \in J /\ q = <<n + 1, q[2]>>
        OBVIOUS
      <4> QED  BY <4>1, <4>2, <4>3
    <3>3. IsFiniteSet(K) /\ Cardinality(K) = Place(j, J)
      <4>1. K \in SUBSET J
        OBVIOUS
      <4> QED  BY <2>2, <4>1, FS_Subset DEF Place
    <3> HIDE DEF J, A, K
    <3>4. At(p) = Cardinality(A) + Place(j, J)
      <4>1. IsFiniteSet(A) /\ n + 1 \in Nat /\ \A q \in A : q[1] # n + 1
        BY <2>3, <2>5 DEF A
      <4>2. Cardinality(A \cup ({n + 1} \X K)) = Cardinality(A) + Cardinality(K)
        BY <3>3, <4>1, RowOfParts
      <4> QED  BY <3>2, <3>3, <4>2
    <3>5. Place(j, J) \in 1 .. Len(t) /\ t[Place(j, J)] = item.parts[j]
      BY <2>2, <3>1
    <3>6. At(p) = Len(f[n]) + Place(j, J)
      BY <2>3, <3>4 DEF A
    <3> HIDE DEF t, item
    <3>7. At(p) \in 1 .. Len(f[n + 1])
      BY <2>2, <2>6, <3>5, <3>6
    <3>8. f[n + 1][At(p)] = item.parts[j]
      BY <2>6, <3>5, <3>6
    <3> QED  BY <3>1, <3>7, <3>8 DEF item
  <2> QED  BY <2>5, <2>7, <2>8, <2>9
<1> HIDE DEF S
<1>5. m \in S
  BY <1>2, <1>3, <1>4, SetInduction
<1> QED  BY <1>1, <1>2, <1>5 DEF S

\* What the scan answers, and of which bodies it answers a text.
LEMMA ScannedReply ==
  ASSUME NEW body \in Payloads
  PROVE  LET r == Live!extractTextOnlyResponse(body)
         IN  /\ IsReply(r)
             /\ r.kind = "text" =>
                  /\ body.object
                  /\ body.status \in {"missing", "completed"}
                  /\ ~ body.error
                  /\ \A i \in DOMAIN body.output : body.output[i].type # "call"
                  /\ body.output \in Seq(Items)
                  /\ r.parts = Live!texts(body.output)
<1> DEFINE r == Live!extractTextOnlyResponse(body)
           found == Live!texts(body.output)
           Clean == /\ body.object
                    /\ body.status \in {"missing", "completed"}
                    /\ ~ body.error
                    /\ ~ \E i \in DOMAIN body.output : body.output[i].type = "call"
                    /\ found # << >>
<1>1. CASE Clean
  <2>1. body.output \in Seq(Items)
    BY <1>1, PayloadsAssumption DEF Items
  <2>2. found \in TextParts
    BY <2>1, TextsAreParts
  <2>3. r = Live!joined(found)
    BY <1>1 DEF Live!extractTextOnlyResponse
  <2>4. r.kind = "text" /\ r.parts = found /\ r.length = Total(found) + Len(found) - 1
    BY <2>3, LiveTotal DEF Live!joined
  <2>5. found # << >>
    BY <1>1
  <2> HIDE DEF found, r
  <2>6. /\ Len(found) \in Nat /\ Len(found) > 0 /\ found \in Seq(Nat)
        /\ found[Len(found)] \in Nat \ {0}
    BY <2>2, <2>5 DEF TextParts
  <2>7. Total(found) \in Nat /\ Total(found) >= found[Len(found)]
    BY <2>6, TotalBounds
  <2>8. r.length \in Nat \ {0}
    <3> DEFINE total == Total(found)
               last == found[Len(found)]
    <3>1. total \in Nat /\ last \in Nat /\ last >= 1 /\ total >= last
      BY <2>6, <2>7
    <3>2. r.length = total + Len(found) - 1
      BY <2>4
    <3> HIDE DEF total, last
    <3> QED  BY <2>6, <3>1, <3>2
  <2> QED  BY <1>1, <2>1, <2>4, <2>8 DEF IsReply, r, found
<1>2. CASE ~ Clean
  <2>1. r.kind = "error"
    BY <1>2 DEF Live!extractTextOnlyResponse, Live!fail
  <2> QED  BY <2>1 DEF IsReply
<1> QED  BY <1>1, <1>2

\* What the adapter answers is what it found, wherever it found it.
LEMMA AdapterTexts == AdapterInv => TextsComeFromCleanBodies
<1> SUFFICES ASSUME AdapterInv, http = "settled", reply.kind = "text"
             PROVE  TextsComeFromCleanBodies
  BY DEF TextsComeFromCleanBodies
<1> DEFINE output == payload.output
           messages == {i \in DOMAIN output : output[i].type = "message"}
           parts == {p \in messages \X UNION {DOMAIN output[i].parts : i \in messages} :
                       /\ p[2] \in DOMAIN output[p[1]].parts
                       /\ output[p[1]].parts[p[2]] > 0}
           before(p) == {q \in parts : q[1] < p[1] \/ (q[1] = p[1] /\ q[2] <= p[2])}
<1>1. payload \in Payloads /\ reply = Live!extractTextOnlyResponse(payload)
  BY DEF AdapterInv
<1>2. /\ payload.object
      /\ payload.status \in {"missing", "completed"}
      /\ ~ payload.error
      /\ \A i \in DOMAIN output : output[i].type # "call"
      /\ output \in Seq(Items)
      /\ reply.parts = Live!texts(output)
  BY <1>1, ScannedReply
<1> HIDE DEF output
<1>3. /\ Len(output) \in Nat /\ DOMAIN output = 1 .. Len(output)
      /\ \A i \in DOMAIN output : output[i].parts \in Seq(Nat) /\ DOMAIN output[i].parts \subseteq Nat
  <2>1. Len(output) \in Nat /\ DOMAIN output = 1 .. Len(output) /\ \A i \in DOMAIN output : output[i] \in Items
    BY <1>2
  <2>2. ASSUME NEW i \in DOMAIN output
        PROVE  output[i].parts \in Seq(Nat) /\ DOMAIN output[i].parts \subseteq Nat
    <3>1. output[i].parts \in Seq(Nat)
      BY <2>1 DEF Items
    <3> DEFINE lengths == output[i].parts
    <3> HIDE DEF lengths
    <3>2. lengths \in Seq(Nat) => DOMAIN lengths \subseteq Nat
      OBVIOUS
    <3> QED  BY <3>1, <3>2 DEF lengths
  <2> QED  BY <2>1, <2>2
<1>4. parts = PartsTo(output, Len(output))
  <2>1. ASSUME NEW p \in parts PROVE p \in PartsTo(output, Len(output))
    BY <1>3 DEF PartsTo, NonEmpty
  <2>2. ASSUME NEW p \in PartsTo(output, Len(output)) PROVE p \in parts
    <3>1. p \in (1 .. Len(output)) \X Nat /\ p[2] \in NonEmpty(output[p[1]])
      BY DEF PartsTo
    <3> DEFINE item == output[p[1]]
    <3> HIDE DEF item
    <3>2. item.type = "message" /\ p[2] \in DOMAIN item.parts /\ item.parts[p[2]] > 0
      BY <3>1 DEF NonEmpty, item
    <3>3. p[1] \in 1 .. Len(output) /\ p = <<p[1], p[2]>>
      BY <3>1
    <3>4. p[1] \in messages
      BY <1>3, <3>2, <3>3 DEF item
    <3>5. p[2] \in UNION {DOMAIN output[i].parts : i \in messages}
      BY <3>2, <3>4 DEF item
    <3>6. p \in messages \X UNION {DOMAIN output[i].parts : i \in messages}
      <4> HIDE DEF messages
      <4> QED  BY <3>3, <3>4, <3>5
    <3> QED  BY <3>2, <3>6 DEF item
  <2> QED  BY <2>1, <2>2
<1>5. ASSUME NEW p \in parts PROVE before(p) = UpTo(output, p)
  <2>1. p[1] \in 1 .. Len(output) /\ p[2] \in Nat
    BY <1>4 DEF PartsTo
  <2>2. \A q \in parts : q[1] \in 1 .. Len(output) /\ (q[1] <= p[1] => q \in PartsTo(output, p[1]))
    BY <1>4, <2>1 DEF PartsTo
  <2>3. \A q \in PartsTo(output, p[1]) : q \in parts /\ q[1] \in 1 .. Len(output)
    <3>1. ASSUME NEW q \in PartsTo(output, p[1])
          PROVE  q \in PartsTo(output, Len(output)) /\ q[1] \in 1 .. Len(output)
      BY <2>1 DEF PartsTo
    <3> QED  BY <1>4, <3>1
  <2> HIDE DEF parts
  <2>4. \A q \in before(p) : q \in UpTo(output, p)
    BY <2>1, <2>2 DEF UpTo
  <2>5. \A q \in UpTo(output, p) : q \in before(p)
    BY <2>3 DEF UpTo
  <2> QED  BY <2>4, <2>5
<1>6. /\ Len(reply.parts) = Cardinality(parts)
      /\ \A p \in parts : reply.parts[Cardinality(UpTo(output, p))] = output[p[1]].parts[p[2]]
  BY <1>2, <1>4, TextsAreParts
<1>7. \A p \in parts : reply.parts[Cardinality(before(p))] = output[p[1]].parts[p[2]]
  <2> HIDE DEF parts, before
  <2> QED  BY <1>5, <1>6
<1> QED  BY <1>2, <1>6, <1>7 DEF TextsComeFromCleanBodies, output

-----------------------------------------------------------------------------
(* The adapter's steps.                                                    *)

\* A call sends one request if the objective is within the bound, and else none.
LEMMA ReasonSends ==
  ASSUME AdapterInv, NEW input, Live!reason(input)
  PROVE  /\ AdapterInv'
         /\ requests' \in {requests, requests + 1}
         /\ TextLength(input) \in 1 .. 4000 => requests' = requests + 1
<1>1. CASE Live!Refuse(input)
  <2>1. /\ http' = "settled" /\ reply'.kind = "error" /\ payload' = Live!NoPayload
        /\ requests' = requests
        /\ TextLength(input) \notin 1 .. 4000
    BY <1>1, LiveLength DEF Live!Refuse, Live!Answer, Live!fail, Live!INPUT_BOUND
  <2> QED  BY <2>1 DEF AdapterInv, IsReply
<1>2. CASE Live!Send(input)
  <2>1. http' = "fetching" /\ payload' = Live!NoPayload /\ requests' = requests + 1
    BY <1>2 DEF Live!Send
  <2> QED  BY <2>1 DEF AdapterInv
<1> QED  BY <1>1, <1>2 DEF Live!reason

\* The endpoint and the timer settle a pending request, and send none.
LEMMA NetworkSettles ==
  ASSUME AdapterInv, Live!Endpoint \/ Live!TimesOut
  PROVE  AdapterInv' /\ requests' = requests /\ http \in {"fetching", "reading"}
<1>1. CASE \E body \in Payloads : Live!ReadBody(body)
  <2>1. PICK body \in Payloads : Live!ReadBody(body)
    BY <1>1
  <2>2. /\ http' = "settled" /\ payload' = body /\ requests' = requests /\ http = "reading"
        /\ reply' = Live!extractTextOnlyResponse(body)
    BY <2>1 DEF Live!ReadBody, Live!Answer
  <2>3. IsReply(reply')
    BY <2>2, ScannedReply
  <2> QED  BY <2>2, <2>3 DEF AdapterInv, IsReply
<1>2. CASE Live!Respond \/ Live!RequestFails \/ Live!BodyFails \/ Live!TimesOut
  <2>1. /\ payload' = payload /\ requests' = requests /\ http \in {"fetching", "reading"}
        /\ \/ http' = "reading"
           \/ http' = "settled" /\ reply'.kind = "error"
    <3> DEFINE Fails(why) == http' = "settled" /\ reply' = Live!fail(why)
    <3>0. \A why : Live!fail(why).kind = "error"
      BY DEF Live!fail
    <3>1. CASE Live!Respond
      <4>1. /\ payload' = payload /\ requests' = requests /\ http = "fetching"
            /\ http' = "reading" \/ Fails("http status")
        BY <3>1 DEF Live!Respond, Live!Answer
      <4> QED  BY <3>0, <4>1
    <3>2. CASE Live!RequestFails
      BY <3>2 DEF Live!RequestFails, Live!Answer, Live!fail
    <3>3. CASE Live!BodyFails
      BY <3>3 DEF Live!BodyFails, Live!Answer, Live!fail
    <3>4. CASE Live!TimesOut
      <4>1. /\ payload' = payload /\ requests' = requests /\ http \in {"fetching", "reading"}
            /\ Fails("request failed or timed out") \/ Fails("invalid JSON")
        BY <3>4 DEF Live!TimesOut, Live!Answer
      <4> QED  BY <3>0, <4>1
    <3> QED  BY <1>2, <3>1, <3>2, <3>3, <3>4
  <2> QED  BY <2>1 DEF AdapterInv, IsReply
<1> QED  BY <1>1, <1>2 DEF Live!Endpoint

\* Nothing happens to it.
LEMMA AdapterRests ==
  ASSUME AdapterInv, UNCHANGED adapter
  PROVE  AdapterInv' /\ requests' = requests
BY DEF AdapterInv, adapter

\* Lists that grow at their end.
LEMMA ListAppend ==
  ASSUME NEW s, NEW x, Len(s) \in Nat, s = [i \in 1 .. Len(s) |-> s[i]]
  PROVE  LET t == Append(s, x)
         IN  /\ Len(t) = Len(s) + 1 /\ DOMAIN t = 1 .. Len(s) + 1
             /\ t = [i \in 1 .. Len(t) |-> t[i]]
             /\ t[Len(s) + 1] = x
             /\ \A i \in 1 .. Len(s) : t[i] = s[i]
<1> DEFINE S == {s[i] : i \in 1 .. Len(s)} \cup {x}
<1>1. s \in Seq(S) /\ x \in S
  <2>1. s \in [1 .. Len(s) -> S]
    OBVIOUS
  <2> QED  BY <2>1
<1> HIDE DEF S
<1>2. ASSUME NEW t \in Seq(S) PROVE t = [i \in 1 .. Len(t) |-> t[i]] /\ DOMAIN t = 1 .. Len(t)
  OBVIOUS
<1> DEFINE t == Append(s, x)
<1>3. /\ t \in Seq(S) /\ Len(t) = Len(s) + 1 /\ t[Len(s) + 1] = x
      /\ \A i \in 1 .. Len(s) : t[i] = s[i]
  BY <1>1
<1> HIDE DEF t
<1>4. t = [i \in 1 .. Len(t) |-> t[i]] /\ DOMAIN t = 1 .. Len(t)
  BY <1>2, <1>3
<1> QED  BY <1>3, <1>4 DEF t

\* Hearing an answer adds it to the list.
LEMMA HearingAdds ==
  ASSUME HeardInv, NEW answer, IsReply(answer), heard' = Append(heard, answer)
  PROVE  /\ HeardInv'
         /\ Len(heard') = Len(heard) + 1
         /\ heard'[Len(heard) + 1] = answer
         /\ \A i \in 1 .. Len(heard) : heard'[i] = heard[i]
<1>1. /\ Len(heard') = Len(heard) + 1 /\ DOMAIN heard' = 1 .. Len(heard) + 1
      /\ heard' = [i \in 1 .. Len(heard') |-> heard'[i]]
      /\ heard'[Len(heard) + 1] = answer
      /\ \A i \in 1 .. Len(heard) : heard'[i] = heard[i]
  BY ListAppend DEF HeardInv
<1>2. Len(heard) \in Nat /\ \A i \in 1 .. Len(heard) : IsReply(heard[i])
  BY DEF HeardInv
<1>3. ASSUME NEW i \in DOMAIN heard' PROVE IsReply(heard'[i])
  BY <1>1, <1>2
<1> QED  BY <1>1, <1>2, <1>3 DEF HeardInv, IsReply

-----------------------------------------------------------------------------
(* The study of a case.                                                    *)

LEMMA CaseFacts ==
  /\ Len(Cases) = 5 /\ DOMAIN Cases = 1 .. 5
  /\ \A c \in 1 .. 5 : Cases[c].severity = "critical"
  /\ \A c \in {1, 2, 4} : /\ Cases[c].options.objective = Plain
                         /\ Cases[c].options.validationOnly = (c = 1)
  /\ Cases[3].options.objective = Bearing
  /\ Cases[1].options.providers = <<"live">>
  /\ Cases[2].options.providers = <<"live", "peer">>
  /\ Cases[4].options.providers = <<"peer", "offline">>
<1>1. Len(Cases) = 5 /\ DOMAIN Cases = 1 .. 5
  BY DEF Cases
<1>2. /\ Cases[1].severity = "critical"
      /\ Cases[1].options.objective = Plain
      /\ Cases[1].options.providers = <<"live">>
      /\ Cases[1].options.validationOnly = TRUE
  BY DEF Cases, case
<1>3. /\ Cases[2].severity = "critical"
      /\ Cases[2].options.objective = Plain
      /\ Cases[2].options.providers = <<"live", "peer">>
      /\ Cases[2].options.validationOnly = FALSE
  BY DEF Cases, case
<1>4. /\ Cases[3].severity = "critical"
      /\ Cases[3].options.objective = Bearing
  BY DEF Cases, case
<1>5. /\ Cases[4].severity = "critical"
      /\ Cases[4].options.objective = Plain
      /\ Cases[4].options.providers = <<"peer", "offline">>
      /\ Cases[4].options.validationOnly = FALSE
  BY DEF Cases, case
<1>6. /\ Cases[5].severity = "critical"
  BY DEF Cases, case
<1>7. \A c \in 1 .. 5 : Cases[c].severity = "critical"
  <2> SUFFICES ASSUME NEW c \in 1 .. 5 PROVE Cases[c].severity = "critical"
    OBVIOUS
  <2>1. c = 1 \/ c = 2 \/ c = 3 \/ c = 4 \/ c = 5
    OBVIOUS
  <2> QED  BY <1>2, <1>3, <1>4, <1>5, <1>6, <2>1
<1>8. \A c \in {1, 2, 4} : Cases[c].options.objective = Plain
  BY <1>2, <1>3, <1>5
<1>9. \A c \in {1, 2, 4} : Cases[c].options.validationOnly = (c = 1)
  <2> SUFFICES ASSUME NEW c \in {1, 2, 4} PROVE Cases[c].options.validationOnly = (c = 1)
    OBVIOUS
  <2>1. CASE c = 1
    BY <1>2, <2>1
  <2>2. CASE c = 2
    <3>1. (c = 1) = FALSE
      BY <2>2
    <3> QED  BY <1>3, <2>2, <3>1
  <2>3. CASE c = 4
    <3>1. (c = 1) = FALSE
      BY <2>3
    <3> QED  BY <1>5, <2>3, <3>1
  <2> QED  BY <2>1, <2>2, <2>3
<1> QED  BY <1>1, <1>2, <1>3, <1>4, <1>5, <1>7, <1>8, <1>9

LEMMA CaseProviders ==
  /\ DOMAIN Cases[1].options.providers = {1}
  /\ DOMAIN Cases[2].options.providers = {1, 2}
  /\ DOMAIN Cases[4].options.providers = {1, 2}
  /\ "live" \in ToSet(Cases[1].options.providers)
  /\ "live" \in ToSet(Cases[2].options.providers)
  /\ "live" \notin ToSet(Cases[4].options.providers)
BY CaseFacts DEF ToSet

\* A study that is refused ends, and nothing else happens to it.
LEMMA RejectEnds ==
  ASSUME StudyTypes, NEW preflight, Studied!Reject(Run, preflight)
  PROVE  /\ StudyTypes'
         /\ phase[Run] = "ready" /\ phase'[Run] = "threw"
         /\ ~ preflight.accepted
         /\ calls' = calls
BY DEF StudyTypes, Studied!Reject, Studied!End

\* A study that starts asks its providers.
LEMMA StartAsks ==
  ASSUME StudyTypes, NEW o, NEW preflight, Studied!Start(Run, o, preflight)
  PROVE  /\ StudyTypes'
         /\ phase[Run] = "ready" /\ phase'[Run] = "reasoning"
         /\ preflight.accepted
         /\ kept'[Run].validationOnly = o.validationOnly
         /\ kept'[Run].providerCount = Len(o.providers)
         /\ calls'[Run] = [i \in DOMAIN o.providers |->
                             [provider  |-> o.providers[i],
                              objective |-> preflight.objective,
                              answer    |-> Studied!Pending]]
<1>1. /\ phase' = [phase EXCEPT ![Run] = "reasoning"]
      /\ kept' = [kept EXCEPT ![Run] = [validationOnly |-> o.validationOnly,
                                        providerCount  |-> Len(o.providers),
                                        safetyFlags    |-> preflight.safetyFlags]]
      /\ calls' = [calls EXCEPT ![Run] =
                     [i \in DOMAIN o.providers |->
                        [provider  |-> o.providers[i],
                         objective |-> preflight.objective,
                         answer    |-> Studied!Pending]]]
      /\ result' = result
      /\ phase[Run] = "ready" /\ preflight.accepted
  BY DEF Studied!Start
<1>2. StudyTypes'
  BY <1>1 DEF StudyTypes
<1>3. phase'[Run] = "reasoning"
  BY <1>1 DEF StudyTypes
<1>4. kept'[Run].validationOnly = o.validationOnly /\ kept'[Run].providerCount = Len(o.providers)
  BY <1>1 DEF StudyTypes
<1>5. calls'[Run] = [i \in DOMAIN o.providers |->
                      [provider  |-> o.providers[i],
                       objective |-> preflight.objective,
                       answer    |-> Studied!Pending]]
  BY <1>1 DEF StudyTypes
<1> QED  BY <1>1, <1>2, <1>3, <1>4, <1>5

\* The study of a case begins: it asks the live provider once if that is listed, and
\* a credential in the objective ends it first.
LEMMA CaseStarts ==
  ASSUME StudyTypes, AdapterInv, NEW c \in 1 .. 4, StudyOf(c), RunStudy(Cases[c].options)
  PROVE  StudyTypes' /\ AdapterInv' /\ heard' = heard /\ StudyOf(c)'
<1> DEFINE o == Cases[c].options
<1>1. PICK stillMatches \in BOOLEAN :
        LET preflight == sanitizeObjective(o.objective, stillMatches)
        IN  \/ Studied!Reject(Run, preflight) /\ UNCHANGED adapter
            \/ /\ Studied!Start(Run, o, preflight)
               /\ IF "live" \in ToSet(o.providers)
                  THEN Live!reason(preflight.objective)
                  ELSE UNCHANGED adapter
  BY DEF RunStudy
<1>2. heard' = heard
  BY DEF RunStudy
<1> DEFINE preflight == sanitizeObjective(o.objective, stillMatches)
<1>3. CASE c = 3
  <2>1. ~ preflight.accepted
    BY <1>3, CaseFacts, PreflightOfObjectives
  <2> HIDE DEF preflight, o
  <2>2. Studied!Reject(Run, preflight) /\ UNCHANGED adapter
    BY <1>1, <2>1, StartAsks DEF preflight
  <2>3. /\ StudyTypes' /\ phase[Run] = "ready" /\ phase'[Run] = "threw" /\ calls' = calls
        /\ AdapterInv' /\ requests' = requests
    BY <2>2, RejectEnds, AdapterRests
  <2> QED  BY <1>2, <1>3, <2>3 DEF StudyOf, Asked, LiveCases
<1>4. CASE c \in {1, 2, 4}
  <2>1. preflight.accepted /\ TextLength(preflight.objective) = 60
    BY <1>4, CaseFacts, PreflightOfObjectives
  <2>2. o.validationOnly = (c = 1)
    BY <1>4, CaseFacts
  <2> HIDE DEF preflight
  <2>3. /\ Studied!Start(Run, o, preflight)
        /\ IF "live" \in ToSet(o.providers)
           THEN Live!reason(preflight.objective)
           ELSE UNCHANGED adapter
    BY <1>1, <2>1, RejectEnds DEF preflight
  <2>4. /\ StudyTypes' /\ phase[Run] = "ready" /\ phase'[Run] = "reasoning"
        /\ kept'[Run].validationOnly = (c = 1) /\ kept'[Run].providerCount = Listed(c)
        /\ calls'[Run] = [i \in DOMAIN o.providers |->
                            [provider  |-> o.providers[i],
                             objective |-> preflight.objective,
                             answer    |-> Studied!Pending]]
    BY <2>2, <2>3, StartAsks DEF Listed, o
  <2>5. AdapterInv' /\ requests' = IF c \in LiveCases THEN requests + 1 ELSE requests
    <3>1. CASE c \in LiveCases
      <4>1. Live!reason(preflight.objective)
        BY <1>4, <2>3, <3>1, CaseProviders DEF LiveCases
      <4> QED  BY <2>1, <3>1, <4>1, ReasonSends
    <3>2. CASE c \notin LiveCases
      <4>1. UNCHANGED adapter
        BY <1>4, <2>3, <3>2, CaseProviders DEF LiveCases
      <4> QED  BY <3>2, <4>1, AdapterRests
    <3> QED  BY <3>1, <3>2
  <2>6. requests = Asked(c - 1) /\ Len(heard) = Asked(c - 1)
    BY <2>4 DEF StudyOf
  <2>7. requests' = Asked(c) /\ (c \notin LiveCases => Len(heard') = Asked(c))
    BY <1>2, <1>4, <2>5, <2>6 DEF Asked, LiveCases
  <2> HIDE DEF o
  <2>8. Shaped(c)'
    BY <2>4 DEF Shaped, o
  <2>9. AnswersOf(c)'
    <3> SUFFICES ASSUME NEW i \in DOMAIN calls'[Run]
                 PROVE  /\ calls'[Run][i].answer = Studied!Pending
                        /\ Len(heard') = Asked(c - 1)
      BY DEF AnswersOf
    <3> QED  BY <1>2, <2>4, <2>6
  <2> QED  BY <1>2, <1>4, <2>4, <2>5, <2>7, <2>8, <2>9 DEF StudyOf
<1> QED  BY <1>3, <1>4

\* An answer that arrives replaces the waiting of its call, and of no other.
LEMMA SettleAnswers ==
  ASSUME StudyTypes, NEW c \in 1 .. 4, Shaped(c), NEW i, NEW answer, Studied!Settle(Run, i, answer)
  PROVE  /\ StudyTypes' /\ Shaped(c)'
         /\ phase[Run] = "reasoning" /\ phase' = phase /\ kept' = kept /\ result' = result
         /\ i \in DOMAIN calls[Run] /\ calls[Run][i].answer = Studied!Pending
         /\ DOMAIN calls'[Run] = DOMAIN calls[Run]
         /\ calls'[Run][i].answer = answer
         /\ \A k \in DOMAIN calls[Run] : calls'[Run][k].provider = calls[Run][k].provider
         /\ \A k \in DOMAIN calls[Run] : k # i => calls'[Run][k] = calls[Run][k]
<1> DEFINE providers == Cases[c].options.providers
<1> HIDE DEF providers
<1>1. /\ phase[Run] = "reasoning"
      /\ i \in DOMAIN calls[Run] /\ calls[Run][i].answer = Studied!Pending
      /\ calls' = [calls EXCEPT ![Run] = [calls[Run] EXCEPT ![i] = [calls[Run][i] EXCEPT !.answer = answer]]]
      /\ UNCHANGED <<phase, kept, result>>
  BY DEF Studied!Settle, StudyTypes
<1>2. /\ DOMAIN calls[Run] = DOMAIN providers
      /\ calls[Run] = [k \in DOMAIN providers |-> calls[Run][k]]
      /\ \A k \in DOMAIN providers :
           /\ DOMAIN calls[Run][k] = {"provider", "objective", "answer"}
           /\ calls[Run][k].provider = providers[k]
  BY DEF Shaped, providers
<1>3. /\ DOMAIN calls' = {Run}
      /\ calls'[Run] = [calls[Run] EXCEPT ![i] = [calls[Run][i] EXCEPT !.answer = answer]]
  BY <1>1 DEF StudyTypes
<1>4. /\ DOMAIN calls'[Run] = DOMAIN calls[Run]
      /\ \A k \in DOMAIN calls[Run] : k # i => calls'[Run][k] = calls[Run][k]
      /\ calls'[Run][i] = [calls[Run][i] EXCEPT !.answer = answer]
  BY <1>1, <1>3
<1>5. /\ DOMAIN calls'[Run][i] = {"provider", "objective", "answer"}
      /\ calls'[Run][i].provider = calls[Run][i].provider
      /\ calls'[Run][i].answer = answer
  BY <1>1, <1>2, <1>4
<1>6. calls'[Run] = [k \in DOMAIN providers |-> calls'[Run][k]]
  BY <1>2, <1>3
<1>7. \A k \in DOMAIN providers :
        /\ DOMAIN calls'[Run][k] = {"provider", "objective", "answer"}
        /\ calls'[Run][k].provider = providers[k]
  BY <1>1, <1>2, <1>4, <1>5
<1>8. Shaped(c)'
  BY <1>2, <1>4, <1>6, <1>7 DEF Shaped, providers
<1>9. StudyTypes'
  BY <1>1, <1>3 DEF StudyTypes
<1>10. \A k \in DOMAIN calls[Run] : calls'[Run][k].provider = calls[Run][k].provider
  BY <1>2, <1>7
<1> QED  BY <1>1, <1>4, <1>5, <1>8, <1>9, <1>10

\* The live provider's answer is heard, once in the case.
LEMMA LiveAnswers ==
  ASSUME StudyTypes, AdapterInv, HeardInv, NEW c \in 1 .. 4, StudyOf(c), SettleLive
  PROVE  /\ StudyTypes' /\ AdapterInv' /\ HeardInv' /\ StudyOf(c)'
         /\ Len(heard) \in Nat
         /\ \A k \in 1 .. Len(heard) : heard'[k] = heard[k]
<1>1. PICK i \in DOMAIN calls[Run] :
        calls[Run][i].provider = "live" /\ Studied!Settle(Run, i, reply)
  BY DEF SettleLive
<1>2. http = "settled" /\ heard' = Append(heard, reply) /\ UNCHANGED adapter
  BY DEF SettleLive
<1>3. phase[Run] = "reasoning"
  BY <1>1 DEF Studied!Settle
<1>4. /\ c \in {1, 2, 4} /\ Shaped(c) /\ AnswersOf(c) /\ requests = Asked(c)
      /\ kept[Run].validationOnly = (c = 1) /\ kept[Run].providerCount = Listed(c)
  BY <1>3 DEF StudyOf
<1>5. /\ StudyTypes' /\ Shaped(c)'
      /\ phase' = phase /\ kept' = kept
      /\ i \in DOMAIN calls[Run] /\ calls[Run][i].answer = Studied!Pending
      /\ DOMAIN calls'[Run] = DOMAIN calls[Run]
      /\ calls'[Run][i].answer = reply
      /\ \A k \in DOMAIN calls[Run] : calls'[Run][k].provider = calls[Run][k].provider
      /\ \A k \in DOMAIN calls[Run] : k # i => calls'[Run][k] = calls[Run][k]
  BY <1>1, <1>4, SettleAnswers
<1>6. AdapterInv' /\ requests' = requests /\ IsReply(reply)
  BY <1>2, AdapterRests DEF AdapterInv
<1>7. /\ HeardInv'
      /\ Len(heard') = Len(heard) + 1
      /\ heard'[Len(heard) + 1] = reply
      /\ \A k \in 1 .. Len(heard) : heard'[k] = heard[k]
  BY <1>2, <1>6, HearingAdds
<1>8. c \in {1, 2} /\ i = 1 /\ \A k \in DOMAIN calls[Run] : calls[Run][k].provider = "live" => k = i
  <2>1. /\ DOMAIN calls[Run] = DOMAIN Cases[c].options.providers
        /\ \A k \in DOMAIN calls[Run] : calls[Run][k].provider = Cases[c].options.providers[k]
    BY <1>4 DEF Shaped
  <2>2. CASE c = 1
    BY <1>1, <1>5, <2>1, <2>2, CaseFacts, CaseProviders
  <2>3. CASE c = 2
    BY <1>1, <1>5, <2>1, <2>3, CaseFacts, CaseProviders
  <2>4. CASE c = 4
    BY <1>1, <1>5, <2>1, <2>4, CaseFacts, CaseProviders
  <2> QED  BY <1>4, <2>2, <2>3, <2>4
<1>9. reply # Studied!Pending /\ \A k \in 1 .. Len(heard) : heard[k] # Studied!Pending
  BY <1>6 DEF IsReply, HeardInv, Studied!Pending
<1>10. Len(heard) = Asked(c - 1) /\ Asked(c - 1) = c - 1 /\ Asked(c) = c
  <2>1. Asked(c - 1) = c - 1 /\ Asked(c) = c
    BY <1>8 DEF Asked
  <2>2. calls[Run][i].answer = heard[c] /\ Len(heard) = Asked(c) => calls[Run][i].answer # Studied!Pending
    BY <1>8, <1>9, <2>1
  <2> QED  BY <1>1, <1>4, <1>5, <2>1, <2>2 DEF AnswersOf
<1>11. Len(heard') = Asked(c) /\ heard'[c] = reply
  BY <1>7, <1>10
<1>12. AnswersOf(c)'
  <2> SUFFICES ASSUME NEW k \in DOMAIN calls'[Run]
               PROVE  LET call == calls'[Run][k]
                      IN  /\ call.provider = "live" => call.answer = heard'[c] /\ Len(heard') = Asked(c)
                          /\ call.provider = "peer" => call.answer \in {Studied!Pending, Text(84)}
                          /\ call.provider = "offline" => call.answer \in {Studied!Pending, Failure}
    BY DEF AnswersOf
  <2>1. CASE k = i
    BY <1>1, <1>5, <1>11, <2>1
  <2>2. CASE k # i
    BY <1>4, <1>5, <1>8, <2>2 DEF AnswersOf
  <2> QED  BY <2>1, <2>2
<1>13. StudyOf(c)'
  BY <1>3, <1>4, <1>5, <1>6, <1>8, <1>12 DEF StudyOf, LiveCases
<1> QED  BY <1>5, <1>6, <1>7, <1>13 DEF HeardInv

\* A local provider's answer is its own.
LEMMA LocalAnswers ==
  ASSUME StudyTypes, AdapterInv, NEW c \in 1 .. 4, StudyOf(c), SettleLocal
  PROVE  StudyTypes' /\ AdapterInv' /\ heard' = heard /\ StudyOf(c)'
<1>1. PICK i \in DOMAIN calls[Run] :
        \/ calls[Run][i].provider = "peer" /\ Studied!Settle(Run, i, Text(84))
        \/ calls[Run][i].provider = "offline" /\ Studied!Settle(Run, i, Failure)
  BY DEF SettleLocal
<1>2. UNCHANGED adapter /\ heard' = heard
  BY DEF SettleLocal
<1>3. PICK answer :
        /\ Studied!Settle(Run, i, answer)
        /\ \/ calls[Run][i].provider = "peer" /\ answer = Text(84)
           \/ calls[Run][i].provider = "offline" /\ answer = Failure
  BY <1>1
<1>4. phase[Run] = "reasoning"
  BY <1>3 DEF Studied!Settle
<1>5. /\ c \in {1, 2, 4} /\ Shaped(c) /\ AnswersOf(c) /\ requests = Asked(c)
      /\ kept[Run].validationOnly = (c = 1) /\ kept[Run].providerCount = Listed(c)
  BY <1>4 DEF StudyOf
<1>6. /\ StudyTypes' /\ Shaped(c)'
      /\ phase' = phase /\ kept' = kept
      /\ DOMAIN calls'[Run] = DOMAIN calls[Run]
      /\ calls'[Run][i].answer = answer
      /\ \A k \in DOMAIN calls[Run] : calls'[Run][k].provider = calls[Run][k].provider
      /\ \A k \in DOMAIN calls[Run] : k # i => calls'[Run][k] = calls[Run][k]
  BY <1>3, <1>5, SettleAnswers
<1>7. AdapterInv' /\ requests' = requests
  BY <1>2, AdapterRests
<1>8. AnswersOf(c)'
  <2> SUFFICES ASSUME NEW k \in DOMAIN calls'[Run]
               PROVE  LET call == calls'[Run][k]
                      IN  /\ call.provider = "live" =>
                               \/ call.answer = Studied!Pending /\ Len(heard) = Asked(c - 1)
                               \/ call.answer = heard[c] /\ Len(heard) = Asked(c)
                          /\ call.provider = "peer" => call.answer \in {Studied!Pending, Text(84)}
                          /\ call.provider = "offline" => call.answer \in {Studied!Pending, Failure}
    BY <1>2 DEF AnswersOf
  <2>1. CASE k = i
    BY <1>3, <1>6, <2>1
  <2>2. CASE k # i
    BY <1>5, <1>6, <2>2 DEF AnswersOf
  <2> QED  BY <2>1, <2>2
<1>9. StudyOf(c)'
  BY <1>2, <1>4, <1>5, <1>6, <1>7, <1>8 DEF StudyOf
<1> QED  BY <1>2, <1>6, <1>7, <1>9

\* The outcome is recorded when every call is answered.
LEMMA CaseRecords ==
  ASSUME StudyTypes, AdapterInv, NEW c \in 1 .. 4, StudyOf(c),
         Studied!Record(Run), UNCHANGED <<adapter, heard>>
  PROVE  StudyTypes' /\ AdapterInv' /\ StudyOf(c)'
<1>1. /\ phase[Run] = "reasoning" /\ Studied!Settled(Run)
      /\ phase' = [phase EXCEPT ![Run] = "recorded"]
      /\ UNCHANGED <<kept, calls, result>>
  BY DEF Studied!Record
<1>2. StudyTypes' /\ phase'[Run] = "recorded"
  BY <1>1 DEF StudyTypes
<1>3. AdapterInv' /\ requests' = requests
  BY AdapterRests
<1>4. Shaped(c)' /\ AnswersOf(c)' /\ Studied!Settled(Run)'
  BY <1>1 DEF StudyOf, Shaped, AnswersOf, Studied!Settled
<1> QED  BY <1>1, <1>2, <1>3, <1>4 DEF StudyOf

\* The names of the results that completed are as many as these.
LEMMA SuccessfulCount ==
  ASSUME NEW n \in Nat, NEW r, DOMAIN r = 1 .. n
  PROVE  LET completed == {i \in 1 .. n : r[i].status = "completed"}
         IN  /\ Len(successful(r)) = Cardinality(completed)
             /\ successful(r) = << >> <=> completed = {}
<1> DEFINE completed == {i \in 1 .. n : r[i].status = "completed"}
           names == [i \in DOMAIN r |-> r[i].provider]
<1>1. successful(r) = filter(names, completed)
  BY DEF successful
<1>2. completed \in SUBSET (1 .. n)
  OBVIOUS
<1> HIDE DEF completed, names
<1>3. Len(filter(names, completed)) = Cardinality(completed)
  BY <1>2, FilterLength
<1>4. filter(names, completed) = << >> <=> completed = {}
  BY <1>2, FilterEmpty
<1> QED  BY <1>1, <1>3, <1>4 DEF completed

\* A case lists two providers but for the first, which lists one.
LEMMA ListedProviders ==
  ASSUME NEW c \in {1, 2, 4}
  PROVE  Listed(c) = IF c = 1 THEN 1 ELSE 2
<1>1. Listed(1) = 1
  BY CaseFacts DEF Listed
<1>2. Listed(2) = 2 /\ Listed(4) = 2
  BY CaseFacts DEF Listed
<1> QED  BY <1>1, <1>2

\* What the live provider's answer, and the local ones', make of a case's study.
LEMMA OutcomeOfCase ==
  ASSUME HeardInv, NEW c \in {1, 2, 4}, Shaped(c), AnswersOf(c), Studied!Settled(Run)
  PROVE  LET r == Studied!providerResults(Run)
             lesson == Studied!lessonCandidate(c = 1, r)
         IN  /\ c = 1 => (Studied!studyStatus(r, Listed(c)) = "completed" <=> Answered(1)) /\ lesson = NoLesson
             /\ c = 2 => /\ Studied!studyStatus(r, Listed(c)) = "completed" <=> Answered(2)
                         /\ lesson.status = "observed" <=> Answered(2)
             /\ c = 4 => Studied!studyStatus(r, Listed(c)) = "partial" /\ lesson = NoLesson
<1> DEFINE r == Studied!providerResults(Run)
           n == IF c = 1 THEN 1 ELSE 2
           completed == {i \in 1 .. n : r[i].status = "completed"}
<1>1. /\ DOMAIN calls[Run] = 1 .. n
      /\ c = 1 => calls[Run][1].provider = "live"
      /\ c = 2 => calls[Run][1].provider = "live" /\ calls[Run][2].provider = "peer"
      /\ c = 4 => calls[Run][1].provider = "peer" /\ calls[Run][2].provider = "offline"
  <2>1. /\ DOMAIN calls[Run] = DOMAIN Cases[c].options.providers
        /\ \A i \in DOMAIN calls[Run] : calls[Run][i].provider = Cases[c].options.providers[i]
    BY DEF Shaped
  <2>2. CASE c = 1
    BY <2>1, <2>2, CaseFacts
  <2>3. CASE c = 2
    BY <2>1, <2>3, CaseFacts
  <2>4. CASE c = 4
    BY <2>1, <2>4, CaseFacts
  <2> QED  BY <2>2, <2>3, <2>4
<1>2. /\ c \in {1, 2} => calls[Run][1].answer = heard[c] /\ IsReply(heard[c])
      /\ c = 2 => calls[Run][2].answer = Text(84)
      /\ c = 4 => calls[Run][1].answer = Text(84) /\ calls[Run][2].answer = Failure
  <2>1. \A i \in DOMAIN calls[Run] : calls[Run][i].answer # Studied!Pending
    BY DEF Studied!Settled
  <2>2. c \in {1, 2} => calls[Run][1].answer = heard[c] /\ Len(heard) = Asked(c)
    BY <1>1, <2>1 DEF AnswersOf
  <2>3. c \in {1, 2} => c \in DOMAIN heard
    BY <2>2 DEF HeardInv, Asked
  <2>4. /\ c = 2 => calls[Run][2].answer = Text(84)
        /\ c = 4 => calls[Run][1].answer = Text(84) /\ calls[Run][2].answer = Failure
    BY <1>1, <2>1 DEF AnswersOf
  <2> QED  BY <2>2, <2>3, <2>4 DEF HeardInv
<1>3. DOMAIN r = 1 .. n /\ \A i \in 1 .. n : r[i] = providerResult(calls[Run][i].provider, calls[Run][i].answer)
  BY <1>1, StudiedResult DEF Studied!providerResults
<1>4. \A provider, answer :
        providerResult(provider, answer).status = "completed" <=> Usable(answer)
  BY DEF providerResult
<1>5. Usable(Text(84)) /\ ~ Usable(Failure)
  BY DEF Usable, Text, Failure
<1>6. c \in {1, 2} => (Usable(heard[c]) <=> Answered(c))
  BY <1>2 DEF IsReply, Usable, Answered, LiveCases
<1> HIDE DEF r
<1>7. /\ c = 1 => completed = IF Answered(1) THEN {1} ELSE {}
      /\ c = 2 => completed = IF Answered(2) THEN {1, 2} ELSE {2}
      /\ c = 4 => completed = {1}
  <2>1. \A i \in 1 .. n : i \in completed <=> Usable(calls[Run][i].answer)
    BY <1>3, <1>4
  <2>2. CASE c = 1
    <3>1. 1 .. n = {1}
      BY <2>2
    <3> QED  BY <1>2, <1>6, <2>1, <2>2, <3>1
  <2>3. CASE c = 2
    <3>1. 1 .. n = {1, 2}
      BY <2>3
    <3> QED  BY <1>2, <1>5, <1>6, <2>1, <2>3, <3>1
  <2>4. CASE c = 4
    <3>1. 1 .. n = {1, 2}
      BY <2>4
    <3> QED  BY <1>2, <1>5, <2>1, <2>4, <3>1
  <2> QED  BY <2>2, <2>3, <2>4
<1>8. Len(r) = n /\ n \in Nat /\ Len(successful(r)) = Cardinality(completed)
      /\ (successful(r) = << >> <=> completed = {})
  <2>1. n \in Nat
    OBVIOUS
  <2>2. Len(r) = n
    BY <1>3, <2>1
  <2> QED  BY <1>3, <2>1, <2>2, SuccessfulCount
<1>9. Cardinality({}) = 0 /\ Cardinality({1}) = 1 /\ Cardinality({2}) = 1 /\ Cardinality({1, 2}) = 2
  <2>1. Cardinality({}) = 0 /\ Cardinality({1}) = 1 /\ Cardinality({2}) = 1
    BY FS_EmptySet, FS_Singleton
  <2>2. {1, 2} = {1} \cup {2} /\ 2 \notin {1}
    OBVIOUS
  <2>3. IsFiniteSet({1})
    BY FS_Singleton
  <2>4. Cardinality({1} \cup {2}) = Cardinality({1}) + 1
    BY <2>2, <2>3, FS_AddElement
  <2> QED  BY <2>1, <2>2, <2>4
<1> DEFINE status == studyStatus(r, Listed(c))
           lesson == lessonCandidate(c = 1, r)
<1>15. Listed(c) = n
  BY ListedProviders DEF n
<1> HIDE DEF n, completed
<1>10. /\ n = 1 <=> c = 1
       /\ n = 2 <=> c # 1
  BY DEF n
<1>11. /\ c = 1 => Len(successful(r)) = IF Answered(1) THEN 1 ELSE 0
       /\ c = 2 => Len(successful(r)) = IF Answered(2) THEN 2 ELSE 1
       /\ c = 4 => Len(successful(r)) = 1 /\ successful(r) # << >>
  BY <1>7, <1>8, <1>9
<1>12. CASE c = 1
  <2>1. lesson = NoLesson
    BY <1>12 DEF lessonCandidate
  <2>2. status = "completed" <=> Answered(1)
    BY <1>8, <1>10, <1>11, <1>12, <1>15 DEF studyStatus
  <2> HIDE DEF status, lesson
  <2> QED  BY <1>12, <2>1, <2>2, StudiedOutcome DEF r, status, lesson
<1>13. CASE c = 2
  <2>1. lesson.status = "observed" <=> Answered(2)
    <3>1. c # 1
      BY <1>13
    <3>2. Len(successful(r)) >= 2 <=> Answered(2)
      BY <1>11, <1>13
    <3> QED  BY <3>1, <3>2 DEF lessonCandidate, NoLesson
  <2>2. status = "completed" <=> Answered(2)
    BY <1>8, <1>10, <1>11, <1>13, <1>15 DEF studyStatus
  <2> HIDE DEF status, lesson
  <2> QED  BY <1>13, <2>1, <2>2, StudiedOutcome DEF r, status, lesson
<1>14. CASE c = 4
  <2>1. lesson = NoLesson
    <3>1. Len(successful(r)) = 1
      BY <1>11, <1>14
    <3> QED  BY <3>1 DEF lessonCandidate
  <2>2. status = "partial"
    BY <1>8, <1>10, <1>11, <1>14, <1>15 DEF studyStatus
  <2> HIDE DEF status, lesson
  <2> QED  BY <1>14, <2>1, <2>2, StudiedOutcome DEF r, status, lesson
<1> QED  BY <1>12, <1>13, <1>14

\* The study returns, and the case's assertions hold of what it returns exactly when
\* the live provider, if asked, answered with a text.
LEMMA CaseReturns ==
  ASSUME StudyTypes, AdapterInv, HeardInv, NEW c \in 1 .. 4, StudyOf(c),
         Studied!Return(Run), UNCHANGED <<adapter, heard>>
  PROVE  StudyTypes' /\ AdapterInv' /\ StudyOf(c)'
<1> DEFINE r == Studied!providerResults(Run)
           lesson == Studied!lessonCandidate(kept[Run].validationOnly, r)
<1>1. /\ phase[Run] = "recorded"
      /\ phase' = [phase EXCEPT ![Run] = "returned"]
      /\ UNCHANGED <<kept, calls>>
      /\ DOMAIN result' = {Run}
      /\ result'[Run].status = Studied!studyStatus(r, kept[Run].providerCount)
      /\ result'[Run].lessonCandidate = lesson
  <2> DEFINE record == [status          |-> Studied!studyStatus(r, kept[Run].providerCount),
                        providerResults |-> r,
                        lessonCandidate |-> lesson,
                        safetyFlags     |-> kept[Run].safetyFlags,
                        auditDigest     |-> Studied!Log!HeadHash(log)]
  <2>1. /\ phase[Run] = "recorded"
        /\ phase' = [phase EXCEPT ![Run] = "returned"]
        /\ UNCHANGED <<kept, calls>>
        /\ result' = [result EXCEPT ![Run] = record]
    BY DEF Studied!Return, Studied!End
  <2>2. record.status = Studied!studyStatus(r, kept[Run].providerCount) /\ record.lessonCandidate = lesson
    OBVIOUS
  <2> HIDE DEF record, r, lesson
  <2>3. DOMAIN result' = {Run} /\ result'[Run] = record
    BY <2>1 DEF StudyTypes
  <2> QED  BY <2>1, <2>2, <2>3
<1> HIDE DEF lesson, r
<1>2. StudyTypes' /\ phase'[Run] = "returned"
  BY <1>1 DEF StudyTypes
<1>3. AdapterInv' /\ requests' = requests
  BY AdapterRests
<1>4. /\ c \in {1, 2, 4} /\ Shaped(c) /\ AnswersOf(c) /\ Studied!Settled(Run)
      /\ kept[Run].validationOnly = (c = 1) /\ kept[Run].providerCount = Listed(c)
      /\ requests = Asked(c)
  BY <1>1 DEF StudyOf
<1>5. Shaped(c)' /\ AnswersOf(c)' /\ Studied!Settled(Run)'
  BY <1>1, <1>4 DEF Shaped, AnswersOf, Studied!Settled
<1>6. /\ c = 1 => (Studied!studyStatus(r, kept[Run].providerCount) = "completed" <=> Answered(1)) /\ lesson = NoLesson
      /\ c = 2 => /\ Studied!studyStatus(r, kept[Run].providerCount) = "completed" <=> Answered(2)
                  /\ lesson.status = "observed" <=> Answered(2)
      /\ c = 4 => Studied!studyStatus(r, kept[Run].providerCount) = "partial" /\ lesson = NoLesson
  BY <1>4, OutcomeOfCase DEF lesson, r
<1>7. CasePassed(c)' <=> Answered(c)
  <2>1. CASE c = 1
    BY <1>1, <1>2, <1>6, <2>1 DEF CasePassed, Returned
  <2>2. CASE c = 2
    BY <1>1, <1>2, <1>6, <2>2 DEF CasePassed, Returned
  <2>3. CASE c = 4
    BY <1>1, <1>2, <1>6, <2>3 DEF CasePassed, Returned, Answered, LiveCases
  <2> QED  BY <1>4, <2>1, <2>2, <2>3
<1>8. Answered(c)' <=> Answered(c)
  BY DEF Answered
<1>9. c \notin LiveCases => Len(heard') = Asked(c)
  BY <1>1 DEF StudyOf
<1> QED  BY <1>1, <1>2, <1>3, <1>4, <1>5, <1>7, <1>8, <1>9 DEF StudyOf

\* The steps of a case's study.
LEMMA CaseSteps ==
  ASSUME StudyTypes, AdapterInv, HeardInv, NEW c \in 1 .. 4, StudyOf(c),
         RunStudy(Cases[c].options) \/ StudyProgress
  PROVE  /\ StudyTypes' /\ AdapterInv' /\ HeardInv' /\ StudyOf(c)'
         /\ Len(heard) \in Nat
         /\ \A k \in 1 .. Len(heard) : heard'[k] = heard[k]
<1>1. ASSUME heard' = heard
      PROVE  HeardInv' /\ Len(heard) \in Nat /\ \A k \in 1 .. Len(heard) : heard'[k] = heard[k]
  BY <1>1 DEF HeardInv, IsReply
<1>2. CASE RunStudy(Cases[c].options)
  BY <1>1, <1>2, CaseStarts
<1>3. CASE SettleLive
  BY <1>3, LiveAnswers
<1>4. CASE SettleLocal
  BY <1>1, <1>4, LocalAnswers
<1>5. CASE Studied!Progress(Run) /\ UNCHANGED <<adapter, heard>>
  BY <1>1, <1>5, CaseRecords, CaseReturns DEF Studied!Progress
<1> QED  BY <1>2, <1>3, <1>4, <1>5 DEF StudyProgress

-----------------------------------------------------------------------------
(* The matrix.                                                             *)

\* A model that asks for authority is denied it, and a human is to review.
LEMMA EscalationIsDenied == ~ Escalation.allowed /\ Escalation.requiresHumanReview
<1> DEFINE principal == [id |-> "model:live", kind |-> "model", grants |-> {"reason", "recommend"}]
           request == [action |-> "grant_authority", target |-> "self", intent |-> None]
<1>1. Denial(principal, request, None, 0) = "hard deny"
  BY DEF Denial, MODEL_HARD_DENY
<1>2. "hard deny" # None /\ request.action \in CONSEQUENTIAL
  BY NoneAssumption DEF CONSEQUENTIAL
<1>3. Escalation = denied("hard deny", TRUE, request)
  <2>1. ("hard deny" # "not granted" \/ request.action \in CONSEQUENTIAL) = TRUE
    BY <1>2
  <2> HIDE DEF principal
  <2>2. evaluateAuthority(principal, request, None, 0) = denied("hard deny", TRUE, request)
    BY <1>1, <1>2, <2>1 DEF evaluateAuthority
  <2> QED  BY <2>2 DEF Escalation, principal
<1> HIDE DEF request
<1> QED  BY <1>3 DEF denied

LEMMA CasesWithoutAnswer ==
  /\ phase[Run] = "threw" /\ calls[Run] = << >> => CasePassed(3)
  /\ CasePassed(5)
BY EscalationIsDenied DEF CasePassed

\* How much was heard when a case's study is under way, and when it has ended.
LEMMA CaseHears ==
  ASSUME StudyTypes, NEW c \in 1 .. 4, StudyOf(c)
  PROVE  /\ Len(heard) \in {Asked(c - 1), Asked(c)}
         /\ StudyEnded => Len(heard) = Asked(c)
<1>1. CASE phase[Run] = "ready"
  BY <1>1 DEF StudyOf, StudyEnded
<1>2. CASE phase[Run] # "ready" /\ c \notin LiveCases
  BY <1>2 DEF StudyOf, StudyEnded
<1>3. CASE phase[Run] # "ready" /\ c \in LiveCases
  <2>1. phase[Run] \in {"reasoning", "recorded", "returned"}
    BY <1>3 DEF StudyOf, StudyTypes, LiveCases
  <2>2. Shaped(c) /\ AnswersOf(c) /\ (phase[Run] # "reasoning" => Studied!Settled(Run))
    BY <2>1 DEF StudyOf
  <2>3. 1 \in DOMAIN calls[Run] /\ calls[Run][1].provider = "live"
    <3>1. DOMAIN calls[Run] = DOMAIN Cases[c].options.providers
          /\ \A i \in DOMAIN calls[Run] : calls[Run][i].provider = Cases[c].options.providers[i]
      BY <2>2 DEF Shaped
    <3>2. CASE c = 1
      BY <3>1, <3>2, CaseFacts
    <3>3. CASE c = 2
      BY <3>1, <3>3, CaseFacts
    <3> QED  BY <1>3, <3>2, <3>3 DEF LiveCases
  <2>4. \/ calls[Run][1].answer = Studied!Pending /\ Len(heard) = Asked(c - 1)
        \/ Len(heard) = Asked(c)
    BY <2>2, <2>3 DEF AnswersOf
  <2>5. StudyEnded => calls[Run][1].answer # Studied!Pending
    BY <2>2, <2>3 DEF StudyEnded, Studied!Settled
  <2> QED  BY <2>4, <2>5
<1> QED  BY <1>1, <1>2, <1>3

\* A new harness is one whose study is still to come.
LEMMA HarnessStarts ==
  ASSUME NewHarness
  PROVE  /\ StudyTypes' /\ phase'[Run] = "ready" /\ calls'[Run] = << >>
         /\ heard' = heard /\ UNCHANGED adapter
<1>1. /\ phase' = [s \in {Run} |-> "ready"]
      /\ kept' = [s \in {Run} |-> Studied!NothingKept]
      /\ calls' = [s \in {Run} |-> << >>]
      /\ result' = [s \in {Run} |-> Studied!NoResult]
      /\ heard' = heard /\ UNCHANGED adapter
  BY DEF NewHarness
<1>2. phase' \in [{Run} -> {"ready"}] /\ phase'[Run] = "ready" /\ calls'[Run] = << >>
  BY <1>1
<1>3. DOMAIN kept' = {Run} /\ DOMAIN calls' = {Run} /\ DOMAIN result' = {Run}
  BY <1>1
<1> QED  BY <1>1, <1>2, <1>3 DEF StudyTypes

\* The next case finds the answers of those before it.
LEMMA OpenCaseKeeps ==
  ASSUME AdapterInv, HeardInv, MatrixInv, OpenCase
  PROVE  StudyTypes' /\ AdapterInv' /\ HeardInv' /\ MatrixInv'
<1>1. /\ Concluded /\ current < Len(Cases)
      /\ current' = current + 1 /\ results' = results
      /\ NewHarness
  BY DEF OpenCase
<1>2. /\ StudyTypes' /\ phase'[Run] = "ready" /\ calls'[Run] = << >>
      /\ heard' = heard /\ UNCHANGED adapter
  BY <1>1, HarnessStarts
<1>3. AdapterInv' /\ requests' = requests /\ HeardInv'
  BY <1>2, AdapterRests DEF HeardInv, IsReply
<1>4. /\ current \in 0 .. 4 /\ Len(results) = current
      /\ requests = Asked(current) /\ Len(heard) = Asked(current)
  BY <1>1, CaseFacts DEF MatrixInv, Concluded
<1>5. ~ Concluded'
  BY <1>1, <1>4 DEF Concluded
<1>6. StudyOf(current)'
  <2>1. current' - 1 = current
    BY <1>1, <1>4
  <2> QED  BY <1>2, <1>3, <1>4, <2>1 DEF StudyOf
<1>7. /\ current' \in 0 .. 5
      /\ Len(results') \in {current' - 1, current'} \cap Nat
      /\ DOMAIN results' = 1 .. Len(results')
      /\ results' = [i \in 1 .. Len(results') |-> results'[i]]
  BY <1>1, <1>4 DEF MatrixInv
<1>8. \A i \in DOMAIN results' :
        /\ results'[i].id = Cases[i].id
        /\ results'[i].severity = "critical"
        /\ results'[i].passed \in BOOLEAN
        /\ results'[i].passed <=> Answered(i)'
  BY <1>1, <1>2 DEF MatrixInv, Answered
<1> QED  BY <1>2, <1>3, <1>5, <1>6, <1>7, <1>8 DEF MatrixInv

\* The study of an open case runs on.
LEMMA CaseStudyKeeps ==
  ASSUME StudyTypes, AdapterInv, HeardInv, MatrixInv, CaseStudy
  PROVE  StudyTypes' /\ AdapterInv' /\ HeardInv' /\ MatrixInv'
<1>1. /\ ~ Concluded /\ current \in 1 .. 4
      /\ RunStudy(Cases[current].options) \/ StudyProgress
      /\ current' = current /\ results' = results
  BY DEF CaseStudy, StudyCases, matrix
<1>2. PICK c \in 1 .. 4 : c = current
  BY <1>1
<1>3. StudyOf(c) /\ (RunStudy(Cases[c].options) \/ StudyProgress)
  BY <1>1, <1>2 DEF MatrixInv
<1>4. /\ StudyTypes' /\ AdapterInv' /\ HeardInv' /\ StudyOf(c)'
      /\ Len(heard) \in Nat
      /\ \A k \in 1 .. Len(heard) : heard'[k] = heard[k]
  BY <1>3, CaseSteps
<1>5. ~ Concluded' /\ current' = c /\ current' # 5
  BY <1>1, <1>2 DEF Concluded
<1>6. StudyOf(current)'
  BY <1>4, <1>5
<1>7. Len(results) = c - 1 /\ DOMAIN results = 1 .. c - 1
  BY <1>1, <1>2 DEF MatrixInv, Concluded
<1>8. ASSUME NEW i \in 1 .. c - 1 PROVE Answered(i)' <=> Answered(i)
  <2>1. i \in LiveCases => i \in 1 .. Len(heard)
    <3>1. Len(heard) \in {Asked(c - 1), Asked(c)}
      BY <1>3, <1>4, CaseHears
    <3>2. i \in LiveCases => i <= Asked(c - 1) /\ i <= Asked(c)
      BY DEF LiveCases, Asked
    <3> QED  BY <1>4, <3>1, <3>2
  <2> QED  BY <1>4, <2>1 DEF Answered
<1>9. \A i \in DOMAIN results' :
        /\ results'[i].id = Cases[i].id
        /\ results'[i].severity = "critical"
        /\ results'[i].passed \in BOOLEAN
        /\ results'[i].passed <=> Answered(i)'
  <2>1. ASSUME NEW i \in DOMAIN results
        PROVE  /\ results[i].id = Cases[i].id
               /\ results[i].severity = "critical"
               /\ results[i].passed \in BOOLEAN
               /\ results[i].passed <=> Answered(i)'
    BY <1>7, <1>8 DEF MatrixInv
  <2> QED  BY <1>1, <2>1
<1>10. /\ current' \in 0 .. 5
       /\ Len(results') \in {current' - 1, current'} \cap Nat
       /\ DOMAIN results' = 1 .. Len(results')
       /\ results' = [i \in 1 .. Len(results') |-> results'[i]]
  BY <1>1 DEF MatrixInv
<1> QED  BY <1>4, <1>5, <1>6, <1>9, <1>10 DEF MatrixInv

\* The result of a case says whether the live provider, if asked, answered it.
LEMMA ResultOfCase ==
  ASSUME StudyTypes, NEW c \in 1 .. 5, StudyOf(c), c \in StudyCases => StudyEnded,
         c = 5 => phase[Run] = "ready"
  PROVE  /\ CasePassed(c) <=> Answered(c)
         /\ requests = Asked(c) /\ Len(heard) = Asked(c)
<1>1. CASE c = 5
  BY <1>1, CasesWithoutAnswer DEF StudyOf, Asked, Answered, LiveCases
<1>2. CASE c \in 1 .. 4
  <2>1. phase[Run] \in {"returned", "threw"} /\ StudyEnded
    BY <1>2 DEF StudyCases, StudyEnded
  <2>2. requests = Asked(c) /\ Len(heard) = Asked(c)
    BY <1>2, <2>1, CaseHears DEF StudyOf
  <2>3. CasePassed(c) <=> Answered(c)
    <3>1. CASE phase[Run] = "returned"
      BY <3>1 DEF StudyOf
    <3>2. CASE phase[Run] = "threw"
      BY <3>2, CasesWithoutAnswer DEF StudyOf, Answered, LiveCases
    <3> QED  BY <2>1, <3>1, <3>2
  <2> QED  BY <2>2, <2>3
<1> QED  BY <1>1, <1>2

\* A case's result is pushed.
LEMMA ConcludeKeeps ==
  ASSUME StudyTypes, AdapterInv, HeardInv, MatrixInv, Conclude
  PROVE  StudyTypes' /\ AdapterInv' /\ HeardInv' /\ MatrixInv'
<1>1. /\ ~ Concluded
      /\ current \in StudyCases => StudyEnded
      /\ results' = Append(results, caseResult(current))
      /\ current' = current
      /\ UNCHANGED <<study, adapter, heard>>
  BY DEF Conclude, studyVars
<1>2. /\ phase' = phase /\ kept' = kept /\ calls' = calls /\ result' = result
      /\ heard' = heard /\ UNCHANGED adapter
  BY <1>1 DEF study
<1>3. StudyTypes' /\ HeardInv'
  BY <1>2 DEF StudyTypes, HeardInv, IsReply
<1>4. AdapterInv' /\ requests' = requests
  BY <1>2, AdapterRests
<1>5. PICK c \in 1 .. 5 : c = current
  <2>1. current \in 0 .. 5 /\ Len(results) = current - 1 /\ Len(results) \in Nat
    BY <1>1 DEF MatrixInv, Concluded
  <2>2. current \in 1 .. 5
    BY <2>1
  <2> QED  BY <2>2
<1>6. Len(results) = c - 1 /\ Len(results) \in Nat /\ DOMAIN results = 1 .. c - 1
  BY <1>1, <1>5 DEF MatrixInv, Concluded
<1>7. /\ CasePassed(c) <=> Answered(c)
      /\ requests = Asked(c) /\ Len(heard) = Asked(c)
  <2>1. StudyOf(c) /\ (c = 5 => phase[Run] = "ready")
    BY <1>1, <1>5 DEF MatrixInv
  <2>2. c \in StudyCases => StudyEnded
    BY <1>1, <1>5
  <2> QED  BY <2>1, <2>2, ResultOfCase
<1> DEFINE x == caseResult(c)
<1>8. /\ x.id = Cases[c].id
      /\ x.severity = "critical"
      /\ x.passed = CasePassed(c)
  BY CaseFacts DEF caseResult
<1>9. x.passed \in BOOLEAN /\ (x.passed <=> Answered(c))
  <2>1. CasePassed(c) \in BOOLEAN
    BY DEF CasePassed
  <2> HIDE DEF x
  <2> QED  BY <1>7, <1>8, <2>1
<1> HIDE DEF x
<1>10. results' = Append(results, x)
  BY <1>1, <1>5 DEF x
<1>11. /\ Len(results') = c /\ DOMAIN results' = 1 .. c
       /\ results' = [i \in 1 .. Len(results') |-> results'[i]]
       /\ results'[c] = x
       /\ \A i \in 1 .. c - 1 : results'[i] = results[i]
  <2>1. results = [i \in 1 .. Len(results) |-> results[i]]
    BY DEF MatrixInv
  <2>2. LET t == Append(results, x)
        IN  /\ Len(t) = Len(results) + 1 /\ DOMAIN t = 1 .. Len(results) + 1
            /\ t = [i \in 1 .. Len(t) |-> t[i]]
            /\ t[Len(results) + 1] = x
            /\ \A i \in 1 .. Len(results) : t[i] = results[i]
    BY <1>6, <2>1, ListAppend
  <2>3. Len(results) + 1 = c
    BY <1>6
  <2> QED  BY <1>6, <1>10, <2>2, <2>3
<1>12. \A i \in 1 .. 5 : Answered(i)' <=> Answered(i)
  BY <1>2 DEF Answered
<1>13. ASSUME NEW i \in 1 .. c
       PROVE  /\ results'[i].id = Cases[i].id
              /\ results'[i].severity = "critical"
              /\ results'[i].passed \in BOOLEAN
              /\ results'[i].passed <=> Answered(i)'
  <2>1. CASE i = c
    BY <1>8, <1>9, <1>11, <1>12, <2>1
  <2>2. CASE i # c
    <3>1. i \in 1 .. c - 1 /\ i \in DOMAIN results /\ i \in 1 .. 5
      BY <1>6, <2>2
    <3>2. results'[i] = results[i]
      BY <1>11, <3>1
    <3>3. /\ results[i].id = Cases[i].id
          /\ results[i].severity = "critical"
          /\ results[i].passed \in BOOLEAN
          /\ results[i].passed <=> Answered(i)
      BY <3>1 DEF MatrixInv
    <3> QED  BY <1>12, <3>1, <3>2, <3>3
  <2> QED  BY <2>1, <2>2
<1>14. /\ Concluded'
       /\ requests' = Asked(current') /\ Len(heard') = Asked(current')
  BY <1>1, <1>2, <1>4, <1>5, <1>7, <1>11 DEF Concluded
<1>15. current' \in 0 .. 5 /\ Len(results') \in {current' - 1, current'} \cap Nat
  BY <1>1, <1>5, <1>11
<1> QED  BY <1>3, <1>4, <1>11, <1>13, <1>14, <1>15 DEF MatrixInv

\* What the network does changes none of that.
LEMMA MatrixRests ==
  ASSUME MatrixInv, UNCHANGED <<study, matrix, heard, requests>>
  PROVE  MatrixInv'
<1>1. /\ phase' = phase /\ kept' = kept /\ calls' = calls /\ result' = result
      /\ current' = current /\ results' = results
      /\ heard' = heard /\ requests' = requests
  BY DEF study, matrix
<1>2. ASSUME NEW c \in 1 .. 5, StudyOf(c) PROVE StudyOf(c)'
  <2>1. Shaped(c) => Shaped(c)'
    BY <1>1 DEF Shaped
  <2>2. AnswersOf(c) => AnswersOf(c)'
    BY <1>1 DEF AnswersOf
  <2>3. Studied!Settled(Run) => Studied!Settled(Run)'
    BY <1>1 DEF Studied!Settled
  <2>4. (CasePassed(c)' <=> CasePassed(c)) /\ (Answered(c)' <=> Answered(c))
    BY <1>1 DEF CasePassed, Returned, Answered
  <2> QED  BY <1>1, <1>2, <2>1, <2>2, <2>3, <2>4 DEF StudyOf
<1>3. Concluded' <=> Concluded
  BY <1>1 DEF Concluded
<1>4. ~ Concluded => StudyOf(current)'
  <2> SUFFICES ASSUME ~ Concluded PROVE StudyOf(current)'
    OBVIOUS
  <2>1. current \in 1 .. 5
    BY DEF MatrixInv, Concluded
  <2>2. PICK c \in 1 .. 5 : c = current
    BY <2>1
  <2>3. StudyOf(c)'
    BY <1>2, <2>2 DEF MatrixInv
  <2> QED  BY <1>1, <2>2, <2>3
<1>5. \A i \in DOMAIN results : Answered(i)' <=> Answered(i)
  BY <1>1 DEF Answered
<1>6. \A i \in DOMAIN results' :
        /\ results'[i].id = Cases[i].id
        /\ results'[i].severity = "critical"
        /\ results'[i].passed \in BOOLEAN
        /\ results'[i].passed <=> Answered(i)'
  BY <1>1, <1>5 DEF MatrixInv
<1>7. /\ current' \in 0 .. 5
      /\ Len(results') \in {current' - 1, current'} \cap Nat
      /\ DOMAIN results' = 1 .. Len(results')
      /\ results' = [i \in 1 .. Len(results') |-> results'[i]]
  BY <1>1 DEF MatrixInv
<1>8. /\ Concluded => requests' = Asked(current') /\ Len(heard') = Asked(current')
      /\ ~ Concluded => (current' = 5 => phase'[Run] = "ready")
  BY <1>1 DEF MatrixInv
<1> QED  BY <1>3, <1>4, <1>6, <1>7, <1>8 DEF MatrixInv

\* The steps of the matrix.
LEMMA MatrixKeeps ==
  ASSUME StudyTypes, AdapterInv, HeardInv, MatrixInv, Matrix
  PROVE  StudyTypes' /\ AdapterInv' /\ HeardInv' /\ MatrixInv'
BY OpenCaseKeeps, CaseStudyKeeps, ConcludeKeeps DEF Matrix

-----------------------------------------------------------------------------
(* A program's own study.                                                  *)

\* Whatever its options are, it sends one request at most.
LEMMA OwnStudyStarts ==
  ASSUME StudyTypes, AdapterInv, NEW o, RunStudy(o)
  PROVE  /\ StudyTypes' /\ AdapterInv' /\ heard' = heard
         /\ phase[Run] = "ready" /\ phase'[Run] # "ready"
         /\ requests' \in {requests, requests + 1}
<1>1. PICK stillMatches \in BOOLEAN :
        LET preflight == sanitizeObjective(o.objective, stillMatches)
        IN  \/ Studied!Reject(Run, preflight) /\ UNCHANGED adapter
            \/ /\ Studied!Start(Run, o, preflight)
               /\ IF "live" \in ToSet(o.providers)
                  THEN Live!reason(preflight.objective)
                  ELSE UNCHANGED adapter
  BY DEF RunStudy
<1> DEFINE preflight == sanitizeObjective(o.objective, stillMatches)
<1> HIDE DEF preflight
<1>2. \/ Studied!Reject(Run, preflight) /\ UNCHANGED adapter
      \/ Studied!Start(Run, o, preflight) /\ (Live!reason(preflight.objective) \/ UNCHANGED adapter)
  BY <1>1 DEF preflight
<1>3. StudyTypes' /\ phase[Run] = "ready" /\ phase'[Run] # "ready"
  BY <1>2, RejectEnds, StartAsks
<1>4. AdapterInv' /\ requests' \in {requests, requests + 1}
  BY <1>2, AdapterRests, ReasonSends
<1> QED  BY <1>3, <1>4 DEF RunStudy

\* Once it runs it sends none.
LEMMA OwnStudyGoesOn ==
  ASSUME StudyTypes, AdapterInv, HeardInv, StudyProgress
  PROVE  /\ StudyTypes' /\ AdapterInv' /\ HeardInv'
         /\ phase[Run] # "ready" /\ phase'[Run] # "ready"
         /\ requests' = requests
<1>1. AdapterInv' /\ requests' = requests
  BY AdapterRests DEF StudyProgress, SettleLive, SettleLocal
<1>2. HeardInv'
  <2>1. CASE SettleLive
    BY <2>1, HearingAdds DEF SettleLive, AdapterInv
  <2>2. CASE heard' = heard
    BY <2>2 DEF HeardInv, IsReply
  <2> QED  BY <2>1, <2>2 DEF StudyProgress, SettleLocal
<1>3. StudyTypes' /\ phase[Run] # "ready" /\ phase'[Run] # "ready"
  <2>1. ASSUME NEW i, NEW answer, Studied!Settle(Run, i, answer)
        PROVE  StudyTypes' /\ phase[Run] # "ready" /\ phase'[Run] # "ready"
    <3>1. /\ phase[Run] = "reasoning" /\ UNCHANGED <<phase, kept, result>>
          /\ calls' = [calls EXCEPT ![Run][i].answer = answer]
      BY <2>1 DEF Studied!Settle
    <3> QED  BY <3>1 DEF StudyTypes
  <2>2. CASE SettleLive
    BY <2>1, <2>2 DEF SettleLive
  <2>3. CASE SettleLocal
    BY <2>1, <2>3 DEF SettleLocal
  <2>4. CASE Studied!Record(Run)
    <3>1. /\ phase[Run] = "reasoning" /\ phase' = [phase EXCEPT ![Run] = "recorded"]
          /\ UNCHANGED <<kept, calls, result>>
      BY <2>4 DEF Studied!Record
    <3> QED  BY <3>1 DEF StudyTypes
  <2>5. CASE Studied!Return(Run)
    <3> DEFINE record == [status          |-> Studied!studyStatus(Studied!providerResults(Run), kept[Run].providerCount),
                          providerResults |-> Studied!providerResults(Run),
                          lessonCandidate |-> Studied!lessonCandidate(kept[Run].validationOnly, Studied!providerResults(Run)),
                          safetyFlags     |-> kept[Run].safetyFlags,
                          auditDigest     |-> Studied!Log!HeadHash(log)]
    <3>1. /\ phase[Run] = "recorded" /\ phase' = [phase EXCEPT ![Run] = "returned"]
          /\ UNCHANGED <<kept, calls>>
          /\ result' = [result EXCEPT ![Run] = record]
      BY <2>5 DEF Studied!Return, Studied!End
    <3> HIDE DEF record
    <3> QED  BY <3>1 DEF StudyTypes
  <2> QED  BY <2>2, <2>3, <2>4, <2>5 DEF StudyProgress, Studied!Progress
<1> QED  BY <1>1, <1>2, <1>3

-----------------------------------------------------------------------------
(* The command.                                                            *)

LEMMA InitInvariant == Init => VInv
<1> SUFFICES ASSUME Init PROVE VInv
  OBVIOUS
<1>1. /\ phase = [s \in {Run} |-> "ready"] /\ kept = [s \in {Run} |-> Studied!NothingKept]
      /\ calls = [s \in {Run} |-> << >>] /\ result = [s \in {Run} |-> Studied!NoResult]
      /\ http = "idle" /\ payload = Live!NoPayload /\ requests = 0 /\ heard = << >>
      /\ current = 0 /\ results = << >> /\ stage = "start" /\ evidence = NoEvidence
  BY DEF Init, MatrixInit, StudyInit, Studied!Init, Live!Init
<1>2. StudyTypes /\ phase[Run] = "ready"
  <2>1. phase \in [{Run} -> {"ready"}]
    BY <1>1
  <2>2. DOMAIN kept = {Run} /\ DOMAIN calls = {Run} /\ DOMAIN result = {Run}
    BY <1>1
  <2> QED  BY <2>1, <2>2 DEF StudyTypes
<1>3. AdapterInv
  BY <1>1 DEF AdapterInv
<1>4. HeardInv
  BY <1>1 DEF HeardInv
<1>5. CommandInv
  BY <1>1, <1>2 DEF CommandInv, EvidenceInv
<1> QED  BY <1>2, <1>3, <1>4, <1>5 DEF VInv

\* Without evidence there is nothing to say of it.
LEMMA NothingPrinted ==
  ASSUME CommandInv, stage # "ended"
  PROVE  evidence = NoEvidence /\ (evidence' = evidence => EvidenceInv')
BY DEF CommandInv, EvidenceInv

\* A matrix that has not begun.
LEMMA MatrixBegins ==
  ASSUME current = 0, results = << >>, requests = 0, heard = << >>
  PROVE  MatrixInv
BY DEF MatrixInv, Concluded, Asked

LEMMA ConfigureKeeps ==
  ASSUME VInv, NEW apiKey, NEW chosen, Configure(apiKey, chosen)
  PROVE  VInv'
<1>1. /\ stage = "start" /\ stage' \in {"running", "studying", "ended"}
      /\ UNCHANGED <<study, adapter, heard, current, results, evidence>>
  BY DEF Configure, Abort, studyVars, matrix
<1>2. /\ phase' = phase /\ kept' = kept /\ calls' = calls /\ result' = result
      /\ heard' = heard /\ current' = current /\ results' = results /\ evidence' = evidence
      /\ UNCHANGED adapter
  BY <1>1 DEF study
<1>3. StudyTypes' /\ HeardInv' /\ AdapterInv' /\ requests' = requests
  BY <1>2, AdapterRests DEF VInv, StudyTypes, HeardInv, IsReply
<1>4. current = 0 /\ results = << >> /\ requests = 0 /\ heard = << >> /\ phase[Run] = "ready"
  BY <1>1 DEF VInv, CommandInv
<1>5. MatrixInv'
  BY <1>2, <1>3, <1>4, MatrixBegins DEF MatrixInv, Concluded, Asked
<1>6. evidence' = NoEvidence /\ EvidenceInv'
  BY <1>1, <1>2, NothingPrinted DEF VInv
<1>7. CommandInv'
  BY <1>1, <1>2, <1>3, <1>4, <1>5, <1>6 DEF CommandInv
<1> QED  BY <1>3, <1>7 DEF VInv

LEMMA RunningKeeps ==
  ASSUME VInv, stage = "running", Matrix, UNCHANGED command
  PROVE  VInv'
<1>1. StudyTypes' /\ AdapterInv' /\ HeardInv' /\ MatrixInv'
  BY MatrixKeeps DEF VInv, CommandInv
<1>2. stage' = "running" /\ EvidenceInv'
  BY NothingPrinted DEF VInv, command
<1> QED  BY <1>1, <1>2 DEF VInv, CommandInv

LEMMA OwnStudyKeeps ==
  ASSUME VInv, OwnStudy
  PROVE  VInv'
<1>1. /\ stage = "studying"
      /\ current' = current /\ results' = results /\ evidence' = evidence
      /\ current = 0 /\ results = << >>
      /\ requests \in Nat /\ requests <= IF phase[Run] = "ready" THEN 0 ELSE 1
  BY DEF OwnStudy, VInv, CommandInv, matrix, AdapterInv
<1>2. evidence' = NoEvidence /\ EvidenceInv'
  BY <1>1, NothingPrinted DEF VInv
<1>3. CASE \E o \in StudyOptions : RunStudy(o) /\ UNCHANGED stage
  <2>1. PICK o \in StudyOptions : RunStudy(o) /\ UNCHANGED stage
    BY <1>3
  <2>2. /\ StudyTypes' /\ AdapterInv' /\ heard' = heard
        /\ phase[Run] = "ready" /\ phase'[Run] # "ready"
        /\ requests' \in {requests, requests + 1}
    BY <2>1, OwnStudyStarts DEF VInv
  <2>3. HeardInv'
    BY <2>2 DEF VInv, HeardInv, IsReply
  <2>4. CommandInv'
    BY <1>1, <1>2, <2>1, <2>2 DEF CommandInv
  <2> QED  BY <2>2, <2>3, <2>4 DEF VInv
<1>4. CASE StudyProgress /\ UNCHANGED stage
  <2>1. /\ StudyTypes' /\ AdapterInv' /\ HeardInv'
        /\ phase[Run] # "ready" /\ phase'[Run] # "ready"
        /\ requests' = requests
    BY <1>4, OwnStudyGoesOn DEF VInv
  <2>2. CommandInv'
    BY <1>1, <1>2, <1>4, <2>1 DEF CommandInv
  <2> QED  BY <2>1, <2>2 DEF VInv
<1>5. CASE StudyEnded /\ stage' = "ended" /\ UNCHANGED studyVars
  <2>1. /\ phase' = phase /\ kept' = kept /\ calls' = calls /\ result' = result
        /\ heard' = heard /\ UNCHANGED adapter
    BY <1>5 DEF studyVars, study
  <2>2. StudyTypes' /\ HeardInv' /\ AdapterInv' /\ requests' = requests
    BY <2>1, AdapterRests DEF VInv, StudyTypes, HeardInv, IsReply
  <2>3. CommandInv'
    BY <1>1, <1>2, <1>5, <2>1, <2>2 DEF CommandInv
  <2> QED  BY <2>2, <2>3 DEF VInv
<1> QED  BY <1>3, <1>4, <1>5 DEF OwnStudy

LEMMA ConclusionKeeps ==
  ASSUME VInv, NEW tag, NEW releaseSha, NEW githubSha, Conclusion(tag, releaseSha, githubSha)
  PROVE  VInv'
<1>1. /\ stage = "running" /\ Finished /\ stage' = "ended"
      /\ evidence' = buildOpenAIEvaluationEvidence(model, report, tag, Or(releaseSha, githubSha))
      /\ exitCode' = IF evidence'.passed THEN 0 ELSE 1
      /\ UNCHANGED <<study, adapter, heard, matrix>>
  BY DEF Conclusion, studyVars
<1>2. /\ phase' = phase /\ kept' = kept /\ calls' = calls /\ result' = result
      /\ heard' = heard /\ current' = current /\ results' = results
      /\ UNCHANGED adapter /\ UNCHANGED <<study, matrix>>
  BY <1>1 DEF study, matrix
<1>3. StudyTypes' /\ HeardInv' /\ AdapterInv' /\ requests' = requests
  BY <1>2, AdapterRests DEF VInv, StudyTypes, HeardInv, IsReply
<1>4. MatrixInv /\ MatrixInv'
  BY <1>1, <1>2, <1>3, MatrixRests DEF VInv, CommandInv
<1>5. Finished' /\ report' = report /\ criticalRegressions' = criticalRegressions
  BY <1>1, <1>2 DEF Finished, Concluded, report, criticalRegressions
<1>6. /\ evidence'.liveProviderCallCount = 2
      /\ evidence'.evaluationCaseCount = Len(report.results)
      /\ evidence'.passed = report.passed
      /\ evidence'.failedCaseCount = Len(Failed(report))
      /\ evidence'.criticalRegressions = report.criticalRegressions
  <2> DEFINE r == report
  <2>1. evidence' = buildOpenAIEvaluationEvidence(model, r, tag, Or(releaseSha, githubSha))
    BY <1>1
  <2> HIDE DEF r
  <2> QED  BY <2>1 DEF buildOpenAIEvaluationEvidence, r
<1>7. report.results = results /\ report.criticalRegressions = criticalRegressions
  BY DEF report
<1>8. Failed(report)' = Failed(report)
  BY <1>5 DEF Failed
<1>9. EvidenceInv'
  BY <1>1, <1>2, <1>5, <1>6, <1>7, <1>8 DEF EvidenceInv
<1>10. CommandInv'
  BY <1>1, <1>4, <1>5, <1>9 DEF CommandInv
<1> QED  BY <1>3, <1>10 DEF VInv

\* The network's steps, and those that change nothing.
LEMMA NetworkKeeps ==
  ASSUME VInv, UNCHANGED <<study, heard, matrix, command>>, AdapterInv', requests' = requests
  PROVE  VInv'
<1>1. /\ phase' = phase /\ kept' = kept /\ calls' = calls /\ result' = result
      /\ heard' = heard /\ current' = current /\ results' = results
      /\ stage' = stage /\ evidence' = evidence /\ exitCode' = exitCode
      /\ UNCHANGED <<study, matrix, heard, requests>>
  BY DEF study, matrix, command
<1>2. StudyTypes' /\ HeardInv'
  BY <1>1 DEF VInv, StudyTypes, HeardInv, IsReply
<1>3. MatrixInv => MatrixInv'
  BY <1>1, MatrixRests
<1>4. /\ Finished' <=> Finished
      /\ report' = report /\ criticalRegressions' = criticalRegressions
      /\ Failed(report)' = Failed(report)
  BY <1>1 DEF Finished, Concluded, report, criticalRegressions, Failed
<1>5. EvidenceInv'
  BY <1>1, <1>4 DEF VInv, CommandInv, EvidenceInv
<1>6. CommandInv'
  BY <1>1, <1>3, <1>4, <1>5 DEF VInv, CommandInv
<1> QED  BY <1>2, <1>6 DEF VInv

LEMMA StepInvariant == VInv /\ [Next]_vars => VInv'
<1> SUFFICES ASSUME VInv, [Next]_vars PROVE VInv'
  OBVIOUS
<1>1. CASE stage = "running" /\ Matrix /\ UNCHANGED command
  BY <1>1, RunningKeeps
<1>2. CASE OwnStudy
  BY <1>2, OwnStudyKeeps
<1>3. CASE \E apiKey, chosen \in Settings : Configure(apiKey, chosen)
  BY <1>3, ConfigureKeeps
<1>4. CASE \E tag, releaseSha, githubSha \in Settings : Conclusion(tag, releaseSha, githubSha)
  BY <1>4, ConclusionKeeps
<1>5. CASE Network /\ UNCHANGED <<matrix, command>>
  <2>1. UNCHANGED <<study, heard, matrix, command>> /\ (Live!Endpoint \/ Live!TimesOut)
    BY <1>5 DEF Network
  <2> QED  BY <2>1, NetworkSettles, NetworkKeeps DEF VInv
<1>6. CASE UNCHANGED vars
  <2>1. UNCHANGED <<study, heard, matrix, command>> /\ UNCHANGED adapter
    BY <1>6 DEF vars, studyVars
  <2> QED  BY <2>1, AdapterRests, NetworkKeeps DEF VInv
<1> QED  BY <1>1, <1>2, <1>3, <1>4, <1>5, <1>6 DEF Next, Progress

\* What the evaluation keeps, of itself and of its study.
THEOREM InvariantHolds == Spec => []VInv
BY InitInvariant, StepInvariant, PTL DEF Spec

-----------------------------------------------------------------------------
(* What it keeps.                                                          *)

LEMMA VInvTypes == VInv => TypeOK
<1> SUFFICES ASSUME VInv PROVE TypeOK
  OBVIOUS
<1>1. /\ stage \in {"start", "running", "studying", "ended"}
      /\ http \in {"idle", "fetching", "reading", "settled"}
      /\ payload \in Payloads \cup {Live!NoPayload}
      /\ http = "settled" => reply.kind \in {"text", "error"}
  BY DEF VInv, CommandInv, AdapterInv, IsReply
<1>2. \A i \in DOMAIN heard : heard[i].kind \in {"text", "error"}
  BY DEF VInv, HeardInv, IsReply
<1>3. MatrixInv \/ (current = 0 /\ results = << >>)
  BY DEF VInv, CommandInv
<1>4. /\ current \in 0 .. Len(Cases)
      /\ Len(results) \in {current - 1, current} \cap Nat
      /\ \A i \in DOMAIN results : results[i].id = Cases[i].id /\ results[i].passed \in BOOLEAN
  BY <1>3, CaseFacts DEF MatrixInv
<1> QED  BY <1>1, <1>2, <1>4 DEF TypeOK

\* Every variable has its type.
THEOREM TypeCorrect == Spec => []TypeOK
BY InvariantHolds, VInvTypes, PTL

\* A matrix that is under way, or over, has asked as often as its cases say.
LEMMA MatrixAsks == MatrixInv => requests <= 2 /\ (Finished => requests = 2)
<1> SUFFICES ASSUME MatrixInv PROVE requests <= 2 /\ (Finished => requests = 2)
  OBVIOUS
<1>1. Concluded => requests = Asked(current)
  BY DEF MatrixInv
<1>2. ~ Concluded => requests \in {Asked(current - 1), Asked(current)} /\ current \in 1 .. 5
  BY DEF MatrixInv, StudyOf, Concluded
<1>3. current \in 0 .. 5
  BY DEF MatrixInv
<1> QED  BY <1>1, <1>2, <1>3, CaseFacts DEF Asked, Finished

\* The evidence counts two calls, and two requests were sent, whatever became of
\* them; no state has more.  (CountedCallsWereMade)
THEOREM CountedCallsAreMade == Spec => []CountedCallsWereMade
<1>1. VInv => CountedCallsWereMade
  <2> SUFFICES ASSUME VInv PROVE CountedCallsWereMade
    OBVIOUS
  <2>1. MatrixInv \/ requests <= 1
    BY DEF VInv, CommandInv, AdapterInv
  <2>2. requests \in Nat /\ requests <= 2
    BY <2>1, MatrixAsks DEF VInv, AdapterInv
  <2>3. evidence # NoEvidence => /\ MatrixInv /\ Finished
                                 /\ evidence.liveProviderCallCount = 2
    BY DEF VInv, CommandInv, EvidenceInv
  <2> QED  BY <2>2, <2>3, MatrixAsks DEF CountedCallsWereMade
<1> QED  BY <1>1, InvariantHolds, PTL

\* The report of a finished matrix names the cases whose call was not answered.
LEMMA ReportOfFailures ==
  ASSUME MatrixInv, HeardInv, Finished
  PROVE  LET failedCalls == {i \in DOMAIN heard : heard[i].kind # "text"}
         IN  /\ Len(results) = 5
             /\ ToSet(criticalRegressions) = {Cases[i].id : i \in failedCalls}
             /\ Len(Failed(report)) = Cardinality(failedCalls)
             /\ report.passed <=> failedCalls = {}
<1> DEFINE failedCalls == {i \in DOMAIN heard : heard[i].kind # "text"}
           ids == [i \in DOMAIN results |-> results[i].id]
           critical == {i \in DOMAIN results : results[i].severity = "critical" /\ ~ results[i].passed}
           failedCases == {i \in DOMAIN results : ~ results[i].passed}
<1>1. /\ current = 5 /\ Len(results) = 5 /\ DOMAIN results = 1 .. 5
      /\ Len(heard) = 2 /\ DOMAIN heard = 1 .. 2
      /\ \A i \in 1 .. 5 :
           /\ results[i].id = Cases[i].id
           /\ results[i].severity = "critical"
           /\ results[i].passed <=> Answered(i)
  BY CaseFacts DEF Finished, Concluded, MatrixInv, HeardInv, Asked
<1>2. failedCases = failedCalls
  BY <1>1 DEF Answered, LiveCases
<1>3. critical = failedCalls
  BY <1>1, <1>2
<1>4. failedCalls \in SUBSET (1 .. 5) /\ failedCalls \in SUBSET (1 .. 2)
  BY <1>1
<1>5. criticalRegressions = filter(ids, critical)
  BY DEF criticalRegressions
<1>6. Failed(report) = filter(results, failedCases)
  BY DEF Failed, report
<1>7. \A i \in failedCalls : ids[i] = Cases[i].id
  BY <1>1, <1>4
<1>8. report.passed <=> criticalRegressions = << >> /\ \A i \in DOMAIN results : results[i].passed
  <2> DEFINE b == criticalRegressions = << >> /\ \A i \in DOMAIN results : results[i].passed
  <2>1. report.passed = b
    BY DEF report
  <2> QED  BY <2>1
<1>9. (\A i \in DOMAIN results : results[i].passed) <=> failedCases = {}
  OBVIOUS
<1> HIDE DEF failedCalls, critical, failedCases, ids
<1>10. criticalRegressions = filter(ids, failedCalls)
  BY <1>3, <1>5
<1>11. ToSet(criticalRegressions) = {Cases[i].id : i \in failedCalls}
  <2>1. ToSet(filter(ids, failedCalls)) = {ids[i] : i \in failedCalls}
    BY <1>4, FilterMembers
  <2> QED  BY <1>7, <1>10, <2>1
<1>12. Len(Failed(report)) = Cardinality(failedCalls)
  BY <1>2, <1>4, <1>6, FilterLength
<1>13. criticalRegressions = << >> <=> failedCalls = {}
  BY <1>4, <1>10, FilterEmpty
<1>14. report.passed <=> failedCalls = {}
  BY <1>2, <1>8, <1>9, <1>13
<1> QED  BY <1>1, <1>11, <1>12, <1>14 DEF failedCalls

\* A call that was not answered with a text is in the evidence as a failure of its
\* case, and of no other, and in the exit code.  (FailuresStayFailures)
THEOREM FailuresAreEvidenced == Spec => []FailuresStayFailures
<1>1. VInv => FailuresStayFailures
  <2> SUFFICES ASSUME VInv, evidence # NoEvidence PROVE FailuresStayFailures
    BY DEF FailuresStayFailures
  <2> DEFINE failedCalls == {i \in DOMAIN heard : heard[i].kind # "text"}
  <2>1. /\ MatrixInv /\ HeardInv /\ Finished
        /\ evidence.evaluationCaseCount = Len(results)
        /\ evidence.passed = report.passed
        /\ evidence.failedCaseCount = Len(Failed(report))
        /\ evidence.criticalRegressions = criticalRegressions
        /\ exitCode = IF report.passed THEN 0 ELSE 1
    BY DEF VInv, CommandInv, EvidenceInv
  <2>2. /\ Len(results) = 5
        /\ ToSet(criticalRegressions) = {Cases[i].id : i \in failedCalls}
        /\ Len(Failed(report)) = Cardinality(failedCalls)
        /\ report.passed <=> failedCalls = {}
    BY <2>1, ReportOfFailures
  <2>3. exitCode = 0 <=> evidence.passed
    BY <2>1
  <2> HIDE DEF failedCalls
  <2>4. /\ ToSet(evidence.criticalRegressions) = {Cases[i].id : i \in failedCalls}
        /\ evidence.failedCaseCount = Cardinality(failedCalls)
        /\ evidence.passed <=> failedCalls = {}
        /\ evidence.evaluationCaseCount = Len(Cases)
    BY <2>1, <2>2, CaseFacts
  <2> QED  BY <2>3, <2>4 DEF FailuresStayFailures, failedCalls
<1> QED  BY <1>1, InvariantHolds, PTL

\* A text of the adapter is every text of a clean body's messages, in order, and
\* nothing else.  (TextsComeFromCleanBodies)
THEOREM TextsComeFromBodies == Spec => []TextsComeFromCleanBodies
<1>1. VInv => TextsComeFromCleanBodies
  BY AdapterTexts DEF VInv
<1> QED  BY <1>1, InvariantHolds, PTL

-----------------------------------------------------------------------------
(* The adapter as a provider.                                              *)

\* A step of the evaluation is one of the adapter, or leaves it alone.
LEMMA AdapterMoves ==
  ASSUME [Next]_vars
  PROVE  \/ UNCHANGED adapter
         \/ \E input : Live!reason(input)
         \/ Live!Endpoint \/ Live!TimesOut
<1>1. ASSUME NEW o, RunStudy(o) PROVE UNCHANGED adapter \/ \E input : Live!reason(input)
  BY <1>1 DEF RunStudy
<1>2. StudyProgress => UNCHANGED adapter
  BY DEF StudyProgress, SettleLive, SettleLocal
<1>3. Matrix => UNCHANGED adapter \/ \E input : Live!reason(input)
  <2>1. OpenCase => UNCHANGED adapter
    BY DEF OpenCase, NewHarness
  <2>2. CaseStudy => UNCHANGED adapter \/ \E input : Live!reason(input)
    BY <1>1, <1>2 DEF CaseStudy
  <2>3. Conclude => UNCHANGED adapter
    BY DEF Conclude, studyVars
  <2> QED  BY <2>1, <2>2, <2>3 DEF Matrix
<1>4. OwnStudy => UNCHANGED adapter \/ \E input : Live!reason(input)
  BY <1>1, <1>2 DEF OwnStudy, studyVars
<1>5. ASSUME NEW apiKey, NEW chosen, Configure(apiKey, chosen) PROVE UNCHANGED adapter
  BY <1>5 DEF Configure, studyVars
<1>6. ASSUME NEW tag, NEW releaseSha, NEW githubSha, Conclusion(tag, releaseSha, githubSha)
      PROVE  UNCHANGED adapter
  BY <1>6 DEF Conclusion, studyVars
<1>7. Network => Live!Endpoint \/ Live!TimesOut
  BY DEF Network
<1>8. UNCHANGED vars => UNCHANGED adapter
  BY DEF vars, studyVars
<1> QED  BY <1>3, <1>4, <1>5, <1>6, <1>7, <1>8 DEF Next, Progress

\* What a caller sees of a call that is settled is a text or a failure.
LEMMA SettledIsAnswered ==
  ASSUME AdapterInv
  PROVE  /\ http = "idle" => answered = "none"
         /\ http \in {"fetching", "reading"} => answered = "pending"
         /\ http = "settled" => answered = IF reply.kind = "text" THEN "text" ELSE "failure"
<1>1. http = "idle" => answered = "none"
  BY DEF answered
<1>2. http \in {"fetching", "reading"} => answered = "pending"
  BY DEF answered
<1>3. http = "settled" => answered = IF reply.kind = "text" THEN "text" ELSE "failure"
  <2> SUFFICES ASSUME http = "settled" PROVE answered = IF reply.kind = "text" THEN "text" ELSE "failure"
    OBVIOUS
  <2>1. CASE reply.kind = "error"
    BY <2>1 DEF answered
  <2>2. CASE reply.kind = "text" /\ reply.length > 0
    BY <2>2 DEF answered
  <2> QED  BY <2>1, <2>2 DEF AdapterInv, IsReply
<1> QED  BY <1>1, <1>2, <1>3

\* Each step of the adapter is one its caller may rely on: a call is answered once,
\* with a failure or with a text that is not empty.  (The answer's coming at all,
\* the rest of ImplementsProvider, is TLC's.)
THEOREM AdapterKeepsPromise == Spec => Promise!Init /\ [][Promise!Next]_answered
<1>1. Init => Promise!Init
  BY DEF Init, MatrixInit, StudyInit, Live!Init, Promise!Init, answered
<1>2. ASSUME AdapterInv, AdapterInv', [Next]_vars PROVE [Promise!Next]_answered
  <2>1. CASE UNCHANGED adapter
    BY <2>1 DEF adapter, answered
  <2>2. CASE \E input : Live!reason(input)
    <3>1. /\ http \in {"idle", "settled"}
          /\ http' = "fetching" \/ (http' = "settled" /\ reply'.kind = "error")
      BY <2>2 DEF Live!reason, Live!Refuse, Live!Send, Live!Answer, Live!fail
    <3>2. answered # "pending"
      BY <1>2, <3>1, SettledIsAnswered
    <3>3. answered' = "pending" \/ answered' = "failure"
      BY <3>1 DEF answered
    <3> QED  BY <3>2, <3>3 DEF Promise!Next, Promise!reason, Promise!refuse
  <2>3. CASE Live!Endpoint \/ Live!TimesOut
    <3>1. http \in {"fetching", "reading"} /\ http' \in {"reading", "settled"}
      BY <2>3 DEF Live!Endpoint, Live!TimesOut, Live!Respond, Live!RequestFails, Live!BodyFails,
         Live!ReadBody, Live!Answer
    <3>2. answered = "pending"
      BY <1>2, <3>1, SettledIsAnswered
    <3>3. answered' \in {"pending", "text", "failure"}
      <4>1. CASE http' = "reading"
        BY <4>1 DEF answered
      <4>2. CASE http' = "settled"
        <5>1. reply'.kind = "error" \/ (reply'.kind = "text" /\ reply'.length > 0)
          BY <1>2, <4>2 DEF AdapterInv, IsReply
        <5> QED  BY <4>2, <5>1 DEF answered
      <4> QED  BY <3>1, <4>1, <4>2
    <3> QED  BY <3>2, <3>3 DEF Promise!Next, Promise!settle
  <2> QED  BY <1>2, <2>1, <2>2, <2>3, AdapterMoves
<1>3. VInv => AdapterInv
  BY DEF VInv
<1> QED  BY <1>1, <1>2, <1>3, InvariantHolds, PTL DEF Spec
=============================================================================
