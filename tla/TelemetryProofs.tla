-------------------------- MODULE TelemetryProofs --------------------------
(***************************************************************************)
(* What holds of every text that the program can read: pieces follow one   *)
(* another only as lines, cuts and greetings put them, a value never       *)
(* overtakes an older one of the same sensor, and none is older than the   *)
(* one the status shows.  Then a sample is a value that its node measured, *)
(* it never goes back, and a line that ends the program was torn or comes  *)
(* from a node that is not configured.                                     *)
(***************************************************************************)
EXTENDS Telemetry, SequenceTheorems, WellFoundedInduction, TLAPS

Piece == (Tags \cup Range(Sends)) \X (Node \cup Nat)
Torn  == <<"end", 1>>

\* Which piece b may come after piece a when the nodes are in the rounds r.
Follows(a, b, r) ==
    \/ /\ a[1] = "id" /\ a[2] \in Node
       /\ \/ b[1] \in Range(Sends) /\ b[2] \in (1 .. r[a[2]]) \cup {Cut}
          \/ b = Torn
    \/ /\ a[1] \in Range(Sends) /\ a[2] # Cut
       /\ b[1] \in {"SS", "space", "cut SS"} \/ b = Torn
    \/ a[1] \in Range(Sends) /\ a[2] = Cut /\ b = Torn
    \/ a[1] = "other" /\ (b[1] \in {"SS", "space", "cut SS"} \/ b = Torn)
    \/ a[1] = "SS" /\ b[1] = "end"
    \/ a[1] \in {"space", "cut SS", "cut id"} /\ b = Torn
    \/ /\ a[1] = "end"
       /\ (b[1] = "id" /\ b[2] \in Node) \/ b[1] \in {"other", "cut id"} \/ b = Torn

\* A sensor's whole value stands after the number at i.
Value(S, i) == S[i][1] = "id" /\ S[i + 1][1] \in Sensors /\ S[i + 1][2] # Cut

\* A text ends with the end of a line.
Chained(S, r) ==
    /\ \A i \in 1 .. Len(S) - 1 : Follows(S[i], S[i + 1], r)
    /\ Len(S) > 0 => S[Len(S)][1] = "end"

\* The values of one sensor come in the order of the rounds.
Ordered(S) ==
    \A i, j \in 1 .. Len(S) - 1 :
        /\ i < j /\ Value(S, i) /\ Value(S, j)
        /\ S[i][2] = S[j][2] /\ S[i + 1][1] = S[j + 1][1]
        => S[i + 1][2] <= S[j + 1][2]

\* None is older than the sample that it would replace.
NoneOlder(S, x) ==
    \A i \in 1 .. Len(S) - 1 :
        Value(S, i) => x[S[i][2]][S[i + 1][1]] <= S[i + 1][2]

TextOK(S, r, x) == Chained(S, r) /\ Ordered(S) /\ NoneOlder(S, x)

\* The part of a line that the program has read, and all that comes after it.
Text == read_buf_str_ \o wire

TypeInv ==
    /\ round \in [Node -> 0 .. MaxRound]
    /\ at \in [Node -> 0 .. Len(Sends)]
    /\ wire \in Seq(Piece) /\ read_buf_str_ \in Seq(Piece)
    /\ up \in BOOLEAN
    /\ sample_ \in [Node -> [Sensors -> 0 .. MaxRound]]

TelemetryInv ==
    /\ TypeInv
    /\ \A n \in Node : at[n] > 0 => round[n] > 0
    /\ ~up => read_buf_str_ = << >>
    /\ \A i \in 1 .. Len(read_buf_str_) : read_buf_str_[i][1] # "end"
    /\ SamplesSent
    /\ TextOK(Text, round, sample_)
-----------------------------------------------------------------------------
\* The index that SelectInSeq finds is one that passes its test.
LEMMA SmallestIndex ==
    ASSUME NEW I \in SUBSET Nat, I # {}
    PROVE  Min(I) \in I
<1> DEFINE R == {ss \in Nat \X Nat : ss[1] < ss[2]}
<1>1. PICK x \in I : \A y \in I : ~(<<y, x>> \in R)
  <2>1. IsWellFoundedOn(R, Nat)
    BY NatLessThanWellFounded DEF OpToRel
  <2> HIDE DEF R
  <2>2. QED
    BY <2>1, WFMin
<1>2. ASSUME NEW y \in I PROVE x <= y
  <2>1. x \in Nat /\ y \in Nat /\ ~(y < x)
    BY <1>1
  <2>2. QED
    BY <2>1
<1>3. QED
  BY <1>2 DEF Min

-----------------------------------------------------------------------------
\* The end of a line shows, of the values it changes, one that stands in the text
\* after its node's number and that the node measured.
LEMMA HandledLine ==
    ASSUME TelemetryInv, wire # << >>,
           NEW y, y = UpdateSensors(read_buf_str_, sample_)
    PROVE  /\ y \in [Node -> [Sensors -> 0 .. MaxRound]]
           /\ \A n \in Node, s \in Sensors :
                  \/ y[n][s] = sample_[n][s]
                  \/ \E i \in 1 .. Len(read_buf_str_) - 1 :
                         /\ Value(Text, i) /\ Text[i][2] = n /\ Text[i + 1][1] = s
                         /\ y[n][s] = Text[i + 1][2] /\ y[n][s] \in 1 .. round[n]
<1> DEFINE D == read_buf_str_
           I == {i \in 1 .. Len(D) : D[i][1] = "id"}
           id == SelectInSeq(D, LAMBDA piece : piece[1] = "id")
           rest == SubSeq(D, id + 1, Len(D))
<1>1. D \in Seq(Piece) /\ Len(D) \in Nat /\ Len(wire) \in Nat /\ Len(wire) > 0
  BY EmptySeq, LenProperties DEF TelemetryInv, TypeInv
<1>2. id = 0 \/ (id \in 1 .. Len(D) /\ D[id][1] = "id")
  <2>1. id = IF I # {} THEN Min(I) ELSE 0
    BY DEF SelectInSeq
  <2> HIDE DEF id
  <2>2. I # {} => Min(I) \in I
    <3>1. I \in SUBSET Nat
      OBVIOUS
    <3> HIDE DEF I
    <3> QED
      BY <3>1, SmallestIndex
  <2> QED
    BY <2>1, <2>2
<1>3. /\ Len(Text) = Len(D) + Len(wire)
      /\ \A i \in 1 .. Len(D) : Text[i] = D[i]
      /\ \A i \in 1 .. Len(Text) - 1 : Follows(Text[i], Text[i + 1], round)
  <2>1. /\ Len(Text) = Len(D) + Len(wire)
        /\ \A i \in 1 .. Len(D) + Len(wire) :
               Text[i] = IF i <= Len(D) THEN D[i] ELSE wire[i - Len(D)]
    BY ConcatProperties DEF Text, TelemetryInv, TypeInv
  <2>2. \A i \in 1 .. Len(D) : Text[i] = D[i]
    BY <1>1, <2>1
  <2> QED
    BY <2>1, <2>2 DEF TelemetryInv, TextOK, Chained
<1>4. id # 0 => /\ Len(rest) = Len(D) - id
                /\ \A i \in 1 .. Len(D) - id : rest[i] = D[id + i]
  <2> HIDE DEF id
  <2> SUFFICES ASSUME id # 0
               PROVE  /\ Len(rest) = Len(D) - id
                      /\ \A i \in 1 .. Len(D) - id : rest[i] = D[id + i]
    OBVIOUS
  <2>1. \A i \in id + 1 .. Len(D) : D[i] \in Piece
    BY <1>1, <1>2, ElementOfSeq
  <2>2. id + 1 \in Int /\ Len(D) \in Int
    BY <1>1, <1>2
  <2>3. /\ Len(rest) = IF id + 1 <= Len(D) THEN Len(D) - (id + 1) + 1 ELSE 0
        /\ \A i \in 1 .. Len(D) - (id + 1) + 1 : rest[i] = D[(id + 1) + i - 1]
    BY <2>1, <2>2, SubSeqProperties
  <2>4. \A i \in 1 .. Len(D) - id : rest[i] = D[id + i]
    <3> SUFFICES ASSUME NEW i \in 1 .. Len(D) - id PROVE rest[i] = D[id + i]
      OBVIOUS
    <3>1. i \in 1 .. Len(D) - (id + 1) + 1 /\ (id + 1) + i - 1 = id + i
      BY <1>1, <1>2
    <3> QED
      BY <2>3, <3>1
  <2>5. Len(rest) = Len(D) - id
    BY <1>1, <1>2, <2>3
  <2> QED
    BY <2>4, <2>5
<1>5. y = IF id # 0 /\ HasValue(rest) /\ rest[1][1] \in Sensors
          THEN [sample_ EXCEPT ![D[id][2]][rest[1][1]] = rest[1][2]]
          ELSE sample_
  BY DEF UpdateSensors, NewSample
<1>6. sample_ \in [Node -> [Sensors -> 0 .. MaxRound]] /\ round \in [Node -> 0 .. MaxRound]
      /\ MaxRound \in Nat
  BY TelemetryBounds DEF TelemetryInv, TypeInv
<1> HIDE DEF id, rest, D
<1>7. CASE ~(id # 0 /\ HasValue(rest) /\ rest[1][1] \in Sensors)
  BY <1>5, <1>6, <1>7
<1>8. CASE id # 0 /\ HasValue(rest) /\ rest[1][1] \in Sensors
  <2> DEFINE n0 == Text[id][2]
             s0 == Text[id + 1][1]
             k0 == Text[id + 1][2]
  <2>1. Len(rest) >= 2 /\ rest[2][1] \in {"space", "SS", "cut SS"}
    BY <1>8 DEF HasValue
  <2>2. id \in 1 .. Len(D) - 2 /\ rest[1] = D[id + 1] /\ rest[2] = D[id + 2]
    <3>1. id \in 1 .. Len(D) /\ Len(rest) = Len(D) - id
      BY <1>2, <1>4, <1>8
    <3>2. id \in 1 .. Len(D) - 2 /\ 1 \in 1 .. Len(D) - id /\ 2 \in 1 .. Len(D) - id
      <4>1. Len(rest) >= 2
        BY <2>1
      <4>2. Len(D) - id >= 2
        BY <3>1, <4>1
      <4> QED
        BY <1>1, <3>1, <4>2
    <3> QED
      BY <1>4, <1>8, <3>2
  <2>3. /\ id + 1 \in 1 .. Len(D) /\ id + 2 \in 1 .. Len(D) /\ (id + 1) + 1 = id + 2
        /\ id \in 1 .. Len(D) /\ id \in 1 .. Len(Text) - 1 /\ id + 1 \in 1 .. Len(Text) - 1
    BY <1>1, <1>3, <2>2
  <2>4. /\ Text[id] = D[id] /\ Text[id + 1] = rest[1] /\ Text[id + 2] = rest[2]
        /\ Follows(Text[id], Text[id + 1], round)
        /\ Follows(Text[id + 1], Text[id + 2], round)
    BY <1>3, <2>2, <2>3
  <2>5. Text[id][1] = "id" /\ s0 \in Sensors /\ Text[id + 2][1] \in {"space", "SS", "cut SS"}
    BY <1>2, <1>8, <2>1, <2>4
  <2>6. /\ \A l \in Range(Sends) :
               /\ l # "id" /\ l # "other" /\ l # "SS" /\ l # "end"
            /\ l # "cut id" /\ l # "cut SS" /\ l # "space"
        /\ s0 \in Range(Sends) /\ Torn[1] = "end"
    BY <2>5, SendsAssumption DEF Tags, Torn
  <2>7. Text[id + 1] # Torn /\ Text[id + 2] # Torn /\ "id" \notin Range(Sends)
    <3>1. s0 # Torn[1]
      BY <2>6
    <3>2. Text[id + 2][1] # Torn[1]
      BY <2>5, <2>6
    <3> QED
      BY <3>1, <3>2, <2>6
  <2>8. n0 \in Node /\ k0 \in (1 .. round[n0]) \cup {Cut}
    BY <2>4, <2>5, <2>7 DEF Follows
  <2>9. k0 # Cut
    BY <2>4, <2>6, <2>7 DEF Follows
  <2>10. Value(Text, id)
    BY <2>5, <2>9 DEF Value
  <2>11. y = [sample_ EXCEPT ![n0][s0] = k0]
    BY <1>5, <1>8, <2>4
  <2>16. s0 \in Sensors
    BY <2>5
  <2> HIDE DEF n0, s0, k0
  <2>12. k0 \in 1 .. round[n0] /\ k0 \in 0 .. MaxRound
    <3>1. k0 \in 1 .. round[n0] /\ round[n0] \in 0 .. MaxRound
      BY <1>6, <2>8, <2>9
    <3> QED
      BY <1>6, <3>1
  <2>13. y \in [Node -> [Sensors -> 0 .. MaxRound]]
    BY <1>6, <2>8, <2>11, <2>12, <2>16
  <2>14. ASSUME NEW n \in Node, NEW s \in Sensors, y[n][s] # sample_[n][s]
         PROVE  n = n0 /\ s = s0 /\ y[n][s] = k0
    BY <1>6, <2>8, <2>11, <2>14, <2>16
  <2>15. id \in 1 .. Len(D) - 1
    BY <1>1, <2>2
  <2> QED
    BY <2>10, <2>12, <2>13, <2>14, <2>15 DEF n0, s0, k0, D
<1> QED
  BY <1>7, <1>8

-----------------------------------------------------------------------------
\* The invariant is inductive: every step appends a line to the text, tears it, or
\* takes pieces from its front.
LEMMA TelemetryInvariant == Spec => []TelemetryInv
\* A text that is cut and closed by the greeting of the board is a text: what is
\* left of a piece is no value.
<1>tornText. ASSUME NEW S \in Seq(Piece), NEW r, NEW x, TextOK(S, r, x),
                    NEW m \in 0 .. Len(S), NEW T \in Seq(Piece),
                    \A i \in 1 .. m : T[i] = S[i],
                    \/ Len(T) = m + 1 /\ T[m + 1] = Torn
                    \/ /\ m < Len(S) /\ Len(T) = m + 2
                       /\ T[m + 1] \in Parts(S[m + 1]) /\ T[m + 2] = Torn
             PROVE  TextOK(T, r, x)
  <2> USE <1>tornText
  <2>1. Len(S) \in Nat /\ Len(T) \in Nat /\ m \in Nat /\ T[Len(T)] = Torn /\ Len(T) > m
    BY LenProperties
  <2>2. /\ Sensors \subseteq Range(Sends)
        /\ \A l \in Range(Sends) :
            /\ l # "id" /\ l # "other" /\ l # "SS" /\ l # "end"
            /\ l # "cut id" /\ l # "cut SS" /\ l # "space"
    BY SendsAssumption DEF Tags
  <2>3. \A i \in 1 .. Len(S) - 1 : Follows(S[i], S[i + 1], r)
    BY DEF TextOK, Chained
  \* What may be left of a piece.
  <2>4. ASSUME NEW a, NEW b \in Parts(a)
        PROVE  \/ a[1] \in {"id", "other"} /\ b = <<"cut id", 0>>
               \/ a[1] = "SS" /\ (b = <<"space", 0>> \/ b = <<"cut SS", 0>>)
               \/ a[1] \in Range(Sends) /\ b = <<a[1], Cut>>
    <3>1. CASE a[1] \in {"id", "other"}
      BY <3>1, <2>2, Zenon DEF Parts
    <3>2. CASE a[1] = "SS"
      BY <3>2, <2>2, Zenon DEF Parts
    <3>3. CASE a[1] \in Range(Sends)
      BY <3>3, <2>2, Zenon DEF Parts
    <3>4. CASE a[1] \notin {"id", "other"} /\ a[1] # "SS" /\ a[1] \notin Range(Sends)
      BY <3>4, Zenon DEF Parts
    <3> QED
      BY <3>1, <3>2, <3>3, <3>4, Zenon
  <2>11. Torn[1] = "end" /\ "end" \notin Sensors
    BY <2>2 DEF Torn
  \* The end of a torn line may follow every piece.
  <2>5. ASSUME NEW a, NEW b, Follows(a, b, r) PROVE Follows(a, Torn, r)
    BY <2>5, <2>11 DEF Follows
  <2>6. ASSUME NEW a, a[1] = "end" PROVE Follows(a, Torn, r)
    BY <2>6 DEF Follows
  \* Of the piece after the m-th a part may be left.
  <2>7. ASSUME NEW a, NEW b, NEW c \in Parts(b), Follows(a, b, r)
        PROVE  Follows(a, c, r) /\ Follows(c, Torn, r)
    <3>1. CASE b[1] \in {"id", "other"} /\ c = <<"cut id", 0>>
      <4>1. c[1] = "cut id"
        BY <3>1
      <4>2. b # Torn /\ b[1] \notin Range(Sends)
        BY <3>1, <2>2, <2>11
      <4> QED
        BY <2>7, <3>1, <4>1, <4>2 DEF Follows
    <3>2. CASE b[1] = "SS" /\ (c = <<"space", 0>> \/ c = <<"cut SS", 0>>)
      <4>1. c[1] \in {"space", "cut SS"}
        <5>1. CASE c = <<"space", 0>>
          BY <5>1
        <5>2. CASE c = <<"cut SS", 0>>
          BY <5>2
        <5> QED
          BY <5>1, <5>2, <3>2
      <4>2. b # Torn /\ b[1] \notin Range(Sends)
        BY <3>2, <2>2, <2>11
      <4> QED
        BY <2>7, <3>2, <4>1, <4>2 DEF Follows
    <3>3. CASE b[1] \in Range(Sends) /\ c = <<b[1], Cut>>
      <4>1. c[1] = b[1] /\ c[2] = Cut
        BY <3>3
      <4>2. b # Torn
            /\ b[1] \notin {"SS", "space", "cut SS", "end", "id", "other", "cut id"}
        BY <3>3, <2>2, <2>11
      <4> QED
        BY <2>7, <3>3, <4>1, <4>2 DEF Follows
    <3> QED
      BY <3>1, <3>2, <3>3, <2>4
  <2>8. ASSUME Len(T) = m + 2
        PROVE  m < Len(S) /\ T[m + 1] \in Parts(S[m + 1]) /\ T[m + 2] = Torn
    BY <2>8, <2>1
  <2>9. ASSUME NEW i \in 1 .. Len(T) - 1
        PROVE  \/ /\ i \in 1 .. m - 1 /\ i \in 1 .. Len(S) - 1
                  /\ T[i] = S[i] /\ T[i + 1] = S[i + 1]
               \/ i = m /\ T[i] = S[m] /\ Len(T) = m + 1 /\ T[i + 1] = Torn
               \/ i = m /\ T[i] = S[m] /\ Len(T) = m + 2 /\ T[i + 1] = T[m + 1]
               \/ i = m + 1 /\ Len(T) = m + 2 /\ T[i] = T[m + 1] /\ T[i + 1] = Torn
    <3>1. CASE i < m
      <4>1. i \in 1 .. m - 1 /\ i \in 1 .. m /\ i + 1 \in 1 .. m
        BY <2>1, <3>1
      <4> QED
        BY <2>1, <4>1
    <3>2. CASE i = m
      BY <3>2, <2>1
    <3>3. CASE i > m
      <4>1. Len(T) = m + 2 /\ i = m + 1 /\ i + 1 = m + 2
        BY <2>1, <3>3
      <4> QED
        BY <4>1, <2>8
    <3> QED
      BY <3>1, <3>2, <3>3, <2>1
  \* A piece that is torn, and the greeting, are no values.
  <2>10. ASSUME NEW a, NEW b \in Parts(a)
         PROVE  b[1] # "id" /\ (b[1] \notin Sensors \/ b[2] = Cut)
    <3>1. CASE a[1] \in {"id", "other"} /\ b = <<"cut id", 0>>
      <4>1. b[1] = "cut id"
        BY <3>1
      <4> QED
        BY <4>1, <2>2
    <3>2. CASE a[1] = "SS" /\ (b = <<"space", 0>> \/ b = <<"cut SS", 0>>)
      <4>1. b[1] \in {"space", "cut SS"}
        <5>1. CASE b = <<"space", 0>>
          BY <5>1
        <5>2. CASE b = <<"cut SS", 0>>
          BY <5>2
        <5> QED
          BY <5>1, <5>2, <3>2
      <4> QED
        BY <4>1, <2>2
    <3>3. CASE a[1] \in Range(Sends) /\ b = <<a[1], Cut>>
      BY <3>3, <2>2
    <3> QED
      BY <3>1, <3>2, <3>3, <2>4
  <2>12. Chained(T, r)
    <3>1. ASSUME m \in 1 .. Len(S) PROVE Follows(S[m], Torn, r)
      <4>1. CASE m = Len(S)
        BY <4>1, <3>1, <2>1, <2>6 DEF TextOK, Chained
      <4>2. CASE m # Len(S)
        <5>1. m \in 1 .. Len(S) - 1
          BY <4>2, <3>1, <2>1
        <5> QED
          BY <5>1, <2>3, <2>5
      <4> QED
        BY <4>1, <4>2
    <3>2. ASSUME Len(T) = m + 2, m > 0 PROVE Follows(S[m], T[m + 1], r)
      <4>1. m \in 1 .. Len(S) - 1
        BY <2>1, <2>8, <3>2
      <4>2. Follows(S[m], S[m + 1], r)
        BY <2>3, <4>1
      <4> QED
        BY <4>2, <2>7, <2>8, <3>2
    <3>3. ASSUME Len(T) = m + 2 PROVE Follows(T[m + 1], Torn, r)
      <4>1. T[m + 1] \in Parts(S[m + 1])
        BY <2>8, <3>3
      <4> DEFINE a == S[m + 1]
                 c == T[m + 1]
      <4>2. \/ c[1] \in {"cut id", "space", "cut SS"}
            \/ c[1] \in Range(Sends) /\ c[2] = Cut
        <5> HIDE DEF a, c
        <5> SUFFICES ASSUME c \in Parts(a)
                     PROVE  \/ c[1] \in {"cut id", "space", "cut SS"}
                            \/ c[1] \in Range(Sends) /\ c[2] = Cut
          BY <4>1 DEF a, c
        <5>1. CASE c = <<"cut id", 0>>
          BY <5>1
        <5>2. CASE c = <<"space", 0>>
          BY <5>2
        <5>3. CASE c = <<"cut SS", 0>>
          BY <5>3
        <5>4. CASE a[1] \in Range(Sends) /\ c = <<a[1], Cut>>
          BY <5>4
        <5> QED
          BY <5>1, <5>2, <5>3, <5>4, <2>4
      <4> QED
        BY <4>2 DEF Follows
    <3>4. ASSUME NEW i \in 1 .. Len(T) - 1 PROVE Follows(T[i], T[i + 1], r)
      <4>1. i > 0 /\ (i = m => m \in 1 .. Len(S))
        BY <2>1
      <4> QED
        BY <4>1, <2>3, <2>9, <3>1, <3>2, <3>3
    <3>5. T[Len(T)][1] = "end"
      BY <2>1, <2>11
    <3> QED
      BY <3>4, <3>5 DEF Chained
  <2>13. ASSUME NEW i \in 1 .. Len(T) - 1, Value(T, i)
         PROVE  i \in 1 .. Len(S) - 1 /\ Value(S, i) /\ T[i] = S[i] /\ T[i + 1] = S[i + 1]
    <3>1. T[i + 1] # Torn
      BY <2>11, <2>13 DEF Value
    <3>2. ~(Len(T) = m + 2 /\ T[i + 1] = T[m + 1])
      BY <2>8, <2>10, <2>13 DEF Value
    <3>3. i \in 1 .. Len(S) - 1 /\ T[i] = S[i] /\ T[i + 1] = S[i + 1]
      BY <2>9, <3>1, <3>2
    <3> QED
      BY <3>3, <2>13 DEF Value
  <2>14. Ordered(T)
    <3> SUFFICES ASSUME NEW i \in 1 .. Len(T) - 1, NEW j \in 1 .. Len(T) - 1,
                        i < j, Value(T, i), Value(T, j),
                        T[i][2] = T[j][2], T[i + 1][1] = T[j + 1][1]
                 PROVE  T[i + 1][2] <= T[j + 1][2]
      BY DEF Ordered
    <3> QED
      BY <2>13 DEF TextOK, Ordered
  <2>15. NoneOlder(T, x)
    BY <2>13 DEF TextOK, NoneOlder
  <2> QED
    BY <2>12, <2>14, <2>15 DEF TextOK
\* A text with the next line is a text: the line's value is of this round, so
\* none before it is newer.
<1>nextLine. ASSUME NEW S \in Seq(Piece), NEW r \in [Node -> 0 .. MaxRound],
                    NEW x \in [Node -> [Sensors -> 0 .. MaxRound]], TextOK(S, r, x),
                    NEW n \in Node, NEW label \in Range(Sends), r[n] > 0,
                    \A s \in Sensors : x[n][s] <= r[n]
             PROVE  TextOK(S \o Line(n, label, r[n]), r, x)
  <2> USE <1>nextLine
  <2> DEFINE L == Line(n, label, r[n])
             T == S \o L
             m == Len(S)
  <2>1. label \notin Tags /\ MaxRound \in Nat /\ r[n] \in 1 .. MaxRound
        /\ Cut \notin 1 .. MaxRound
    BY SendsAssumption, TelemetryBounds, RangeOfSeq DEF Cut
  <2>0. /\ Sensors \subseteq Range(Sends)
        /\ \A l \in Range(Sends) :
            /\ l # "id" /\ l # "other" /\ l # "SS" /\ l # "end"
            /\ l # "cut id" /\ l # "cut SS" /\ l # "space"
    BY SendsAssumption DEF Tags
  <2>2. L \in Seq(Piece) /\ Len(L) = 4
        /\ L[1] = <<"id", n>> /\ L[2] = <<label, r[n]>> /\ L[3] = <<"SS", 0>> /\ L[4] = <<"end", 0>>
    <3>1. <<"id", n>> \in Piece /\ <<label, r[n]>> \in Piece /\ <<"SS", 0>> \in Piece /\ <<"end", 0>> \in Piece
      <4>1. <<"id", n>> \in Piece
        <5>1. "id" \in Tags
          BY DEF Tags
        <5> QED
          BY <5>1, Zenon DEF Piece
      <4>2. <<label, r[n]>> \in Piece
        <5>1. r[n] \in Nat
          BY <2>1
        <5> QED
          BY <2>1, <5>1, Zenon DEF Piece
      <4>3. <<"SS", 0>> \in Piece /\ <<"end", 0>> \in Piece
        <5>1. 0 \in Nat /\ "SS" \in Tags /\ "end" \in Tags
          BY DEF Tags
        <5> QED
          BY <5>1, Zenon DEF Piece
      <4> QED
        BY <4>1, <4>2, <4>3
    <3> QED
      BY <3>1 DEF Line
  <2>3. m \in Nat /\ T \in Seq(Piece) /\ Len(T) = m + 4
        /\ (\A i \in 1 .. m : T[i] = S[i])
        /\ T[m + 1] = <<"id", n>> /\ T[m + 2] = <<label, r[n]>>
        /\ T[m + 3] = <<"SS", 0>> /\ T[m + 4] = <<"end", 0>>
    <3> HIDE DEF L
    <3>1. m \in Nat
      BY LenProperties
    <3>2. /\ T \in Seq(Piece) /\ Len(T) = m + Len(L)
          /\ \A i \in 1 .. m + Len(L) : T[i] = IF i <= m THEN S[i] ELSE L[i - m]
      BY <2>2, ConcatProperties
    <3> HIDE DEF T, m
    <3>3. \A i \in 1 .. 4 : m + i \in 1 .. m + 4 /\ ~(m + i <= m) /\ (m + i) - m = i
      BY <3>1
    <3>4. \A i \in 1 .. 4 : T[m + i] = L[i]
      BY <2>2, <3>2, <3>3
    <3>5. \A i \in 1 .. m : T[i] = S[i]
      BY <2>2, <3>1, <3>2
    <3> QED
      BY <2>2, <3>1, <3>2, <3>4, <3>5
  <2> HIDE DEF L, T, m
  <2>4. ASSUME NEW i \in 1 .. Len(T) - 1
        PROVE  \/ /\ i \in 1 .. m - 1 /\ i \in 1 .. Len(S) - 1
                  /\ T[i] = S[i] /\ T[i + 1] = S[i + 1]
               \/ i = m /\ T[i] = S[m] /\ T[i + 1] = <<"id", n>>
               \/ i = m + 1 /\ T[i] = <<"id", n>> /\ T[i + 1] = <<label, r[n]>>
               \/ i = m + 2 /\ T[i] = <<label, r[n]>> /\ T[i + 1] = <<"SS", 0>>
               \/ i = m + 3 /\ T[i] = <<"SS", 0>> /\ T[i + 1] = <<"end", 0>>
    <3>1. CASE i < m
      <4>1. i \in 1 .. m - 1 /\ i \in 1 .. m /\ i + 1 \in 1 .. m
        BY <2>3, <3>1
      <4> QED
        BY <2>3, <4>1 DEF m
    <3>2. CASE i = m
      BY <3>2, <2>3
    <3>3. CASE i = m + 1
      <4>1. i + 1 = m + 2
        BY <2>3, <3>3
      <4> QED
        BY <3>3, <4>1, <2>3
    <3>4. CASE i = m + 2
      <4>1. i + 1 = m + 3
        BY <2>3, <3>4
      <4> QED
        BY <3>4, <4>1, <2>3
    <3>5. CASE i = m + 3
      <4>1. i + 1 = m + 4
        BY <2>3, <3>5
      <4> QED
        BY <3>5, <4>1, <2>3
    <3> QED
      BY <3>1, <3>2, <3>3, <3>4, <3>5, <2>3
  <2>5. m > 0 => S[m][1] = "end"
    BY DEF TextOK, Chained, m
  <2>6. Chained(T, r)
    <3>1. \A i \in 1 .. Len(S) - 1 : Follows(S[i], S[i + 1], r)
      BY DEF TextOK, Chained
    <3>2. /\ Follows(<<"id", n>>, <<label, r[n]>>, r)
          /\ Follows(<<label, r[n]>>, <<"SS", 0>>, r)
          /\ Follows(<<"SS", 0>>, <<"end", 0>>, r)
      <4>1. Follows(<<"id", n>>, <<label, r[n]>>, r)
        <5>1. r[n] \in (1 .. r[n]) \cup {Cut}
          BY <2>1
        <5> DEFINE a == <<"id", n>>
                   b == <<label, r[n]>>
        <5>2. a[1] = "id" /\ a[2] = n /\ b[1] = label /\ b[2] = r[n]
          OBVIOUS
        <5> HIDE DEF a, b
        <5>3. Follows(a, b, r)
          BY <5>1, <5>2 DEF Follows
        <5> QED
          BY <5>3 DEF a, b
      <4>2. Follows(<<label, r[n]>>, <<"SS", 0>>, r)
        BY <2>1 DEF Follows
      <4>3. Follows(<<"SS", 0>>, <<"end", 0>>, r)
        BY DEF Follows
      <4> QED
        BY <4>1, <4>2, <4>3
    <3>3. ASSUME m > 0 PROVE Follows(S[m], <<"id", n>>, r)
      BY <2>5, <3>3 DEF Follows
    <3>4. ASSUME NEW i \in 1 .. Len(T) - 1 PROVE Follows(T[i], T[i + 1], r)
      <4>1. CASE i \in 1 .. m - 1 /\ i \in 1 .. Len(S) - 1
                  /\ T[i] = S[i] /\ T[i + 1] = S[i + 1]
        BY <4>1, <3>1
      <4>2. CASE i = m /\ T[i] = S[m] /\ T[i + 1] = <<"id", n>>
        <5>1. m > 0
          BY <4>2, <2>3
        <5> QED
          BY <4>2, <5>1, <3>3
      <4>3. CASE \/ T[i] = <<"id", n>> /\ T[i + 1] = <<label, r[n]>>
                 \/ T[i] = <<label, r[n]>> /\ T[i + 1] = <<"SS", 0>>
                 \/ T[i] = <<"SS", 0>> /\ T[i + 1] = <<"end", 0>>
        BY <4>3, <3>2
      <4> QED
        BY <4>1, <4>2, <4>3, <2>4
    <3>5. T[Len(T)][1] = "end"
      BY <2>3
    <3> QED
      BY <3>4, <3>5 DEF Chained
  \* The values of T are those of S and, at m + 1, the line's.
  <2>7. ASSUME NEW i \in 1 .. Len(T) - 1, Value(T, i)
        PROVE  \/ /\ i \in 1 .. Len(S) - 1 /\ Value(S, i)
                  /\ T[i] = S[i] /\ T[i + 1] = S[i + 1]
               \/ i = m + 1 /\ T[i] = <<"id", n>> /\ T[i + 1] = <<label, r[n]>>
    <3>1. T[i][1] = "id" /\ label # "id"
      BY <2>7, <2>1 DEF Value, Tags
    <3>2. i = m => T[i][1] = "end"
      BY <2>3, <2>4, <2>5
    <3>3. i # m /\ i # m + 2 /\ i # m + 3
      BY <2>3, <2>4, <3>1, <3>2
    <3> QED
      BY <2>3, <2>4, <2>7, <3>3 DEF Value
  \* A value of n is of a round up to this one.
  <2>8. ASSUME NEW i \in 1 .. Len(S) - 1, Value(S, i), S[i][2] = n
        PROVE  S[i + 1][2] <= r[n]
    <3>1. Follows(S[i], S[i + 1], r)
      BY DEF TextOK, Chained
    <3>2. S[i + 1][1] \in Range(Sends) /\ S[i + 1] # Torn /\ S[i + 1][2] # Cut
      <4>1. S[i + 1][1] \in Range(Sends) /\ S[i + 1][2] # Cut
        BY <2>8, <2>0 DEF Value
      <4>2. Torn[1] = "end"
        BY DEF Torn
      <4> QED
        BY <4>1, <4>2, <2>0
    <3>3. S[i][1] = "id" /\ S[i][2] = n /\ "id" \notin Range(Sends)
      <4>1. S[i][1] = "id" /\ S[i][2] = n
        BY <2>8 DEF Value
      <4>2. "id" \notin Range(Sends)
        BY <2>0
      <4> QED
        BY <4>1, <4>2
    <3>4. S[i + 1][2] \in (1 .. r[n]) \cup {Cut}
      BY <3>1, <3>2, <3>3 DEF Follows
    <3> QED
      BY <3>2, <3>4, <2>1
  <2>9. Ordered(T)
    <3> SUFFICES ASSUME NEW i \in 1 .. Len(T) - 1, NEW j \in 1 .. Len(T) - 1,
                        i < j, Value(T, i), Value(T, j),
                        T[i][2] = T[j][2], T[i + 1][1] = T[j + 1][1]
                 PROVE  T[i + 1][2] <= T[j + 1][2]
      BY DEF Ordered
    <3>1. CASE j = m + 1
      <4>1. T[j] = <<"id", n>> /\ T[j + 1][2] = r[n]
        BY <3>1, <2>7, <2>3 DEF m
      <4>2. i \in 1 .. Len(S) - 1 /\ Value(S, i) /\ T[i] = S[i] /\ T[i + 1] = S[i + 1]
        BY <3>1, <2>7, <2>3
      <4>3. S[i + 1][2] <= r[n]
        BY <4>1, <4>2, <2>8
      <4> QED
        BY <4>1, <4>2, <4>3
    <3>2. CASE j # m + 1
      <4>1. j \in 1 .. Len(S) - 1 /\ Value(S, j) /\ T[j] = S[j] /\ T[j + 1] = S[j + 1]
        BY <3>2, <2>7
      <4>2. i \in 1 .. Len(S) - 1 /\ Value(S, i) /\ T[i] = S[i] /\ T[i + 1] = S[i + 1]
        BY <4>1, <2>7, <2>3 DEF m
      <4> QED
        BY <4>1, <4>2 DEF TextOK, Ordered
    <3> QED
      BY <3>1, <3>2
  <2>10. NoneOlder(T, x)
    <3> SUFFICES ASSUME NEW i \in 1 .. Len(T) - 1, Value(T, i)
                 PROVE  x[T[i][2]][T[i + 1][1]] <= T[i + 1][2]
      BY DEF NoneOlder
    <3>1. CASE i \in 1 .. Len(S) - 1 /\ Value(S, i) /\ T[i] = S[i] /\ T[i + 1] = S[i + 1]
      BY <3>1 DEF TextOK, NoneOlder
    <3>2. CASE T[i] = <<"id", n>> /\ T[i + 1] = <<label, r[n]>>
      BY <3>2 DEF Value
    <3> QED
      BY <3>1, <3>2, <2>7
  <2> QED
    BY <2>6, <2>9, <2>10 DEF TextOK, T, L
\* A text with the line of another node is a text: the line has no value.
<1>otherLine. ASSUME NEW S \in Seq(Piece), NEW r, NEW x, TextOK(S, r, x)
              PROVE  OtherLine \in Seq(Piece) /\ TextOK(S \o OtherLine, r, x)
  <2> USE <1>otherLine
  <2> DEFINE L == OtherLine
             T == S \o L
             m == Len(S)
  <2>1. "id" \notin Sensors /\ "end" \notin Sensors /\ "SS" \notin Sensors
    BY SendsAssumption DEF Tags
  <2>2. L \in Seq(Piece) /\ Len(L) = 3
        /\ L[1] = <<"other", 0>> /\ L[2] = <<"SS", 0>> /\ L[3] = <<"end", 0>>
    <3>1. <<"other", 0>> \in Piece /\ <<"SS", 0>> \in Piece /\ <<"end", 0>> \in Piece
      <4>1. 0 \in Nat /\ "SS" \in Tags /\ "end" \in Tags /\ "other" \in Tags
        BY DEF Tags
      <4> QED
        BY <4>1, Zenon DEF Piece
    <3> QED
      BY <3>1 DEF OtherLine
  <2>3. m \in Nat /\ T \in Seq(Piece) /\ Len(T) = m + 3
        /\ (\A i \in 1 .. m : T[i] = S[i])
        /\ T[m + 1] = <<"other", 0>> /\ T[m + 2] = <<"SS", 0>> /\ T[m + 3] = <<"end", 0>>
    <3> HIDE DEF L
    <3>1. m \in Nat
      BY LenProperties
    <3>2. /\ T \in Seq(Piece) /\ Len(T) = m + Len(L)
          /\ \A i \in 1 .. m + Len(L) : T[i] = IF i <= m THEN S[i] ELSE L[i - m]
      BY <2>2, ConcatProperties
    <3> HIDE DEF T, m
    <3>3. \A i \in 1 .. 3 : m + i \in 1 .. m + 3 /\ ~(m + i <= m) /\ (m + i) - m = i
      BY <3>1
    <3>4. \A i \in 1 .. 3 : T[m + i] = L[i]
      BY <2>2, <3>2, <3>3
    <3>5. \A i \in 1 .. m : T[i] = S[i]
      BY <2>2, <3>1, <3>2
    <3> QED
      BY <2>2, <3>1, <3>2, <3>4, <3>5
  <2> HIDE DEF L, T, m
  <2>4. ASSUME NEW i \in 1 .. Len(T) - 1
        PROVE  \/ /\ i \in 1 .. m - 1 /\ i \in 1 .. Len(S) - 1
                  /\ T[i] = S[i] /\ T[i + 1] = S[i + 1]
               \/ i = m /\ m > 0 /\ T[i] = S[m] /\ T[i + 1] = <<"other", 0>>
               \/ i = m + 1 /\ T[i] = <<"other", 0>> /\ T[i + 1] = <<"SS", 0>>
               \/ i = m + 2 /\ T[i] = <<"SS", 0>> /\ T[i + 1] = <<"end", 0>>
    <3>1. CASE i < m
      <4>1. i \in 1 .. m - 1 /\ i \in 1 .. m /\ i + 1 \in 1 .. m
        BY <2>3, <3>1
      <4> QED
        BY <2>3, <4>1 DEF m
    <3>2. CASE i = m
      BY <3>2, <2>3
    <3>3. CASE i = m + 1
      <4>1. i + 1 = m + 2
        BY <2>3, <3>3
      <4> QED
        BY <3>3, <4>1, <2>3
    <3>4. CASE i = m + 2
      <4>1. i + 1 = m + 3
        BY <2>3, <3>4
      <4> QED
        BY <3>4, <4>1, <2>3
    <3> QED
      BY <3>1, <3>2, <3>3, <3>4, <2>3
  <2>5. m > 0 => S[m][1] = "end"
    BY DEF TextOK, Chained, m
  <2>6. Chained(T, r)
    <3>1. \A i \in 1 .. Len(S) - 1 : Follows(S[i], S[i + 1], r)
      BY DEF TextOK, Chained
    <3>2. /\ Follows(<<"other", 0>>, <<"SS", 0>>, r) /\ Follows(<<"SS", 0>>, <<"end", 0>>, r)
      BY DEF Follows
    <3>3. ASSUME m > 0 PROVE Follows(S[m], <<"other", 0>>, r)
      BY <2>5, <3>3 DEF Follows
    <3>4. ASSUME NEW i \in 1 .. Len(T) - 1 PROVE Follows(T[i], T[i + 1], r)
      BY <2>4, <3>1, <3>2, <3>3
    <3>5. T[Len(T)][1] = "end"
      BY <2>3
    <3> QED
      BY <3>4, <3>5 DEF Chained
  <2>7. ASSUME NEW i \in 1 .. Len(T) - 1, Value(T, i)
        PROVE  i \in 1 .. Len(S) - 1 /\ Value(S, i) /\ T[i] = S[i] /\ T[i + 1] = S[i + 1]
    <3>1. T[i][1] = "id" /\ T[i + 1][1] \in Sensors
      BY <2>7 DEF Value
    <3>2. i # m
      BY <2>4, <2>5, <3>1
    <3>3. i # m + 1 /\ i # m + 2
      <4>1. T[m + 1][1] = "other" /\ T[m + 2][1] = "SS"
        BY <2>3
      <4> QED
        BY <3>1, <4>1
    <3>4. i \in 1 .. Len(S) - 1 /\ T[i] = S[i] /\ T[i + 1] = S[i + 1]
      BY <2>4, <3>2, <3>3
    <3> QED
      BY <2>7, <3>4 DEF Value
  <2>8. Ordered(T)
    <3> SUFFICES ASSUME NEW i \in 1 .. Len(T) - 1, NEW j \in 1 .. Len(T) - 1,
                        i < j, Value(T, i), Value(T, j),
                        T[i][2] = T[j][2], T[i + 1][1] = T[j + 1][1]
                 PROVE  T[i + 1][2] <= T[j + 1][2]
      BY DEF Ordered
    <3> QED
      BY <2>7 DEF TextOK, Ordered
  <2>9. NoneOlder(T, x)
    BY <2>7 DEF TextOK, NoneOlder
  <2> QED
    BY <2>2, <2>6, <2>8, <2>9 DEF TextOK, T, L
\* What follows in a text is a text again: pieces are read from its front.
<1>rest. ASSUME NEW S \in Seq(Piece), NEW r, NEW x, TextOK(S, r, x),
                NEW T \in Seq(Piece), Len(T) <= Len(S),
                \A i \in 1 .. Len(T) : T[i] = S[i + (Len(S) - Len(T))]
         PROVE  TextOK(T, r, x)
  <2> USE <1>rest
  <2> DEFINE d == Len(S) - Len(T)
  <2>1. /\ Len(S) \in Nat /\ Len(T) \in Nat /\ d \in Nat
        /\ \A i \in 1 .. Len(T) : i + d \in 1 .. Len(S) /\ T[i] = S[i + d]
    BY LenProperties
  <2>2. \A i \in 1 .. Len(T) - 1 :
            /\ i + d \in 1 .. Len(S) - 1 /\ T[i] = S[i + d] /\ T[i + 1] = S[(i + d) + 1]
            /\ Value(T, i) <=> Value(S, i + d)
    <3> TAKE i \in 1 .. Len(T) - 1
    <3>1. i + d \in 1 .. Len(S) - 1 /\ T[i] = S[i + d] /\ T[i + 1] = S[(i + 1) + d]
      BY <2>1
    <3>2. (i + 1) + d = (i + d) + 1
      BY <2>1
    <3> QED
      BY <3>1, <3>2 DEF Value
  <2>3. Len(T) > 0 => T[Len(T)] = S[Len(S)] /\ Len(S) > 0
    BY <2>1
  <2> HIDE DEF d
  <2>4. Chained(T, r)
    BY <2>2, <2>3 DEF Chained, TextOK
  <2>5. Ordered(T)
    <3> SUFFICES ASSUME NEW i \in 1 .. Len(T) - 1, NEW j \in 1 .. Len(T) - 1,
                        i < j, Value(T, i), Value(T, j),
                        T[i][2] = T[j][2], T[i + 1][1] = T[j + 1][1]
                 PROVE  T[i + 1][2] <= T[j + 1][2]
      BY DEF Ordered
    <3>1. i + d < j + d
      BY <2>1
    <3> QED
      BY <3>1, <2>2 DEF Ordered, TextOK
  <2>6. NoneOlder(T, x)
    BY <2>2 DEF NoneOlder, TextOK
  <2> QED
    BY <2>4, <2>5, <2>6 DEF TextOK
<1>1. Init => TelemetryInv
  <2> SUFFICES ASSUME Init PROVE TelemetryInv
    OBVIOUS
  <2>1. TypeInv
    <3>1. MaxRound \in Nat /\ Len(Sends) \in Nat /\ << >> \in Seq(Piece)
      BY TelemetryBounds, SendsAssumption, LenProperties, EmptySeq
    <3>2. 0 \in 0 .. MaxRound /\ 0 \in 0 .. Len(Sends)
      BY <3>1
    <3>3. [s \in Sensors |-> 0] \in [Sensors -> 0 .. MaxRound]
      BY <3>2
    <3>4. sample_ \in [Node -> [Sensors -> 0 .. MaxRound]]
      BY <3>3 DEF Init, NoSamples, Nothing
    <3> QED
      BY <3>1, <3>2, <3>4 DEF Init, TypeInv
  <2>2. Text \in Seq(Piece) /\ Len(Text) = 0 /\ Len(read_buf_str_) = 0
    BY EmptySeq, ConcatProperties DEF Init, Text
  <2>3. TextOK(Text, round, sample_)
    BY <2>2 DEF TextOK, Chained, Ordered, NoneOlder
  <2> QED
    BY <2>1, <2>2, <2>3 DEF Init, TelemetryInv, SamplesSent, NoSamples
<1>2. TelemetryInv /\ [Next]_vars => TelemetryInv'
  <2> SUFFICES ASSUME TelemetryInv, [Next]_vars PROVE TelemetryInv'
    OBVIOUS
  <2> DEFINE R == read_buf_str_
  <2>1. /\ R \in Seq(Piece) /\ wire \in Seq(Piece) /\ Len(R) \in Nat /\ Len(wire) \in Nat
        /\ Text \in Seq(Piece) /\ Len(Text) = Len(R) + Len(wire)
        /\ \A i \in 1 .. Len(R) + Len(wire) :
               Text[i] = IF i <= Len(R) THEN R[i] ELSE wire[i - Len(R)]
    BY LenProperties, ConcatProperties DEF TelemetryInv, TypeInv, Text
  <2>2. /\ round \in [Node -> 0 .. MaxRound] /\ at \in [Node -> 0 .. Len(Sends)]
        /\ up \in BOOLEAN /\ sample_ \in [Node -> [Sensors -> 0 .. MaxRound]]
        /\ MaxRound \in Nat /\ Len(Sends) \in Nat
        /\ \A n \in Node : at[n] > 0 => round[n] > 0
        /\ SamplesSent /\ TextOK(Text, round, sample_)
        /\ (~up => R = << >>) /\ \A i \in 1 .. Len(R) : R[i][1] # "end"
    BY TelemetryBounds, SendsAssumption, LenProperties DEF TelemetryInv, TypeInv
  \* A node's step but for what it sends.
  <2>3. ASSUME NEW n \in Node, NEW steps \in {1, 2}, at[n] > 0, Proceed(n, steps)
        PROVE  /\ at' \in [Node -> 0 .. Len(Sends)]
               /\ \A k \in Node : at'[k] > 0 => round[k] > 0
    <3>1. at' = [at EXCEPT ![n] = IF at[n] + steps > Len(Sends) THEN 0 ELSE at[n] + steps]
      BY <2>3 DEF Proceed
    <3>2. (IF at[n] + steps > Len(Sends) THEN 0 ELSE at[n] + steps) \in 0 .. Len(Sends)
      BY <2>2
    <3> QED
      BY <3>1, <3>2, <2>2, <2>3
  <2>4. ASSUME NEW n \in Node, at[n] > 0, NoAck(n)
        PROVE  /\ at' \in [Node -> 0 .. Len(Sends)]
               /\ \A k \in Node : at'[k] > 0 => round[k] > 0
    <3>1. CASE at' = at
      BY <3>1, <2>2
    <3>2. CASE Proceed(n, 1)
      BY <3>2, <2>3, <2>4
    <3> QED
      BY <3>1, <3>2, <2>4 DEF NoAck
  \* A step of a node that sends nothing.
  <2>5. ASSUME UNCHANGED <<round, wire, program>>,
               at' \in [Node -> 0 .. Len(Sends)],
               \A k \in Node : at'[k] > 0 => round[k] > 0
        PROVE  TelemetryInv'
    <3>1. Text' = Text
      BY <2>5 DEF program, Text
    <3> QED
      BY <2>1, <2>2, <2>5, <3>1 DEF TelemetryInv, TypeInv, SamplesSent, program
  \* A step after which the text is what followed in it.
  <2>6. ASSUME NEW T \in Seq(Piece), Len(T) <= Len(Text),
               \A i \in 1 .. Len(T) : T[i] = Text[i + (Len(Text) - Len(T))]
        PROVE  TextOK(T, round, sample_)
    BY <2>1, <2>2, <2>6, <1>rest
  <2>7. wire # << >> => Tail(wire) \in Seq(Piece) /\ Len(Tail(wire)) = Len(wire) - 1
                        /\ \A i \in 1 .. Len(wire) - 1 : Tail(wire)[i] = wire[i + 1]
    BY <2>1, HeadTailProperties
  <2>8. ASSUME wire # << >>
        PROVE  /\ << >> \o Tail(wire) = Tail(wire)
               /\ Len(Tail(wire)) <= Len(Text)
               /\ \A i \in 1 .. Len(Tail(wire)) :
                      Tail(wire)[i] = Text[i + (Len(Text) - Len(Tail(wire)))]
    <3>1. << >> \o Tail(wire) = Tail(wire)
      BY <2>7, <2>8, ConcatEmptySeq
    <3>2. ASSUME NEW i \in 1 .. Len(Tail(wire))
          PROVE  Tail(wire)[i] = Text[i + (Len(Text) - Len(Tail(wire)))]
      <4>1. /\ i \in 1 .. Len(wire) - 1
            /\ i + (Len(Text) - Len(Tail(wire))) = Len(R) + (i + 1)
            /\ Len(R) + (i + 1) \in 1 .. Len(R) + Len(wire)
            /\ ~(Len(R) + (i + 1) <= Len(R)) /\ (Len(R) + (i + 1)) - Len(R) = i + 1
        BY <2>1, <2>7, <2>8
      <4> QED
        BY <4>1, <2>1, <2>7, <2>8
    <3> QED
      BY <3>1, <3>2, <2>1, <2>7, <2>8
  <2>9. ASSUME NEW n \in Node, Wake(n) PROVE TelemetryInv'
    <3>1. /\ round' = [round EXCEPT ![n] = round[n] + 1] /\ at' = [at EXCEPT ![n] = 1]
          /\ at[n] = 0 /\ round[n] < MaxRound
          /\ wire' = wire /\ up' = up /\ read_buf_str_' = R /\ sample_' = sample_
      BY <2>9 DEF Wake, program
    <3>2. round' \in [Node -> 0 .. MaxRound] /\ \A k \in Node : round[k] <= round'[k]
      BY <3>1, <2>2
    <3>3. Text' = Text
      BY <3>1 DEF Text
    <3>4. ASSUME NEW a, NEW b, Follows(a, b, round) PROVE Follows(a, b, round')
      <4>1. ASSUME NEW k \in Node PROVE 1 .. round[k] \subseteq 1 .. round'[k]
        <5>1. round[k] \in Nat /\ round'[k] \in Nat /\ round[k] <= round'[k]
          BY <3>2, <2>2
        <5> QED
          BY <5>1
      <4> QED
        BY <3>4, <4>1 DEF Follows
    <3>5. TextOK(Text', round', sample_')
      BY <3>1, <3>3, <3>4, <2>2 DEF TextOK, Chained
    <3>6. SamplesSent'
      <4> SUFFICES ASSUME NEW k \in Node, NEW s \in Sensors
                   PROVE  sample_'[k][s] = Nothing \/ sample_'[k][s] \in 1 .. round'[k]
        BY DEF SamplesSent
      <4>1. sample_[k][s] = Nothing \/ sample_[k][s] \in 1 .. round[k]
        BY <2>2 DEF SamplesSent
      <4>2. round[k] \in Nat /\ round'[k] \in Nat /\ round[k] <= round'[k]
        BY <2>2, <3>2
      <4> QED
        BY <3>1, <4>1, <4>2
    <3>7. Len(Sends) > 0
      BY SendsAssumption, EmptySeq
    <3>8. at' \in [Node -> 0 .. Len(Sends)] /\ \A k \in Node : at'[k] > 0 => round'[k] > 0
      BY <3>1, <3>2, <3>7, <2>2
    <3>9. TypeInv'
      BY <3>1, <3>2, <3>8, <2>1, <2>2 DEF TypeInv
    <3> QED
      BY <3>1, <3>5, <3>6, <3>8, <3>9, <2>2 DEF TelemetryInv
  <2>10. ASSUME NEW n \in Node, NotRead(n) PROVE TelemetryInv'
    <3>1. PICK steps \in {1, 2} : Proceed(n, steps)
      BY <2>10 DEF NotRead
    <3> QED
      BY <3>1, <2>3, <2>5, <2>10 DEF NotRead
  <2>11. ASSUME NEW n \in Node, PacketLost(n) PROVE TelemetryInv'
    BY <2>4, <2>5, <2>11 DEF PacketLost
  <2>12. ASSUME NEW n \in Node, PacketArrives(n) PROVE TelemetryInv'
    <3> DEFINE label == Sends[at[n]]
               L == Line(n, label, round[n])
    <3>1. /\ at[n] > 0 /\ wire' = wire \o L
          /\ round' = round /\ up' = up /\ read_buf_str_' = R /\ sample_' = sample_
          /\ NoAck(n) \/ Proceed(n, 1)
      BY <2>12 DEF PacketArrives, program
    <3>2. at' \in [Node -> 0 .. Len(Sends)] /\ \A k \in Node : at'[k] > 0 => round[k] > 0
      BY <3>1, <2>3, <2>4
    <3>3. label \in Range(Sends) /\ round[n] > 0
      BY <3>1, <2>2, SendsAssumption, RangeEquality
    <3>4. \A s \in Sensors : sample_[n][s] <= round[n]
      BY <2>2 DEF SamplesSent, Nothing
    <3>5. L \in Seq(Piece)
      <4>1. "id" \in Tags /\ "SS" \in Tags /\ "end" \in Tags /\ 0 \in Nat /\ round[n] \in Nat
        BY <2>2 DEF Tags
      <4>2. /\ <<"id", n>> \in Piece /\ <<label, round[n]>> \in Piece
            /\ <<"SS", 0>> \in Piece /\ <<"end", 0>> \in Piece
        BY <3>3, <4>1, Zenon DEF Piece
      <4> QED
        BY <4>2 DEF Line
    <3> HIDE DEF label, L
    <3>6. Text' = Text \o L /\ wire' \in Seq(Piece)
      BY <2>1, <3>1, <3>5, ConcatAssociative, ConcatProperties DEF Text
    <3>7. TextOK(Text', round', sample_')
      BY <2>1, <2>2, <3>1, <3>3, <3>4, <3>6, <1>nextLine DEF L
    <3>8. TypeInv'
      BY <2>1, <2>2, <3>1, <3>2, <3>6 DEF TypeInv
    <3> QED
      BY <2>2, <3>1, <3>2, <3>7, <3>8 DEF TelemetryInv, SamplesSent
  <2>22. ASSUME OtherPacket PROVE TelemetryInv'
    <3>1. /\ wire' = wire \o OtherLine
          /\ round' = round /\ at' = at /\ up' = up /\ read_buf_str_' = R /\ sample_' = sample_
      BY <2>22 DEF OtherPacket, program, sketch
    <3>2. OtherLine \in Seq(Piece) /\ TextOK(Text \o OtherLine, round, sample_)
      BY <2>1, <2>2, <1>otherLine
    <3>3. Text' = Text \o OtherLine /\ wire' \in Seq(Piece)
      BY <2>1, <3>1, <3>2, ConcatAssociative, ConcatProperties DEF Text
    <3>4. TypeInv'
      BY <2>1, <2>2, <3>1, <3>3 DEF TypeInv
    <3> QED
      BY <2>2, <3>1, <3>2, <3>3, <3>4 DEF TelemetryInv, SamplesSent
  <2>13. ASSUME BoardRestarts PROVE TelemetryInv'
    <3>1. /\ round' = round /\ at' = at /\ up' = up /\ read_buf_str_' = R /\ sample_' = sample_
      BY <2>13 DEF BoardRestarts, program, sketch
    <3>2. PICK i \in 0 .. Len(wire) :
              \/ wire' = SubSeq(wire, 1, i) \o Greeting
              \/ /\ i < Len(wire)
                 /\ \E part \in Parts(wire[i + 1]) :
                        wire' = Append(SubSeq(wire, 1, i), part) \o Greeting
      BY <2>13 DEF BoardRestarts
    <3> DEFINE m == Len(R) + i
               sent == SubSeq(wire, 1, i)
    <3>3. /\ sent \in Seq(Piece) /\ Len(sent) = i
          /\ \A j \in 1 .. i : sent[j] = wire[j]
      <4>1. \A j \in 1 .. i : wire[j] \in Piece
        BY <2>1, ElementOfSeq
      <4>2. 1 \in Int /\ i \in Int
        OBVIOUS
      <4>3. /\ sent \in Seq(Piece) /\ Len(sent) = IF 1 <= i THEN i - 1 + 1 ELSE 0
            /\ \A j \in 1 .. i - 1 + 1 : sent[j] = wire[1 + j - 1]
        BY <4>1, <4>2, SubSeqProperties
      <4> QED
        BY <4>3
    <3>4. Greeting \in Seq(Piece) /\ Len(Greeting) = 1 /\ Greeting[1] = Torn
      <4>1. "end" \in Tags /\ 1 \in Nat
        BY DEF Tags
      <4>2. <<"end", 1>> \in Piece
        BY <4>1, Zenon DEF Piece
      <4> QED
        BY <4>2 DEF Greeting, Torn
    \* What remains of the text, and what closes it.
    <3>5. ASSUME NEW w \in Seq(Piece), Len(w) >= i, \A j \in 1 .. i : w[j] = wire[j]
          PROVE  /\ R \o w \in Seq(Piece) /\ Len(R \o w) = Len(R) + Len(w)
                 /\ \A j \in 1 .. m : (R \o w)[j] = Text[j]
                 /\ \A j \in 1 .. Len(w) : (R \o w)[Len(R) + j] = w[j]
      <4> DEFINE T == R \o w
      <4>1. /\ T \in Seq(Piece) /\ Len(T) = Len(R) + Len(w)
            /\ \A j \in 1 .. Len(R) + Len(w) : T[j] = IF j <= Len(R) THEN R[j] ELSE w[j - Len(R)]
        BY <2>1, ConcatProperties
      <4>2. Len(w) \in Nat
        BY LenProperties
      <4> HIDE DEF T
      <4>3. ASSUME NEW j \in 1 .. m PROVE T[j] = Text[j]
        <5>1. j \in 1 .. Len(R) + Len(w) /\ j \in 1 .. Len(R) + Len(wire)
          BY <2>1, <3>5, <4>2
        <5>2. CASE j <= Len(R)
          BY <5>1, <5>2, <4>1, <2>1
        <5>3. CASE ~(j <= Len(R))
          <6>1. j - Len(R) \in 1 .. i
            BY <5>3, <2>1
          <6> QED
            BY <5>1, <5>3, <6>1, <4>1, <2>1, <3>5
        <5> QED
          BY <5>2, <5>3
      <4>4. ASSUME NEW j \in 1 .. Len(w) PROVE T[Len(R) + j] = w[j]
        <5>1. /\ Len(R) + j \in 1 .. Len(R) + Len(w) /\ ~(Len(R) + j <= Len(R))
              /\ (Len(R) + j) - Len(R) = j
          BY <2>1, <4>2
        <5> QED
          BY <5>1, <4>1
      <4> QED
        BY <4>1, <4>3, <4>4 DEF T
    <3>6. m \in 0 .. Len(Text)
      BY <2>1
    <3>7. wire' \in Seq(Piece) /\ TextOK(Text', round, sample_)
      <4>1. CASE wire' = sent \o Greeting
        <5>1. /\ wire' \in Seq(Piece) /\ Len(wire') = i + 1
              /\ \A j \in 1 .. i + 1 : wire'[j] = IF j <= i THEN sent[j] ELSE Greeting[j - i]
          <6> HIDE DEF sent
          <6>1. /\ wire' \in Seq(Piece) /\ Len(wire') = Len(sent) + Len(Greeting)
                /\ \A j \in 1 .. Len(sent) + Len(Greeting) :
                       wire'[j] = IF j <= Len(sent) THEN sent[j] ELSE Greeting[j - Len(sent)]
            BY <4>1, <3>3, <3>4, ConcatProperties
          <6> QED
            BY <6>1, <3>3, <3>4
        <5>2. (\A j \in 1 .. i : wire'[j] = wire[j]) /\ wire'[i + 1] = Torn
          <6>1. i + 1 \in 1 .. i + 1 /\ ~(i + 1 <= i) /\ (i + 1) - i = 1
            OBVIOUS
          <6> QED
            BY <5>1, <6>1, <3>3, <3>4
        <5>3. /\ Text' \in Seq(Piece) /\ Len(Text') = m + 1
              /\ \A j \in 1 .. m : Text'[j] = Text[j]
              /\ Text'[m + 1] = Torn
          <6>1. Text' = R \o wire' /\ Len(wire') >= i /\ i + 1 \in 1 .. Len(wire')
            BY <3>1, <5>1 DEF Text
          <6>2. Len(R) + Len(wire') = m + 1 /\ Len(R) + (i + 1) = m + 1
            BY <2>1, <5>1
          <6>3. /\ Text' \in Seq(Piece) /\ Len(Text') = Len(R) + Len(wire')
                /\ \A j \in 1 .. m : Text'[j] = Text[j]
                /\ \A j \in 1 .. Len(wire') : Text'[Len(R) + j] = wire'[j]
            BY <6>1, <5>1, <5>2, <3>5
          <6> HIDE DEF m
          <6> QED
            BY <6>1, <6>2, <6>3, <5>1, <5>2
        <5> HIDE DEF m
        <5>4. TextOK(Text', round, sample_)
          BY <2>1, <2>2, <3>6, <5>3, <1>tornText
        <5> QED
          BY <5>1, <5>4
      <4>2. CASE i < Len(wire) /\ \E part \in Parts(wire[i + 1]) :
                                      wire' = Append(sent, part) \o Greeting
        <5>1. PICK part \in Parts(wire[i + 1]) : wire' = Append(sent, part) \o Greeting
          BY <4>2
        <5>2. part \in Piece
          <6>1. /\ "cut id" \in Tags /\ "space" \in Tags /\ "cut SS" \in Tags /\ 0 \in Nat
                /\ Cut \in Nat
            BY <2>2 DEF Tags, Cut
          <6>2. /\ <<"cut id", 0>> \in Piece /\ <<"space", 0>> \in Piece /\ <<"cut SS", 0>> \in Piece
                /\ \A l \in Range(Sends) : <<l, Cut>> \in Piece
            BY <6>1, Zenon DEF Piece
          <6> QED
            BY <6>2, <5>1, Zenon DEF Parts
        <5>3. /\ Append(sent, part) \in Seq(Piece) /\ Len(Append(sent, part)) = i + 1
              /\ (\A j \in 1 .. i : Append(sent, part)[j] = sent[j])
              /\ Append(sent, part)[i + 1] = part
          BY <3>3, <5>2, AppendProperties
        <5> DEFINE s == Append(sent, part)
        <5>4. /\ wire' \in Seq(Piece) /\ Len(wire') = i + 2
              /\ \A j \in 1 .. i + 2 : wire'[j] = IF j <= i + 1 THEN s[j] ELSE Greeting[j - (i + 1)]
          <6> HIDE DEF s
          <6>1. /\ wire' \in Seq(Piece) /\ Len(wire') = Len(s) + Len(Greeting)
                /\ \A j \in 1 .. Len(s) + Len(Greeting) :
                       wire'[j] = IF j <= Len(s) THEN s[j] ELSE Greeting[j - Len(s)]
            BY <5>1, <5>3, <3>4, ConcatProperties DEF s
          <6>2. Len(s) = i + 1
            BY <5>3 DEF s
          <6> QED
            BY <6>1, <6>2, <3>4
        <5>5. /\ \A j \in 1 .. i : wire'[j] = wire[j]
              /\ wire'[i + 1] = part /\ wire'[i + 2] = Torn
          <6> HIDE DEF s
          <6>1. /\ i + 1 \in 1 .. i + 2 /\ i + 2 \in 1 .. i + 2 /\ ~(i + 2 <= i + 1)
                /\ (i + 2) - (i + 1) = 1 /\ \A j \in 1 .. i : j \in 1 .. i + 2 /\ j <= i + 1
            OBVIOUS
          <6> QED
            BY <5>3, <5>4, <6>1, <3>3, <3>4 DEF s
        <5>6. /\ Text' \in Seq(Piece) /\ Len(Text') = m + 2
              /\ \A j \in 1 .. m : Text'[j] = Text[j]
              /\ Text'[m + 1] = part /\ Text'[m + 2] = Torn
          <6>1. /\ Text' = R \o wire' /\ Len(wire') >= i
                /\ i + 1 \in 1 .. Len(wire') /\ i + 2 \in 1 .. Len(wire')
            BY <3>1, <5>4 DEF Text
          <6>2. /\ Len(R) + Len(wire') = m + 2
                /\ Len(R) + (i + 1) = m + 1 /\ Len(R) + (i + 2) = m + 2
            BY <2>1, <5>4
          <6>3. /\ Text' \in Seq(Piece) /\ Len(Text') = Len(R) + Len(wire')
                /\ \A j \in 1 .. m : Text'[j] = Text[j]
                /\ \A j \in 1 .. Len(wire') : Text'[Len(R) + j] = wire'[j]
            BY <6>1, <5>4, <5>5, <3>5
          <6> HIDE DEF m
          <6> QED
            BY <6>1, <6>2, <6>3, <5>4, <5>5
        <5>7. m < Len(Text) /\ Text[m + 1] = wire[i + 1]
          <6>1. /\ m + 1 \in 1 .. Len(R) + Len(wire) /\ ~(m + 1 <= Len(R))
                /\ (m + 1) - Len(R) = i + 1 /\ m < Len(Text)
            BY <2>1, <4>2
          <6> HIDE DEF m
          <6> QED
            BY <6>1, <2>1
        <5> HIDE DEF m
        <5>8. TextOK(Text', round, sample_)
          BY <2>1, <2>2, <3>6, <5>1, <5>6, <5>7, <1>tornText
        <5> QED
          BY <5>4, <5>8
      <4> QED
        BY <3>2, <4>1, <4>2
    <3>8. TypeInv'
      BY <2>1, <2>2, <3>1, <3>7 DEF TypeInv
    <3> QED
      BY <2>2, <3>1, <3>7, <3>8 DEF TelemetryInv, SamplesSent
  <2>14. ASSUME Collect PROVE TelemetryInv'
    <3>1. /\ round' = round /\ at' = at /\ up' = up /\ sample_' = sample_ /\ up
          /\ wire # << >> /\ wire[1][1] # "end"
          /\ read_buf_str_' = Append(R, wire[1]) /\ wire' = Tail(wire)
      BY <2>14 DEF Collect, sketch
    <3>2. Len(wire) > 0 /\ wire[1] \in Piece
      BY <2>1, <3>1, EmptySeq, ElementOfSeq
    <3>3. /\ read_buf_str_' \in Seq(Piece) /\ Len(read_buf_str_') = Len(R) + 1
          /\ \A i \in 1 .. Len(R) : read_buf_str_'[i] = R[i]
          /\ read_buf_str_'[Len(R) + 1] = wire[1]
      BY <2>1, <3>1, <3>2, AppendProperties
    <3>4. \A i \in 1 .. Len(read_buf_str_') : read_buf_str_'[i][1] # "end"
      <4> SUFFICES ASSUME NEW i \in 1 .. Len(read_buf_str_')
                   PROVE  read_buf_str_'[i][1] # "end"
        OBVIOUS
      <4>1. i \in 1 .. Len(R) \/ i = Len(R) + 1
        BY <2>1, <3>3
      <4> QED
        BY <4>1, <2>2, <3>1, <3>3
    <3>5. /\ Text' \in Seq(Piece) /\ Len(Text') = Len(Text)
          /\ \A i \in 1 .. Len(Text') : Text'[i] = Text[i]
      <4> DEFINE r == read_buf_str_'
      <4>1. /\ Text' \in Seq(Piece) /\ Len(Text') = Len(r) + Len(Tail(wire))
            /\ \A i \in 1 .. Len(r) + Len(Tail(wire)) :
                   Text'[i] = IF i <= Len(r) THEN r[i] ELSE Tail(wire)[i - Len(r)]
        BY <2>7, <3>1, <3>3, ConcatProperties DEF Text
      <4>2. Len(Text') = Len(Text)
        BY <4>1, <3>1, <3>3, <2>1, <2>7
      <4>3. ASSUME NEW i \in 1 .. Len(Text') PROVE Text'[i] = Text[i]
        <5>1. /\ i \in 1 .. Len(R) + Len(wire) /\ i \in 1 .. Len(r) + Len(Tail(wire))
              /\ Len(r) = Len(R) + 1
          BY <4>1, <4>2, <2>1, <3>3
        <5> HIDE DEF r
        <5>2. CASE i <= Len(R)
          <6>1. i \in 1 .. Len(R) /\ i <= Len(r)
            BY <5>1, <5>2, <2>1
          <6>2. r[i] = R[i]
            BY <6>1, <3>3 DEF r
          <6> QED
            BY <5>1, <5>2, <6>1, <6>2, <4>1, <2>1
        <5>3. CASE i = Len(R) + 1
          <6>1. ~(i <= Len(R)) /\ i - Len(R) = 1 /\ i <= Len(r)
            BY <5>1, <5>3, <2>1
          <6> QED
            BY <5>1, <5>3, <6>1, <4>1, <2>1, <3>3 DEF r
        <5>4. CASE i > Len(R) + 1
          <6>1. /\ ~(i <= Len(R)) /\ ~(i <= Len(r)) /\ i - Len(r) \in 1 .. Len(wire) - 1
                /\ (i - Len(r)) + 1 = i - Len(R)
            BY <5>1, <5>4, <2>1
          <6>2. Tail(wire)[i - Len(r)] = wire[i - Len(R)]
            BY <6>1, <2>7, <3>1
          <6> QED
            BY <5>1, <6>1, <6>2, <4>1, <2>1
        <5> QED
          BY <5>1, <5>2, <5>3, <5>4, <2>1
      <4> QED
        BY <4>1, <4>2, <4>3
    <3>6. TextOK(Text', round, sample_)
      <4>1. Text' = Text
        BY <3>5, <2>1, SeqEqual
      <4> QED
        BY <4>1, <2>2
    <3>7. TypeInv'
      BY <2>2, <2>7, <3>1, <3>3 DEF TypeInv
    <3> QED
      BY <2>2, <3>1, <3>4, <3>6, <3>7 DEF TelemetryInv, SamplesSent
  \* A value in a text is one that its node measured.
  <2>15. ASSUME NEW T, Chained(T, round), NEW i \in 1 .. Len(T) - 1, Value(T, i)
         PROVE  /\ T[i][2] \in Node /\ T[i + 1][1] \in Sensors
                /\ T[i + 1][2] \in 1 .. round[T[i][2]]
    <3>1. Follows(T[i], T[i + 1], round)
      BY <2>15 DEF Chained
    <3>2. /\ T[i][1] = "id" /\ T[i + 1][1] \in Sensors /\ T[i + 1][2] # Cut
          /\ "id" \notin Range(Sends) /\ T[i + 1][1] # Torn[1]
      BY <2>15, SendsAssumption DEF Value, Tags, Torn
    <3>3. T[i + 1] # Torn
      BY <3>2
    <3> QED
      BY <3>1, <3>2, <3>3 DEF Follows
  \* The program has no part of a line, and no sample is newer than what comes.
  <2>16. ASSUME wire' = wire \/ (wire # << >> /\ wire' = Tail(wire)),
                read_buf_str_' = << >>, round' = round, at' = at, up' \in BOOLEAN
         PROVE  /\ wire' \in Seq(Piece) /\ Len(wire') <= Len(Text)
                /\ \A i \in 1 .. Len(wire') : wire'[i] = Text[i + (Len(Text) - Len(wire'))]
                /\ TextOK(wire', round, sample_)
                /\ (sample_' \in [Node -> [Sensors -> 0 .. MaxRound]]
                       /\ SamplesSent' /\ NoneOlder(wire', sample_')) => TelemetryInv'
    <3>1. /\ wire' \in Seq(Piece) /\ Len(wire') <= Len(Text)
          /\ \A i \in 1 .. Len(wire') : wire'[i] = Text[i + (Len(Text) - Len(wire'))]
      <4>1. CASE wire' = wire
        <5>1. ASSUME NEW i \in 1 .. Len(wire)
              PROVE  wire[i] = Text[i + (Len(Text) - Len(wire))]
          <6>1. /\ i + (Len(Text) - Len(wire)) = Len(R) + i
                /\ Len(R) + i \in 1 .. Len(R) + Len(wire)
                /\ ~(Len(R) + i <= Len(R)) /\ (Len(R) + i) - Len(R) = i
            BY <2>1
          <6> QED
            BY <6>1, <2>1
        <5> QED
          BY <4>1, <5>1, <2>1
      <4>2. CASE wire # << >> /\ wire' = Tail(wire)
        BY <4>2, <2>7, <2>8
      <4> QED
        BY <4>1, <4>2, <2>16
    <3>2. TextOK(wire', round, sample_)
      BY <2>6, <3>1
    <3>3. Text' = wire' /\ Len(read_buf_str_') = 0
      BY <2>16, <3>1, ConcatEmptySeq, EmptySeq DEF Text
    <3>4. ASSUME sample_' \in [Node -> [Sensors -> 0 .. MaxRound]],
                 SamplesSent', NoneOlder(wire', sample_')
          PROVE  TelemetryInv'
      <4>1. TextOK(Text', round', sample_')
        BY <2>16, <3>2, <3>3, <3>4 DEF TextOK
      <4>2. TypeInv'
        BY <2>2, <2>16, <3>1, <3>4, EmptySeq DEF TypeInv
      <4>3. \A i \in 1 .. Len(read_buf_str_') : read_buf_str_'[i][1] # "end"
        BY <3>3
      <4> QED
        BY <2>2, <2>16, <3>4, <4>1, <4>2, <4>3 DEF TelemetryInv
    <3> QED
      BY <3>1, <3>2, <3>4
  <2>17. ASSUME wire' = wire \/ (wire # << >> /\ wire' = Tail(wire)), Ended, UNCHANGED sketch
         PROVE  TelemetryInv'
    <3>1. read_buf_str_' = << >> /\ round' = round /\ at' = at /\ up' \in BOOLEAN
          /\ sample_' = NoSamples
      BY <2>17 DEF Ended, sketch
    <3>2. TextOK(wire', round, sample_)
      BY <2>16, <2>17, <3>1
    <3>3. sample_' \in [Node -> [Sensors -> 0 .. MaxRound]] /\ SamplesSent'
      BY <3>1, <2>2 DEF NoSamples, Nothing, SamplesSent
    <3>4. NoneOlder(wire', sample_')
      <4> SUFFICES ASSUME NEW i \in 1 .. Len(wire') - 1, Value(wire', i)
                   PROVE  sample_'[wire'[i][2]][wire'[i + 1][1]] <= wire'[i + 1][2]
        BY DEF NoneOlder
      <4> DEFINE n == wire'[i][2]
                 s == wire'[i + 1][1]
                 k == wire'[i + 1][2]
      <4>1. n \in Node /\ s \in Sensors /\ k \in 1 .. round[n]
        BY <2>15, <3>2 DEF TextOK
      <4> HIDE DEF n, s, k
      <4>2. sample_'[n][s] = 0 /\ k >= 0
        BY <3>1, <4>1, <2>2 DEF NoSamples, Nothing
      <4>3. sample_'[n][s] <= k
        BY <4>1, <4>2, <2>2
      <4> QED
        BY <4>3 DEF n, s, k
    <3> QED
      BY <2>16, <2>17, <3>1, <3>3, <3>4
  <2>18. ASSUME HandleLine PROVE TelemetryInv'
    <3>1. wire # << >> /\ wire' = Tail(wire) /\ up /\ UNCHANGED sketch
      BY <2>18 DEF HandleLine
    <3>2. CASE Bad(R)
      BY <2>17, <2>18, <3>1, <3>2 DEF HandleLine
    <3>3. CASE ~Bad(R)
      <4>1. /\ sample_' = UpdateSensors(R, sample_) /\ read_buf_str_' = << >> /\ up' = up
            /\ round' = round /\ at' = at /\ up' \in BOOLEAN
        BY <2>2, <2>18, <3>1, <3>3 DEF HandleLine, sketch
      <4>2. /\ wire' \in Seq(Piece) /\ Len(wire') <= Len(Text)
            /\ \A i \in 1 .. Len(wire') : wire'[i] = Text[i + (Len(Text) - Len(wire'))]
            /\ TextOK(wire', round, sample_)
        BY <2>16, <3>1, <4>1
      <4>3. /\ sample_' \in [Node -> [Sensors -> 0 .. MaxRound]]
            /\ \A n \in Node, s \in Sensors :
                   \/ sample_'[n][s] = sample_[n][s]
                   \/ \E i \in 1 .. Len(R) - 1 :
                          /\ Value(Text, i) /\ Text[i][2] = n /\ Text[i + 1][1] = s
                          /\ sample_'[n][s] = Text[i + 1][2] /\ sample_'[n][s] \in 1 .. round[n]
        <5>1. TelemetryInv /\ wire # << >> /\ sample_' = UpdateSensors(read_buf_str_, sample_)
          BY <3>1, <4>1
        <5>2. sample_' \in [Node -> [Sensors -> 0 .. MaxRound]]
          BY <5>1, HandledLine
        <5>3. ASSUME NEW n \in Node, NEW s \in Sensors, sample_'[n][s] # sample_[n][s]
              PROVE  \E i \in 1 .. Len(R) - 1 :
                         /\ Value(Text, i) /\ Text[i][2] = n /\ Text[i + 1][1] = s
                         /\ sample_'[n][s] = Text[i + 1][2] /\ sample_'[n][s] \in 1 .. round[n]
          BY <5>1, <5>3, HandledLine
        <5> QED
          BY <5>2, <5>3, Zenon
      <4>4. SamplesSent'
        BY <2>2, <4>1, <4>3 DEF SamplesSent
      <4>5. NoneOlder(wire', sample_')
        <5> SUFFICES ASSUME NEW j \in 1 .. Len(wire') - 1, Value(wire', j)
                     PROVE  sample_'[wire'[j][2]][wire'[j + 1][1]] <= wire'[j + 1][2]
          BY DEF NoneOlder
        <5> DEFINE n == wire'[j][2]
                   s == wire'[j + 1][1]
                   k == wire'[j + 1][2]
                   d == Len(Text) - Len(wire')
        <5>1. n \in Node /\ s \in Sensors
          BY <2>15, <4>2 DEF TextOK
        <5>2. sample_[n][s] <= k
          BY <4>2 DEF TextOK, NoneOlder
        <5>3. ASSUME NEW i \in 1 .. Len(R) - 1, Value(Text, i), Text[i][2] = n,
                     Text[i + 1][1] = s, sample_'[n][s] = Text[i + 1][2]
              PROVE  sample_'[n][s] <= k
          <6>1. /\ i \in 1 .. Len(Text) - 1 /\ j + d \in 1 .. Len(Text) - 1 /\ i < j + d
                /\ j \in 1 .. Len(wire') /\ j + 1 \in 1 .. Len(wire')
                /\ (j + 1) + d = (j + d) + 1
            BY <2>1, <2>7, <3>1
          <6>2. wire'[j] = Text[j + d] /\ wire'[j + 1] = Text[(j + d) + 1]
            <7>1. wire'[j] = Text[j + d] /\ wire'[j + 1] = Text[(j + 1) + d]
              BY <4>2, <6>1, Zenon
            <7> HIDE DEF d
            <7> QED
              BY <6>1, <7>1
          <6> HIDE DEF d
          <6>3. Value(Text, j + d)
            BY <6>2 DEF Value
          <6> QED
            BY <5>3, <6>1, <6>2, <6>3, <2>2 DEF TextOK, Ordered
        <5> HIDE DEF n, s, k
        <5>4. sample_'[n][s] <= k
          BY <4>3, <5>1, <5>2, <5>3
        <5> QED
          BY <5>4 DEF n, s, k
      <4> QED
        BY <2>16, <3>1, <4>1, <4>3, <4>4, <4>5
    <3> QED
      BY <3>2, <3>3
  <2>19. ASSUME Stop PROVE TelemetryInv'
    BY <2>17, <2>19 DEF Stop
  <2>20. ASSUME ~up, wire' = wire \/ (wire # << >> /\ wire' = Tail(wire)), UNCHANGED sketch,
                up' \in BOOLEAN, UNCHANGED <<read_buf_str_, sample_>>
         PROVE  TelemetryInv'
    <3>1. /\ read_buf_str_' = << >> /\ round' = round /\ at' = at /\ sample_' = sample_
          /\ SamplesSent'
      BY <2>2, <2>20 DEF sketch, SamplesSent
    <3>2. TextOK(wire', round, sample_)
      BY <2>16, <2>20, <3>1
    <3> QED
      BY <2>2, <2>16, <2>20, <3>1, <3>2 DEF TextOK
  <2>21. ASSUME UNCHANGED vars PROVE TelemetryInv'
    <3>1. /\ round' = round /\ at' = at /\ wire' = wire /\ up' = up
          /\ read_buf_str_' = R /\ sample_' = sample_
      BY <2>21 DEF vars, sketch, program
    <3>2. Text' = Text
      BY <3>1 DEF Text
    <3> QED
      BY <2>1, <2>2, <3>1, <3>2 DEF TelemetryInv, TypeInv, SamplesSent
  <2> QED
    <3>1. CASE \E n \in Node : Wake(n) \/ NotRead(n) \/ PacketLost(n) \/ PacketArrives(n)
      BY <3>1, <2>9, <2>10, <2>11, <2>12
    <3>2. CASE Read
      BY <3>2, <2>14, <2>18 DEF Read
    <3>3. CASE Drop
      BY <3>3, <2>2, <2>20 DEF Drop, program
    <3>4. CASE Start
      BY <3>4, <2>20 DEF Start
    <3> QED
      BY <3>1, <3>2, <3>3, <3>4, <2>13, <2>19, <2>21, <2>22 DEF Next
<1> QED
  BY <1>1, <1>2, PTL DEF Spec

\* In every state of every run the status shows for a sensor nothing or a value that
\* its node has measured (WirelessHandler::UpdateSensors, RTSensor::Update).
THEOREM ShownWasMeasured == Spec => []SamplesSent
<1>1. TelemetryInv => SamplesSent
  BY DEF TelemetryInv
<1> QED
  BY <1>1, TelemetryInvariant, PTL

\* While the program runs no step puts an older value in the place of a newer one,
\* however often a node repeats a packet (sendWithRetry, RTSensor::Update).
THEOREM ShownNeverOlder == Spec => NeverOlder
<1>1. ASSUME TelemetryInv, [Next]_vars, up, up', NEW n \in Node, NEW s \in Sensors
      PROVE  sample_'[n][s] >= sample_[n][s]
  <2>1. sample_[n][s] \in 0 .. MaxRound /\ MaxRound \in Nat
    BY <1>1, TelemetryBounds DEF TelemetryInv, TypeInv
  <2>2. CASE sample_' = sample_
    BY <2>1, <2>2
  <2>3. CASE HandleLine
    <3>1. wire # << >> /\ sample_' = UpdateSensors(read_buf_str_, sample_)
      BY <1>1, <2>3 DEF HandleLine, Ended
    <3>2. CASE sample_'[n][s] # sample_[n][s]
      <4>1. PICK i \in 1 .. Len(read_buf_str_) - 1 :
                /\ Value(Text, i) /\ Text[i][2] = n /\ Text[i + 1][1] = s
                /\ sample_'[n][s] = Text[i + 1][2] /\ sample_'[n][s] \in 1 .. round[n]
        BY <1>1, <3>1, <3>2, HandledLine
      <4>2. i \in 1 .. Len(Text) - 1
        <5>1. Len(Text) = Len(read_buf_str_) + Len(wire)
          BY <1>1, ConcatProperties DEF TelemetryInv, TypeInv, Text
        <5>2. Len(read_buf_str_) \in Nat /\ Len(wire) \in Nat
          BY <1>1, LenProperties DEF TelemetryInv, TypeInv
        <5> QED
          BY <5>1, <5>2
      <4>3. sample_[n][s] <= Text[i + 1][2]
        BY <1>1, <4>1, <4>2 DEF TelemetryInv, TextOK, NoneOlder
      <4>4. round[n] \in 0 .. MaxRound
        BY <1>1 DEF TelemetryInv, TypeInv
      <4>5. sample_'[n][s] \in 1 .. round[n] /\ sample_[n][s] <= sample_'[n][s]
        BY <4>1, <4>3
      <4> QED
        BY <2>1, <4>4, <4>5
    <3> QED
      BY <2>1, <3>2
  <2>4. CASE Stop
    BY <1>1, <2>4 DEF Stop, Ended
  <2> QED
    BY <1>1, <2>2, <2>3, <2>4 DEF Next, Read, Wake, NotRead, PacketLost, PacketArrives,
       OtherPacket, BoardRestarts, Collect, Drop, Start, program, vars
<1>2. TelemetryInv /\ [Next]_vars =>
          [up /\ up' => \A n \in Node, s \in Sensors : sample_'[n][s] >= sample_[n][s]]_vars
  BY <1>1
<1> QED
  BY <1>2, TelemetryInvariant, PTL DEF Spec, NeverOlder

\* A program that a line ends has read one that a restart of the board cut, or one
\* of a node that is not configured, never a configured node's whole line or the
\* rest of one whose beginning it missed (the null pointer in rts_, std::stoi).
THEOREM OwnLinesAreHarmless == Spec => OwnLinesHarmless
\* Another line that ends the program has a piece that lost its number or its
\* strength, which the greeting of the board closed.
<1>torn. ASSUME TelemetryInv, wire # << >>, Bad(read_buf_str_),
                \A i \in DOMAIN read_buf_str_ : read_buf_str_[i][1] # "other"
         PROVE  wire[1] = Torn
  <2> USE <1>torn
  <2> DEFINE D == read_buf_str_
             id == FirstId(D)
             I == {i \in 1 .. Len(D) : D[i][1] \in {"id", "other", "cut id"}}
  <2>1. D \in Seq(Piece) /\ Len(D) \in Nat /\ Len(wire) \in Nat /\ Len(wire) > 0
    BY EmptySeq, LenProperties DEF TelemetryInv, TypeInv
  <2>2. id > 0 /\ (D[id][1] \in {"other", "cut id"} \/ NoNumber(SubSeq(D, id + 1, Len(D))))
    BY DEF Bad, Unconfigured
  <2>3. id \in 1 .. Len(D)
    <3>1. id = IF I # {} THEN Min(I) ELSE 0
      BY DEF FirstId, SelectInSeq
    <3>2. I # {} => Min(I) \in I
      <4>1. I \in SUBSET Nat
        <5>1. I \subseteq 1 .. Len(D)
          BY Zenon
        <5>2. 1 .. Len(D) \subseteq Nat
          BY <2>1
        <5> QED
          BY <5>1, <5>2, Zenon
      <4> HIDE DEF I
      <4> QED
        BY <4>1, SmallestIndex
    <3>3. id > 0
      BY <2>2
    <3>4. I \subseteq 1 .. Len(D)
      BY Zenon
    <3> HIDE DEF id, I
    <3>5. id # 0
      BY <3>3
    <3> QED
      BY <3>1, <3>2, <3>4, <3>5, Zenon
  <2> HIDE DEF id
  <2>4. PICK j \in 1 .. Len(D) : D[j][1] \in {"cut id", "cut SS"}
    <3>1. CASE D[id][1] \in {"other", "cut id"}
      <4>1. id \in DOMAIN D
        BY <2>1, <2>3, LenProperties
      <4> QED
        BY <2>3, <3>1, <4>1
    <3>2. CASE NoNumber(SubSeq(D, id + 1, Len(D)))
      <4> DEFINE rest == SubSeq(D, id + 1, Len(D))
      <4>1. \A i \in id + 1 .. Len(D) : D[i] \in Piece
        BY <2>1, <2>3, ElementOfSeq
      <4>2. id + 1 \in Int /\ Len(D) \in Int
        BY <2>1, <2>3
      <4>3. /\ rest \in Seq(Piece)
            /\ Len(rest) = IF id + 1 <= Len(D) THEN Len(D) - (id + 1) + 1 ELSE 0
            /\ \A i \in 1 .. Len(D) - (id + 1) + 1 : rest[i] = D[(id + 1) + i - 1]
        BY <4>1, <4>2, SubSeqProperties
      <4>4. PICK i \in DOMAIN rest : rest[i][1] = "cut SS"
        BY <3>2 DEF NoNumber
      <4> HIDE DEF rest
      <4>5. i \in 1 .. Len(rest)
        BY <4>3, <4>4, LenProperties
      <4>6. i \in 1 .. Len(D) - (id + 1) + 1 /\ (id + 1) + i - 1 \in 1 .. Len(D)
        BY <2>1, <2>3, <4>3, <4>5
      <4> QED
        BY <4>3, <4>4, <4>6
    <3> QED
      BY <2>2, <3>1, <3>2
  <2>5. /\ Len(Text) = Len(D) + Len(wire)
        /\ \A i \in 1 .. Len(D) + Len(wire) :
               Text[i] = IF i <= Len(D) THEN D[i] ELSE wire[i - Len(D)]
    BY ConcatProperties DEF Text, TelemetryInv, TypeInv
  <2>6. Text[j] = D[j] /\ Follows(Text[j], Text[j + 1], round)
    <3>1. Text[j] = D[j] /\ j \in 1 .. Len(Text) - 1
      BY <2>1, <2>5
    <3> QED
      BY <3>1 DEF TelemetryInv, TextOK, Chained
  <2>7. Text[j + 1] = Torn
    <3>1. \A l \in Range(Sends) : l # "cut id" /\ l # "cut SS"
      BY SendsAssumption DEF Tags
    <3>2. ~(Text[j][1] \in Range(Sends)) /\ Text[j][1] \in {"cut id", "cut SS"}
      BY <3>1, <2>4, <2>6
    <3> QED
      BY <3>2, <2>6 DEF Follows
  <2>8. ASSUME j # Len(D) PROVE FALSE
    <3>1. j + 1 \in 1 .. Len(D) /\ Text[j + 1] = D[j + 1]
      BY <2>1, <2>5, <2>8
    <3>2. D[j + 1][1] # "end"
      BY <3>1 DEF TelemetryInv
    <3> QED
      BY <2>7, <3>1, <3>2 DEF Torn
  <2>9. j + 1 \in 1 .. Len(D) + Len(wire) /\ ~(j + 1 <= Len(D)) /\ (j + 1) - Len(D) = 1
    BY <2>1, <2>8
  <2> QED
    BY <2>5, <2>7, <2>9
<1> DEFINE Other == \E i \in DOMAIN read_buf_str_ : read_buf_str_[i][1] = "other"
<1>1. ASSUME TelemetryInv, [Next]_vars, up, ~up', wire' # wire
      PROVE  wire[1] = <<"end", 1>> \/ Other
  <2>1. HandleLine
    BY <1>1 DEF Next, Read, Wake, NotRead, PacketLost, PacketArrives, OtherPacket,
       BoardRestarts, Collect, Stop, Drop, Start, program, vars
  <2>2. wire # << >> /\ Bad(read_buf_str_)
    BY <1>1, <2>1 DEF HandleLine
  <2> QED
    BY <1>1, <2>2, <1>torn DEF Torn
<1>2. TelemetryInv /\ [Next]_vars =>
          [up /\ ~up' /\ wire' # wire => wire[1] = <<"end", 1>> \/ Other]_vars
  BY <1>1
<1> QED
  BY <1>2, TelemetryInvariant, PTL DEF Spec, OwnLinesHarmless
=============================================================================
