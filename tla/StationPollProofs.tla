-------------------------- MODULE StationPollProofs --------------------------
(***************************************************************************)
(* What the poller sends is what the page says, for any names, any pages   *)
(* in the manner of sample_live_data.html and wherever one breaks off.     *)
(*                                                                         *)
(* The argument: the scan passes no known input without its value, which   *)
(* is the piece after it, and of a whole page none is left at the end.     *)
(***************************************************************************)
EXTENDS StationPoll, WellFoundedInduction, TLAPS

Scans == phase \in {"scan", "send"}

\* The names before k have their values.
FoundBefore(k) ==
    \A i \in DOMAIN page, f \in Field :
        i < k /\ page[i] = <<"input", f>> => fields_[f] # Blank

PollInv ==
    /\ p \in Nat /\ fields_ \in [Field -> STRING \cup {Blank}]
    /\ result # "pending" => phase \in Operation
    /\ phase \notin {"scan", "send", "done"} => \A f \in Field : fields_[f] = Blank
    /\ Scans => /\ \E whole \in Page : page \in Arrives(whole)
                /\ \A f \in Field : fields_[f] # Blank => Says(page, f, fields_[f])
    /\ phase = "scan" /\ page \in Page => FoundBefore(p)
    /\ phase = "send" /\ page \in Page => FoundBefore(Npos(page))

-----------------------------------------------------------------------------
\* The line for the pool's server says of each name what the station's page says of
\* it, whatever of the page has arrived; of a whole page nothing is left out.
THEOREM LineIsTrue == ASSUME LivePages PROVE Spec => []LineTrue
\* std::string::find returns the first place, if there is one.
<1>find. ASSUME NEW b, Len(b) \in Nat, NEW kinds, NEW k \in Nat
         PROVE  LET n == Find(kinds, b, k)
                IN  /\ n \in 1 .. Npos(b)
                    /\ n # Npos(b) => n >= k /\ b[n][1] \in kinds
                    /\ \A i \in 1 .. Len(b) : i >= k /\ i < n => b[i][1] \notin kinds
  <2> USE <1>find
  <2> DEFINE I == {i \in k .. Len(b) : i > 0 /\ b[i][1] \in kinds} \cup {Npos(b)}
             R == {ss \in Nat \X Nat : ss[1] < ss[2]}
  <2>1. I \subseteq Nat /\ I # {} /\ Npos(b) = Len(b) + 1
    BY DEF Npos
  <2>2. PICK x \in I : \A y \in I : ~(<<y, x>> \in R)
    <3>1. IsWellFoundedOn(R, Nat)
      BY NatLessThanWellFounded DEF OpToRel
    <3> HIDE DEF R, I
    <3>2. QED
      BY <2>1, <3>1, WFMin
  <2>3. Find(kinds, b, k) \in I /\ \A y \in I : Find(kinds, b, k) <= y
    <3>1. ASSUME NEW y \in I PROVE x <= y
      <4>1. x \in Nat /\ y \in Nat /\ ~(y < x)
        BY <2>1, <2>2
      <4>2. QED
        BY <4>1
    <3>2. Find(kinds, b, k) = CHOOSE z \in I : \A y \in I : z <= y
      BY DEF Find, Min
    <3> HIDE DEF I
    <3>3. QED
      BY <3>1, <3>2
  <2>4. QED
    BY <2>1, <2>3
\* What arrives of a page: a piece is the page's, or the last one and cut off; after
\* a known input comes its value, if anything does.
<1>arrived. ASSUME NEW whole \in Page, NEW b \in Arrives(whole)
            PROVE  /\ Len(b) \in Nat /\ DOMAIN b = 1 .. Len(b)
                   /\ \A i \in 1 .. Len(b) : b[i] = <<b[i][1], b[i][2]>> /\ b[i][2] \in STRING
                   /\ \A i \in 1 .. Len(b) - 1 :
                         b[i][1] = "input" /\ b[i][2] \in Field =>
                           b[i + 1][1] = "value..." \/ (b[i + 1][1] = "value" /\ b[i + 1][2] # Blank)
  <2> USE <1>arrived
  <2> DEFINE Kind == {"form", "input", "value", "/form"}
  <2>1. whole \in Seq(Kind \X STRING) /\ Len(whole) \in Nat
    BY PageAssumption DEF PageAssumption
  <2>2. \A i \in 1 .. Len(whole) : /\ whole[i] = <<whole[i][1], whole[i][2]>>
                                  /\ whole[i][1] \in Kind /\ whole[i][2] \in STRING
    BY <2>1
  <2>3. \A i \in 1 .. Len(whole) : whole[i][1] = "input" /\ whole[i][2] \in Field =>
           i < Len(whole) /\ whole[i + 1][1] = "value" /\ whole[i + 1][2] # Blank
    BY <2>1 DEF LivePages
  <2>4. CASE \E k \in 0 .. Len(whole) : b = SubSeq(whole, 1, k)
    <3>1. PICK k \in 0 .. Len(whole) : b = SubSeq(whole, 1, k)
      BY <2>4
    <3>2. Len(b) = k /\ DOMAIN b = 1 .. k /\ \A i \in 1 .. k : b[i] = whole[i]
      BY <2>1, <3>1
    <3>3. \A i \in 1 .. Len(b) : b[i] = <<b[i][1], b[i][2]>> /\ b[i][2] \in STRING
      BY <2>2, <3>2
    <3>4. ASSUME NEW i \in 1 .. Len(b) - 1, b[i][1] = "input", b[i][2] \in Field
          PROVE  b[i + 1][1] = "value" /\ b[i + 1][2] # Blank
      <4>1. i \in 1 .. Len(whole) /\ i + 1 \in 1 .. k /\ i \in 1 .. k
        BY <2>1, <3>2
      <4>2. QED
        BY <2>3, <3>2, <3>4, <4>1
    <3>5. QED
      BY <3>2, <3>3, <3>4
  <2>5. CASE \E k \in 1 .. Len(whole) : b = Append(SubSeq(whole, 1, k - 1), CutOff(whole[k]))
                                     /\ whole[k][1] \in {"input", "value"}
    <3>1. PICK k \in 1 .. Len(whole) : b = Append(SubSeq(whole, 1, k - 1), CutOff(whole[k]))
                                     /\ whole[k][1] \in {"input", "value"}
      BY <2>5
    <3> DEFINE a == SubSeq(whole, 1, k - 1)
    <3>2. a \in Seq(Kind \X STRING) /\ Len(a) = k - 1 /\ \A i \in 1 .. k - 1 : a[i] = whole[i]
      BY <2>1
    <3>3. Len(b) = k /\ DOMAIN b = 1 .. k /\ b[k] = CutOff(whole[k])
          /\ \A i \in 1 .. k - 1 : b[i] = whole[i]
      BY <3>1, <3>2
    <3>4. /\ b[k] = <<b[k][1], b[k][2]>> /\ b[k][2] = whole[k][2]
          /\ whole[k][1] = "value" => b[k][1] = "value..."
          /\ b[k][1] \in {"input...", "value..."}
      BY <3>1, <3>3 DEF CutOff
    <3>5. \A i \in 1 .. Len(b) : b[i] = <<b[i][1], b[i][2]>> /\ b[i][2] \in STRING
      BY <2>1, <2>2, <3>3, <3>4
    <3>6. ASSUME NEW i \in 1 .. Len(b) - 1, b[i][1] = "input", b[i][2] \in Field
          PROVE  b[i + 1][1] = "value..." \/ (b[i + 1][1] = "value" /\ b[i + 1][2] # Blank)
      <4>1. i \in 1 .. Len(whole) /\ i \in 1 .. k - 1 /\ b[i] = whole[i]
        BY <2>1, <3>3
      <4>2. whole[i + 1][1] = "value" /\ whole[i + 1][2] # Blank
        BY <2>3, <3>6, <4>1
      <4>3. CASE i + 1 = k
        BY <3>4, <4>2, <4>3
      <4>4. CASE i + 1 \in 1 .. k - 1
        BY <3>3, <4>2, <4>4
      <4>5. QED
        BY <2>1, <4>1, <4>3, <4>4
    <3>7. QED
      BY <3>3, <3>5, <3>6
  <2>6. QED
    <3>1. \/ b \in {SubSeq(whole, 1, k) : k \in 0 .. Len(whole)}
          \/ b \in {Append(SubSeq(whole, 1, k - 1), CutOff(whole[k])) :
                       k \in {i \in DOMAIN whole : whole[i][1] \in {"input", "value"}}}
      BY DEF Arrives
    <3>2. DOMAIN whole = 1 .. Len(whole)
      BY <2>1
    <3>3. QED
      BY <2>4, <2>5, <3>1, <3>2
\* Every piece of the scan keeps the names before it found.
<1>1. Init => PollInv
  BY DEF Init, PollInv, Scans
<1>2. PollInv /\ [Next]_vars => PollInv'
  <2> SUFFICES ASSUME PollInv, [Next]_vars PROVE PollInv'
    OBVIOUS
  <2>old. /\ p \in Nat /\ fields_ \in [Field -> STRING \cup {Blank}]
          /\ result # "pending" => phase \in Operation
    BY DEF PollInv
  \* A new client starts from nothing.
  <2>1. ASSUME NEW phase2 \in {"none", "resolve"}, Client(phase2) PROVE PollInv'
    BY <2>1 DEF Client, PollInv, Scans
  <2>2. CASE Poll \/ PollThrows \/ (StaleHandler /\ Ended)
    BY <2>1, <2>2 DEF Poll, PollThrows, StaleHandler, Ended
  <2>3. ASSUME UNCHANGED client PROVE PollInv'
    BY <2>3 DEF client, PollInv, Scans, FoundBefore
  <2>4. CASE Expire \/ Start \/ (StaleHandler /\ ~Ended) \/ UNCHANGED vars
    BY <2>3, <2>4 DEF Expire, Start, StaleHandler, vars
  \* Until the answer is read no field has a value.
  <2>5. CASE \E how \in {"ok", "failed"} : Completes(how)
    BY <2>5 DEF Completes, PollInv, Scans, Operation
  <2>6. ASSUME NEW phase2 \in {"done", "connect", "write", "status", "headers", "content"},
               Handled(phase2), phase \in Operation
        PROVE  PollInv'
    BY <2>6 DEF Handled, PollInv, Scans, Operation
  <2>7. CASE OnError \/ OnSuccess \/ OnBadStatus
    <3>1. phase \in Operation
      BY <2>old, <2>7 DEF OnError, OnSuccess, OnBadStatus
    <3>2. phase # "content" => After[phase] \in {"connect", "write", "status", "headers", "content"}
      BY <3>1 DEF After, Operation
    <3>3. QED
      BY <2>6, <2>7, <3>1, <3>2 DEF OnError, OnSuccess, OnBadStatus
  <2>8. CASE OnPage
    <3>1. /\ phase = "content" /\ result' = "pending" /\ fields_' = fields_
          /\ p' = Find({"form"}, page', 1) /\ phase' \in {"done", "scan"}
          /\ \A f \in Field : fields_[f] = Blank
      BY <2>8 DEF OnPage, PollInv
    <3>2. PICK whole \in Page : page' \in Arrives(whole)
      BY <2>8 DEF OnPage
    <3>3. Len(page') \in Nat /\ DOMAIN page' = 1 .. Len(page')
      BY <3>2, <1>arrived
    <3>4. p' \in 1 .. Npos(page') /\ p' \in Nat
      BY <3>1, <3>3, <1>find DEF Npos
    <3>5. ASSUME page' \in Page PROVE FoundBefore(p)'
      <4>1. \A i \in DOMAIN page', f \in Field : page'[i] = <<"input", f>> => p' < i
        BY <3>1, <3>5 DEF LivePages
      <4>2. \A i \in DOMAIN page' : p' < i => ~(i < p')
        BY <3>3, <3>4
      <4>3. QED
        BY <4>1, <4>2 DEF FoundBefore
    <3>6. QED
      BY <2>old, <3>1, <3>2, <3>4, <3>5 DEF PollInv, Scans
  \* The pieces of a page that is scanned.
  <2>9. ASSUME phase = "scan"
        PROVE  /\ \E whole \in Page : page \in Arrives(whole)
               /\ \A f \in Field : fields_[f] # Blank => Says(page, f, fields_[f])
               /\ page \in Page => FoundBefore(p)
               /\ Len(page) \in Nat /\ DOMAIN page = 1 .. Len(page)
               /\ \A i \in 1 .. Len(page) : page[i] = <<page[i][1], page[i][2]>> /\ page[i][2] \in STRING
               /\ \A i \in 1 .. Len(page) - 1 :
                     page[i][1] = "input" /\ page[i][2] \in Field =>
                       page[i + 1][1] = "value..." \/ (page[i + 1][1] = "value" /\ page[i + 1][2] # Blank)
    BY <2>9, <1>arrived DEF PollInv, Scans
  <2>whole. ASSUME page \in Page, NEW i \in 1 .. Len(page)
            PROVE  page[i][1] \notin {"input...", "value..."}
    BY <2>whole, PageAssumption DEF PageAssumption
  <2>10. ASSUME phase = "scan", UNCHANGED <<result, page, fields_>>, p' \in Nat,
                \/ phase' = "scan" /\ (page \in Page => FoundBefore(p)')
                \/ phase' = "send" /\ (page \in Page => FoundBefore(Npos(page)))
         PROVE  PollInv'
    <3>1. \A f \in Field : Says(page, f, fields_[f])' <=> Says(page, f, fields_[f])
      BY <2>10
    <3>2. FoundBefore(Npos(page))' <=> FoundBefore(Npos(page))
      BY <2>10 DEF FoundBefore
    <3>3. QED
      BY <2>old, <2>9, <2>10, <3>1, <3>2 DEF PollInv, Scans, Operation
  \* No input is passed over on the way to the next.
  <2>11. ASSUME phase = "scan"
         PROVE  /\ Input \in 1 .. Npos(page) /\ Npos(page) = Len(page) + 1
                /\ Input # Npos(page) => Input >= p /\ page[Input][1] \in {"input", "input..."}
                /\ page \in Page => FoundBefore(Input)
    <3>1. /\ Input \in 1 .. Npos(page) /\ Npos(page) = Len(page) + 1
          /\ Input # Npos(page) => Input >= p /\ page[Input][1] \in {"input", "input..."}
          /\ \A i \in 1 .. Len(page) : i >= p /\ i < Input => page[i][1] \notin {"input", "input..."}
      BY <2>9, <2>11, <2>old, <1>find DEF Input, Npos
    <3>2. ASSUME page \in Page, NEW i \in DOMAIN page, NEW f \in Field, i < Input,
                 page[i] = <<"input", f>>
          PROVE  fields_[f] # Blank
      <4>1. i < p
        <5>1. i \in 1 .. Len(page) /\ page[i][1] = "input"
          BY <2>9, <2>11, <3>2
        <5>2. ~(i >= p)
          BY <3>1, <3>2, <5>1
        <5>3. QED
          BY <2>old, <5>1, <5>2
      <4>2. QED
        BY <2>9, <2>11, <3>2, <4>1 DEF FoundBefore
    <3>3. QED
      BY <3>1, <3>2 DEF FoundBefore
  <2>12. CASE NoInput
    <3>1. phase = "scan" /\ phase' = "scan" /\ p' = 0 /\ UNCHANGED <<result, page, fields_>>
      BY <2>12 DEF NoInput, Scanning, Moves
    <3>2. FoundBefore(p)'
      BY <2>9, <3>1 DEF FoundBefore
    <3>3. QED
      BY <2>10, <3>1, <3>2
  <2>13. CASE OtherInput
    <3>1. /\ phase = "scan" /\ phase' = "scan" /\ p' = Input + 1 /\ UNCHANGED <<result, page, fields_>>
          /\ Name \notin Field
      BY <2>13 DEF OtherInput, Scanning, Moves
    <3>2. ASSUME page \in Page, NEW i \in DOMAIN page, NEW f \in Field, i < Input + 1,
                 page[i] = <<"input", f>>
          PROVE  fields_[f] # Blank
      <4>1. i # Input
        BY <3>1, <3>2 DEF Name
      <4>2. i < Input
        BY <2>9, <2>11, <3>1, <3>2, <4>1
      <4>3. QED
        BY <2>11, <3>1, <3>2, <4>2 DEF FoundBefore
    <3>3. page \in Page => FoundBefore(p)'
      BY <3>1, <3>2 DEF FoundBefore
    <3>4. p' \in Nat
      BY <2>11, <2>9, <3>1
    <3>5. QED
      BY <2>10, <3>1, <3>3, <3>4
  <2>14. CASE InputCutOff
    <3>1. /\ phase = "scan" /\ phase' = "send" /\ UNCHANGED <<p, result, page, fields_>>
          /\ Input # Npos(page) /\ page[Input][1] = "input..."
      BY <2>14 DEF InputCutOff, Scanning
    <3>2. page \notin Page
      BY <2>9, <2>11, <2>whole, <3>1
    <3>3. QED
      BY <2>old, <2>10, <3>1, <3>2
  <2>15. ASSUME Known
         PROVE  /\ phase = "scan" /\ Input \in 1 .. Len(page) /\ page[Input] = <<"input", Name>>
                /\ Name \in Field
                /\ Value # Npos(page) => /\ Value = Input + 1 /\ Value \in 1 .. Len(page)
                                         /\ page[Value] = <<page[Value][1], page[Value][2]>>
                                         /\ page[Value][1] = "value" => page[Value][2] # Blank
    <3>1. phase = "scan" /\ Input # Npos(page) /\ page[Input][1] = "input" /\ Name \in Field
      BY <2>15 DEF Known, Scanning
    <3>2. Input \in 1 .. Len(page) /\ Len(page) \in Nat /\ page[Input] = <<"input", Name>>
      BY <2>9, <2>11, <3>1 DEF Name
    <3>3. /\ Value \in 1 .. Npos(page)
          /\ Value # Npos(page) => Value >= Input /\ page[Value][1] \in {"value", "value..."}
          /\ \A i \in 1 .. Len(page) : i >= Input /\ i < Value => page[i][1] \notin {"value", "value..."}
      BY <3>2, <1>find DEF Value
    <3>4. ASSUME Value # Npos(page) PROVE Value = Input + 1 /\ Value \in 1 .. Len(page)
      <4>1. Value \in 1 .. Len(page) /\ Value # Input /\ Value >= Input
        BY <2>11, <3>1, <3>2, <3>3, <3>4
      <4>2. Input + 1 \in 1 .. Len(page) /\ Input \in 1 .. Len(page) - 1
        BY <3>2, <4>1
      <4>3. page[Input + 1][1] \in {"value", "value..."}
        BY <2>9, <3>1, <4>2 DEF Name
      <4>4. ~(Input + 1 < Value)
        BY <3>2, <3>3, <4>2, <4>3
      <4>5. QED
        BY <3>2, <4>1, <4>4
    <3>5. ASSUME Value # Npos(page), page[Value][1] = "value" PROVE page[Value][2] # Blank
      <4>1. Value = Input + 1 /\ Input \in 1 .. Len(page) - 1
        BY <3>2, <3>4, <3>5
      <4>2. QED
        BY <2>9, <3>1, <3>5, <4>1 DEF Name
    <3>6. QED
      BY <2>9, <3>1, <3>2, <3>4, <3>5
  \* The value is that of the name, and the name before p' has one.
  <2>16. CASE ValueFound
    <3>1. /\ Known /\ Value # Npos(page) /\ page[Value][1] = "value"
          /\ fields_' = [fields_ EXCEPT ![Name] = page[Value][2]]
          /\ p' = Value + 1 /\ UNCHANGED <<phase, result, page>>
      BY <2>16 DEF ValueFound
    <3>2. /\ phase = "scan" /\ Input \in 1 .. Len(page) /\ page[Input] = <<"input", Name>>
          /\ Name \in Field /\ Value = Input + 1 /\ Value \in 1 .. Len(page)
          /\ page[Value] = <<"value", page[Value][2]>> /\ page[Value][2] # Blank
      BY <2>15, <3>1
    <3>3. page[Value][2] \in STRING /\ Len(page) \in Nat /\ DOMAIN page = 1 .. Len(page)
      BY <2>9, <3>2
    <3>4. fields_' \in [Field -> STRING \cup {Blank}] /\ p' \in Nat
      BY <2>old, <3>1, <3>2, <3>3
    <3>5. fields_'[Name] = page[Value][2] /\ \A f \in Field \ {Name} : fields_'[f] = fields_[f]
      BY <2>old, <3>1, <3>2
    <3>6. ASSUME NEW f \in Field, fields_'[f] # Blank PROVE Says(page, f, fields_'[f])
      <4>1. CASE f = Name
        <5>1. Input \in 1 .. Len(page) - 1 /\ page[Input] = <<"input", f>>
              /\ page[Input + 1] = <<"value", fields_'[f]>>
          BY <3>2, <3>3, <3>5, <4>1
        <5>2. QED
          BY <5>1 DEF Says
      <4>2. CASE f # Name
        BY <2>9, <3>2, <3>5, <3>6, <4>2
      <4>3. QED
        BY <4>1, <4>2
    <3>7. ASSUME page \in Page, NEW i \in DOMAIN page, NEW f \in Field, i < p',
                 page[i] = <<"input", f>>
          PROVE  fields_'[f] # Blank
      <4>1. CASE f = Name
        BY <3>2, <3>5, <4>1
      <4>2. CASE f # Name
        <5>1. i # Input
          BY <3>2, <3>7, <4>2
        <5>2. i # Value
          BY <3>2, <3>7
        <5>3. i < Input
          BY <3>1, <3>2, <3>3, <3>7, <5>1, <5>2
        <5>4. QED
          BY <2>11, <3>2, <3>5, <3>7, <4>2, <5>3 DEF FoundBefore
      <4>3. QED
        BY <4>1, <4>2
    <3>8. page \in Page => FoundBefore(p)'
      BY <3>1, <3>7 DEF FoundBefore
    <3>9. \A f \in Field : Says(page, f, fields_[f])' <=> Says(page, f, fields_'[f])
      BY <3>1 DEF Says
    <3>10. QED
      BY <2>old, <2>9, <3>1, <3>2, <3>4, <3>6, <3>8, <3>9 DEF PollInv, Scans, Operation
  <2>17. CASE ValueCutOff
    <3>1. /\ Known /\ Value # Npos(page) /\ page[Value][1] = "value..."
          /\ p' = Npos(page) /\ UNCHANGED <<phase, result, page, fields_>>
      BY <2>17 DEF ValueCutOff, Moves
    <3>2. phase = "scan" /\ Value \in 1 .. Len(page)
      BY <2>15, <3>1
    <3>3. page \notin Page
      BY <2>whole, <3>1, <3>2
    <3>4. p' \in Nat
      BY <2>9, <2>11, <3>1, <3>2
    <3>5. QED
      BY <2>10, <3>1, <3>2, <3>3, <3>4
  <2>18. CASE NoValue
    <3>1. phase = "scan" /\ p' = p /\ UNCHANGED <<phase, result, page, fields_>>
      BY <2>15, <2>18 DEF NoValue, Moves
    <3>2. FoundBefore(p) => FoundBefore(p)'
      BY <3>1 DEF FoundBefore
    <3>3. QED
      BY <2>old, <2>9, <2>10, <3>1, <3>2
  \* At the end of the form of a whole page no known name is left.
  <2>19. CASE FormEnds
    <3>1. phase = "scan" /\ phase' = "send" /\ p >= endform /\ UNCHANGED <<p, result, page, fields_>>
      BY <2>19 DEF FormEnds
    <3>2. ASSUME page \in Page, NEW i \in DOMAIN page, NEW f \in Field, page[i] = <<"input", f>>
          PROVE  fields_[f] # Blank
      <4>1. i < endform
        BY <3>2 DEF LivePages, endform
      <4>2. i < p
        <5>1. i \in Nat /\ Len(page) \in Nat
          BY <2>9, <3>1, <3>2
        <5>2. Find({"form"}, page, 1) \in Nat
          BY <5>1, <1>find DEF Npos
        <5>3. endform \in Nat
          BY <5>1, <5>2, <1>find DEF Npos, endform
        <5>4. QED
          BY <2>old, <3>1, <4>1, <5>1, <5>3
      <4>3. QED
        BY <2>9, <3>1, <3>2, <4>2 DEF FoundBefore
    <3>3. page \in Page => FoundBefore(Npos(page))
      BY <3>2 DEF FoundBefore
    <3>4. QED
      BY <2>old, <2>10, <3>1, <3>3
  <2>20. CASE SendData
    BY <2>20, <2>old DEF SendData, PollInv, Scans, Operation
  <2>21. QED
    BY <2>2, <2>4, <2>5, <2>7, <2>8, <2>12, <2>13, <2>14, <2>16, <2>17, <2>18, <2>19, <2>20
    DEF Next, Handler, Scan
\* At the end of the scan that is what the station is told.
<1>3. PollInv => LineTrue
  <2> SUFFICES ASSUME PollInv, phase = "send", NEW f \in Field
               PROVE  IF fields_[f] # Blank THEN Says(page, f, fields_[f])
                      ELSE page \in Page => \A i \in DOMAIN page : page[i] # <<"input", f>>
    BY DEF LineTrue
  <2>1. fields_[f] # Blank => Says(page, f, fields_[f])
    BY DEF PollInv, Scans
  <2>2. ASSUME page \in Page, NEW i \in DOMAIN page, page[i] = <<"input", f>>
        PROVE  fields_[f] # Blank
    <3>1. i < Npos(page)
      <4>1. page \in Seq({"form", "input", "value", "/form"} \X STRING)
        BY <2>2, PageAssumption DEF PageAssumption
      <4>2. QED
        BY <2>2, <4>1 DEF Npos
    <3>2. QED
      BY <2>2, <3>1 DEF PollInv, FoundBefore
  <2>3. QED
    BY <2>1, <2>2
<1>4. QED
  BY <1>1, <1>2, <1>3, PTL DEF Spec
=============================================================================
