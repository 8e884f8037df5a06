-------------------------- MODULE ConfigFileProofs --------------------------
(***************************************************************************)
(* Theorems about ConfigFile, for every file and every size of the stdio   *)
(* buffer.  Where fclose() leaves the common offset alone, the parent has  *)
(* used exactly the first Used lines, and the headers among them are those *)
(* the processes serve: Progress, the inductive invariant.  The run        *)
(* doc_sections shows what becomes of it where fclose() does not.          *)
(***************************************************************************)
EXTENDS ConfigFile, SequenceTheorems, TLAPS

Used == offset - Len(buffer[Parent])
Born == {r \in Reader : parsing[r] # "unborn"}

Progress ==
  /\ \A k \in 1 .. Len(buffer[Parent]) : buffer[Parent][k] = Used + k
  /\ Parent \in Born
  /\ \A r \in Reader \ Born : section[r] = 0
  /\ \A r \in Born : section[r] <= Used /\ (r # Parent => section[r] # 0)
  /\ \A q, r \in Born : q # r => section[q] # section[r]
  /\ \A n \in Header : n <= Used => \E r \in Born : section[r] = n
  /\ section[Parent] = 0 => Born = {Parent}
  /\ parsing[Parent] \in {"arguments", "parsed"} => Used = Len(lines)
  /\ parsing[Parent] # "left"

----------------------------------------------------------------------------
LEMMA InitType == FileAssumption /\ Init => TypeOK
<1>. SUFFICES ASSUME FileAssumption, Init PROVE TypeOK
  OBVIOUS
<1>1. lines \in Files /\ lines \in Seq(Line) /\ Len(lines) \in Nat
  BY LenProperties DEF Init, FileAssumption
<1>2. Parent \in Reader
  BY DEF Parent, Reader, FileAssumption
<1>3. buffer \in [Reader -> Seq(1 .. Len(lines))]
  BY EmptySeq DEF Init
<1>4. <<BeforeFile>> \in Seq(0 .. Len(lines) + 1) /\ <<>> \in Seq(0 .. Len(lines) + 1)
  BY <1>1, EmptySeq DEF BeforeFile
<1>5. options \in [Reader -> Seq(0 .. Len(lines) + 1)]
  BY <1>4 DEF Init
<1>6. section \in [Reader -> 0 .. Len(lines)] /\ offset \in 0 .. Len(lines)
  BY <1>1 DEF Init
<1>7. parsing \in [Reader -> {"unborn", "reading", "left", "arguments", "parsed", "exited"}]
  BY DEF Init
<1>. QED BY <1>1, <1>3, <1>5, <1>6, <1>7 DEF TypeOK

(* The head of the parent's buffer is the next line of the file. *)
LEMMA HeadOfBuffer ==
  ASSUME FileAssumption, TypeOK, buffer[Parent] # <<>>
  PROVE  /\ Head(buffer[Parent]) \in 1 .. Len(lines)
         /\ Head(buffer[Parent]) = buffer[Parent][1]
         /\ Unread \in Seq(1 .. Len(lines))
         /\ Len(Unread) = Len(buffer[Parent]) - 1 /\ Len(buffer[Parent]) \in Nat \ {0}
         /\ \A k \in 1 .. Len(Unread) : Unread[k] = buffer[Parent][k + 1]
<1>1. buffer[Parent] \in Seq(1 .. Len(lines))
  BY DEF TypeOK, Parent, Reader, FileAssumption
<1>. DEFINE b == buffer[Parent]
<1>2. /\ Head(b) \in 1 .. Len(lines) /\ Tail(b) \in Seq(1 .. Len(lines))
      /\ Len(Tail(b)) = Len(b) - 1 /\ \A k \in 1 .. Len(Tail(b)) : Tail(b)[k] = b[k + 1]
  BY <1>1, HeadTailProperties
<1>3. Len(b) \in Nat \ {0} /\ Head(b) = b[1]
  BY <1>1, EmptySeq
<1>. QED BY <1>2, <1>3 DEF Unread

(* What one read() puts into the buffer. *)
LEMMA Filled ==
  ASSUME FileAssumption, TypeOK, Fill
  PROVE  \E n \in Nat :
           /\ n <= Len(lines) - offset /\ offset' = offset + n /\ buffer[Parent] = <<>>
           /\ buffer' = [buffer EXCEPT ![Parent] = [k \in 1 .. n |-> offset + k]]
           /\ [k \in 1 .. n |-> offset + k] \in Seq(1 .. Len(lines))
           /\ Len([k \in 1 .. n |-> offset + k]) = n
<1>. DEFINE n == IF Block < Len(lines) - offset THEN Block ELSE Len(lines) - offset
<1>1. lines \in Seq(Line) /\ Len(lines) \in Nat /\ offset \in 0 .. Len(lines)
  BY LenProperties DEF TypeOK, FileAssumption
<1>2. n \in Nat /\ n <= Len(lines) - offset
  BY <1>1 DEF FileAssumption
<1>3. /\ offset' = offset + n /\ buffer[Parent] = <<>>
      /\ buffer' = [buffer EXCEPT ![Parent] = [k \in 1 .. n |-> offset + k]]
  BY DEF Fill
<1>. HIDE DEF n
<1>. DEFINE block == [k \in 1 .. n |-> offset + k]
<1>4. block \in [1 .. n -> 1 .. Len(lines)]
  BY <1>1, <1>2
<1>5. block \in Seq(1 .. Len(lines))
  BY <1>2, <1>4, SeqDef
<1>6. Len(block) = n
  BY <1>2, <1>5
<1>. QED BY <1>2, <1>3, <1>5, <1>6

LEMMA NextType == FileAssumption /\ TypeOK /\ [Next]_vars => TypeOK'
<1>. SUFFICES ASSUME FileAssumption, TypeOK, [Next]_vars PROVE TypeOK'
  OBVIOUS
<1>0. /\ lines \in Seq(Line) /\ Len(lines) \in Nat /\ Parent \in Reader
      /\ <<>> \in Seq(0 .. Len(lines) + 1) /\ <<>> \in Seq(1 .. Len(lines))
  BY LenProperties, EmptySeq DEF TypeOK, FileAssumption, Parent, Reader
<1>1. CASE Fill
  <2>1. PICK n \in Nat :
          /\ n <= Len(lines) - offset /\ offset' = offset + n
          /\ buffer' = [buffer EXCEPT ![Parent] = [k \in 1 .. n |-> offset + k]]
          /\ [k \in 1 .. n |-> offset + k] \in Seq(1 .. Len(lines))
    BY <1>1, Filled
  <2>2. UNCHANGED <<lines, section, options, parsing>>
    BY <1>1 DEF Fill
  <2>3. buffer' \in [Reader -> Seq(1 .. Len(lines))]
    BY <2>1 DEF TypeOK
  <2>4. offset' \in 0 .. Len(lines)
    BY <1>0, <2>1 DEF TypeOK
  <2>. QED BY <2>2, <2>3, <2>4 DEF TypeOK
<1>2. CASE FirstSection
  <2>1. Head(buffer[Parent]) \in 1 .. Len(lines) /\ Unread \in Seq(1 .. Len(lines))
    BY <1>2, HeadOfBuffer DEF FirstSection, Reading
  <2>. QED BY <1>0, <1>2, <2>1 DEF TypeOK, FirstSection
<1>3. CASE Option
  <2>1. Head(buffer[Parent]) \in 0 .. Len(lines) + 1 /\ Unread \in Seq(1 .. Len(lines))
    BY <1>0, <1>3, HeadOfBuffer DEF Option, Reading
  <2>2. options[Parent] \in Seq(0 .. Len(lines) + 1)
    BY <1>0 DEF TypeOK
  <2>3. Append(options[Parent], Head(buffer[Parent])) \in Seq(0 .. Len(lines) + 1)
    BY <2>1, <2>2
  <2>. QED BY <1>3, <2>1, <2>3 DEF TypeOK, Option
<1>4. CASE Fails
  BY <1>4 DEF TypeOK, Fails
<1>5. CASE EndOfFile
  BY <1>5 DEF TypeOK, EndOfFile
<1>6. ASSUME NEW r \in Reader, r # Parent, NextSection(r) PROVE TypeOK'
  <2>1. Head(buffer[Parent]) \in 1 .. Len(lines) /\ Unread \in Seq(1 .. Len(lines))
    BY <1>6, HeadOfBuffer DEF NextSection, Reading
  <2>2. buffer' \in [Reader -> Seq(1 .. Len(lines))]
    BY <1>6, <2>1 DEF TypeOK, NextSection
  <2>3. section' \in [Reader -> 0 .. Len(lines)]
    <3>1. /\ section' = [section EXCEPT ![r] = section[Parent], ![Parent] = Head(buffer[Parent])]
          /\ section \in [Reader -> 0 .. Len(lines)]
      BY <1>6 DEF TypeOK, NextSection
    <3>2. section[Parent] \in 0 .. Len(lines) /\ Head(buffer[Parent]) \in 0 .. Len(lines)
      BY <1>0, <2>1, <3>1
    <3>. QED BY <3>1, <3>2
  <2>4. options' \in [Reader -> Seq(0 .. Len(lines) + 1)]
    BY <1>0, <1>6 DEF TypeOK, NextSection
  <2>. QED BY <1>6, <2>2, <2>3, <2>4 DEF TypeOK, NextSection
<1>7. ASSUME NEW r \in Reader, r # Parent, Fclose(r) PROVE TypeOK'
  <2>1. Len(buffer[r]) \in Nat
    BY LenProperties DEF TypeOK
  <2>2. offset' \in 0 .. Len(lines)
    BY <1>0, <1>7, <2>1 DEF TypeOK, Fclose
  <2>. QED BY <1>0, <1>7, <2>2 DEF TypeOK, Fclose
<1>8. ASSUME NEW r \in Reader, Arguments(r) PROVE TypeOK'
  <2>1. options[r] \in Seq(0 .. Len(lines) + 1) /\ AfterFile \in 0 .. Len(lines) + 1
    BY <1>0 DEF TypeOK, AfterFile
  <2>2. Append(options[r], AfterFile) \in Seq(0 .. Len(lines) + 1)
    BY <2>1
  <2>. QED BY <1>8, <2>2 DEF TypeOK, Arguments
<1>9. CASE UNCHANGED vars
  BY <1>9 DEF TypeOK, vars
<1>. QED BY <1>1, <1>2, <1>3, <1>4, <1>5, <1>6, <1>7, <1>8, <1>9 DEF Next

(* Every variable of ConfigFile keeps its type, whatever fclose() does. *)
THEOREM FileTypeCorrect == ASSUME FileAssumption PROVE Spec => []TypeOK
BY InitType, NextType, PTL DEF Spec

----------------------------------------------------------------------------
LEMMA NothingUsed ==
  ASSUME buffer[Parent] = <<>>, offset = 0 PROVE Len(buffer[Parent]) = 0 /\ Used = 0
<1>1. Len(<<>>) = 0
  BY EmptySeq
<1>2. Len(buffer[Parent]) = 0
  BY <1>1, Zenon
<1>3. offset - Len(buffer[Parent]) = 0 - 0
  BY <1>2, Zenon
<1>4. 0 - 0 = 0
  OBVIOUS
<1>. QED BY <1>2, <1>3, <1>4, Zenon DEF Used

LEMMA InitProgress == FileAssumption /\ Init => Progress
<1>. SUFFICES ASSUME FileAssumption, Init PROVE Progress
  OBVIOUS
<1>1. Parent \in Reader /\ Born = {Parent}
  BY DEF Parent, Reader, FileAssumption, Init, Born
<1>2. buffer[Parent] = <<>> /\ offset = 0
  BY <1>1 DEF Init
<1>5. Len(buffer[Parent]) = 0 /\ Used = 0
  BY <1>2, NothingUsed
<1>3. \A n \in Header : ~(n <= 0)
  BY LenProperties DEF Header, Init, FileAssumption
<1>4. \A r \in Reader : section[r] = 0
  BY DEF Init
<1>. QED BY <1>1, <1>3, <1>4, <1>5 DEF Progress, Init

(* Steps that leave the parent's buffer and the processes alone. *)
LEMMA ProgressKept ==
  ASSUME TypeOK, Progress, UNCHANGED <<lines, section>>, Used' = Used, Born' = Born,
         \A k \in 1 .. Len(buffer'[Parent]) : buffer'[Parent][k] = Used + k,
         parsing'[Parent] \in {"arguments", "parsed"} => Used = Len(lines),
         parsing'[Parent] # "left"
  PROVE  Progress'
<1>1. Header' = Header
  BY DEF Header
<1>2. \A k \in 1 .. Len(buffer'[Parent]) : buffer'[Parent][k] = Used' + k
  OBVIOUS
<1>3. /\ Parent \in Born' /\ \A r \in Reader \ Born' : section'[r] = 0
      /\ \A r \in Born' : section'[r] <= Used' /\ (r # Parent => section'[r] # 0)
      /\ \A q, r \in Born' : q # r => section'[q] # section'[r]
      /\ section'[Parent] = 0 => Born' = {Parent}
  BY DEF Progress
<1>4. \A n \in Header' : n <= Used' => \E r \in Born' : section'[r] = n
  BY <1>1 DEF Progress
<1>5. parsing'[Parent] \in {"arguments", "parsed"} => Used' = Len(lines')
  OBVIOUS
<1>. QED BY <1>2, <1>3, <1>4, <1>5 DEF Progress

(* Taking a line out of the parent's buffer. *)
LEMMA HeadUsed ==
  ASSUME FileAssumption, TypeOK, Progress,
         buffer[Parent] # <<>>, UNCHANGED offset, buffer'[Parent] = Unread
  PROVE  /\ Used' = Used + 1 /\ Head(buffer[Parent]) = Used + 1
         /\ \A k \in 1 .. Len(buffer'[Parent]) : buffer'[Parent][k] = Used' + k
<1>0. Len(buffer[Parent]) \in Nat /\ offset \in Nat
  BY LenProperties DEF TypeOK, FileAssumption, Parent, Reader
<1>1. /\ Head(buffer[Parent]) = buffer[Parent][1]
      /\ Len(Unread) = Len(buffer[Parent]) - 1 /\ Len(buffer[Parent]) \in Nat \ {0}
      /\ \A k \in 1 .. Len(Unread) : Unread[k] = buffer[Parent][k + 1]
  BY HeadOfBuffer
<1>2. Used' = Used + 1
  BY <1>0, <1>1 DEF Used
<1>3. Head(buffer[Parent]) = Used + 1
  BY <1>1 DEF Progress
<1>4. ASSUME NEW k \in 1 .. Len(Unread) PROVE Unread[k] = Used' + k
  <2>1. k + 1 \in 1 .. Len(buffer[Parent])
    BY <1>1
  <2>2. buffer[Parent][k + 1] = Used + (k + 1)
    BY <2>1 DEF Progress
  <2>3. Used \in Int /\ Used' = Used + 1 /\ k \in Int
    BY <1>0, <1>1, <1>2 DEF Used
  <2>. HIDE DEF Used
  <2>. QED BY <1>1, <2>2, <2>3
<1>. QED BY <1>2, <1>3, <1>4

LEMMA NextProgress ==
  FileAssumption /\ ~FcloseSeeks /\ TypeOK /\ Progress /\ [Next]_vars => Progress'
<1>. SUFFICES ASSUME FileAssumption, ~FcloseSeeks, TypeOK, Progress, [Next]_vars PROVE Progress'
  OBVIOUS
<1>0. /\ lines \in Seq(Line) /\ Len(lines) \in Nat /\ Parent \in Reader
      /\ offset \in 0 .. Len(lines) /\ buffer \in [Reader -> Seq(1 .. Len(lines))]
      /\ Len(buffer[Parent]) \in Nat /\ section \in [Reader -> 0 .. Len(lines)]
      /\ parsing \in [Reader -> {"unborn", "reading", "left", "arguments", "parsed", "exited"}]
  BY LenProperties DEF TypeOK, FileAssumption, Parent, Reader
<1>00. Used \in Int /\ Used <= Len(lines)
  BY <1>0 DEF Used
<1>1. CASE Fill
  <2>1. PICK n \in Nat :
          /\ n <= Len(lines) - offset /\ offset' = offset + n /\ buffer[Parent] = <<>>
          /\ buffer' = [buffer EXCEPT ![Parent] = [k \in 1 .. n |-> offset + k]]
          /\ Len([k \in 1 .. n |-> offset + k]) = n
    BY <1>1, Filled
  <2>2. buffer'[Parent] = [k \in 1 .. n |-> offset + k]
    BY <1>0, <2>1
  <2>3. Used = offset /\ Used' = Used
    BY <1>0, <2>1, <2>2, EmptySeq DEF Used
  <2>4. \A k \in 1 .. Len(buffer'[Parent]) : buffer'[Parent][k] = Used + k
    BY <2>1, <2>2, <2>3
  <2>5. UNCHANGED <<lines, section, parsing>> /\ parsing[Parent] = "reading"
    BY <1>1 DEF Fill
  <2>6. Born' = Born
    BY <2>5 DEF Born
  <2>. QED BY <2>3, <2>4, <2>5, <2>6, ProgressKept
<1>2. ASSUME buffer[Parent] # <<>>, UNCHANGED offset, buffer'[Parent] = Unread
      PROVE  /\ Used' = Used + 1 /\ Head(buffer[Parent]) = Used + 1
             /\ \A k \in 1 .. Len(buffer'[Parent]) : buffer'[Parent][k] = Used' + k
  BY <1>2, HeadUsed
<1>3. CASE FirstSection
  <2>. DEFINE h == Head(buffer[Parent])
  <2>1. /\ buffer[Parent] # <<>> /\ UNCHANGED <<offset, lines, parsing>> /\ section[Parent] = 0
        /\ parsing[Parent] = "reading" /\ lines[h] = "section"
    BY <1>3 DEF FirstSection, Reading
  <2>2. buffer'[Parent] = Unread /\ section' = [section EXCEPT ![Parent] = h]
    BY <1>0, <1>3 DEF FirstSection
  <2>3. /\ Used' = Used + 1 /\ h = Used + 1
        /\ \A k \in 1 .. Len(buffer'[Parent]) : buffer'[Parent][k] = Used' + k
    BY <1>2, <2>1, <2>2
  <2>4. Born = {Parent} /\ Born' = {Parent}
    BY <2>1 DEF Progress, Born
  <2>5. section'[Parent] = h /\ \A r \in Reader \ Born' : section'[r] = 0
    BY <1>0, <2>2, <2>4 DEF Progress
  <2>6. h # 0
    BY <2>1, HeadOfBuffer
  <2>7. \A n \in Header : n <= Used => FALSE
    BY <2>1, <2>4 DEF Progress, Header
  <2>8. \A n \in Header' : n <= Used' => section'[Parent] = n
    BY <1>00, <2>1, <2>3, <2>5, <2>7 DEF Header
  <2>. QED BY <1>00, <2>1, <2>3, <2>4, <2>5, <2>6, <2>8 DEF Progress
<1>4. CASE Option
  <2>. DEFINE h == Head(buffer[Parent])
  <2>1. /\ buffer[Parent] # <<>> /\ UNCHANGED <<offset, lines, section, parsing>>
        /\ parsing[Parent] = "reading" /\ lines[h] = "option"
    BY <1>4 DEF Option, Reading
  <2>2. buffer'[Parent] = Unread
    BY <1>0, <1>4 DEF Option
  <2>3. /\ Used' = Used + 1 /\ h = Used + 1
        /\ \A k \in 1 .. Len(buffer'[Parent]) : buffer'[Parent][k] = Used' + k
    BY <1>2, <2>1, <2>2
  <2>4. Born' = Born
    BY <2>1 DEF Born
  <2>5. \A n \in Header' : n <= Used' => n \in Header /\ n <= Used
    BY <1>0, <1>00, <2>1, <2>3 DEF Header
  <2>6. \A r \in Born : section[r] <= Used'
    BY <1>0, <1>00, <2>3 DEF Progress, Born
  <2>. QED BY <2>1, <2>3, <2>4, <2>5, <2>6 DEF Progress
<1>5. CASE Fails \/ EndOfFile
  <2>1. /\ UNCHANGED <<lines, offset, buffer, section>> /\ parsing[Parent] = "reading"
        /\ \E e \in {"exited", "arguments"} : parsing' = [parsing EXCEPT ![Parent] = e]
        /\ parsing'[Parent] = "arguments" => buffer[Parent] = <<>> /\ offset = Len(lines)
    BY <1>0, <1>5 DEF Fails, EndOfFile, Reading
  <2>2. Used' = Used
    BY <2>1 DEF Used
  <2>3. Born' = Born
    BY <1>0, <2>1 DEF Born
  <2>4. parsing'[Parent] \in {"exited", "arguments"}
    BY <1>0, <2>1
  <2>5. parsing'[Parent] = "arguments" => Used = Len(lines)
    BY <1>0, <2>1, EmptySeq DEF Used
  <2>6. \A k \in 1 .. Len(buffer'[Parent]) : buffer'[Parent][k] = Used + k
    BY <2>1 DEF Progress
  <2>. QED BY <2>1, <2>2, <2>3, <2>4, <2>5, <2>6, ProgressKept
<1>6. ASSUME NEW c \in Reader, c # Parent, NextSection(c) PROVE Progress'
  <2>. DEFINE h == Head(buffer[Parent])
  <2>1. /\ buffer[Parent] # <<>> /\ UNCHANGED <<offset, lines>> /\ section[Parent] # 0
        /\ parsing[Parent] = "reading" /\ lines[h] = "section" /\ parsing[c] = "unborn"
        /\ parsing' = [parsing EXCEPT ![c] = "left"]
    BY <1>6 DEF NextSection, Reading
  <2>2. /\ buffer'[Parent] = Unread
        /\ section' = [section EXCEPT ![c] = section[Parent], ![Parent] = h]
    BY <1>0, <1>6 DEF NextSection
  <2>3. /\ Used' = Used + 1 /\ h = Used + 1
        /\ \A k \in 1 .. Len(buffer'[Parent]) : buffer'[Parent][k] = Used' + k
    BY <1>2, <2>1, <2>2
  <2>4. c \notin Born /\ Born' = Born \cup {c}
    BY <1>0, <1>6, <2>1 DEF Born
  <2>5. Parent \in Born /\ Parent \in Born' /\ parsing'[Parent] = "reading"
    BY <1>0, <1>6, <2>1, <2>4 DEF Progress
  <2>6. /\ section'[Parent] = h /\ section'[c] = section[Parent]
        /\ \A r \in Reader \ {c, Parent} : section'[r] = section[r]
    BY <1>0, <1>6, <2>2
  <2>7. \A r \in Reader \ Born' : section'[r] = 0
    BY <2>4, <2>5, <2>6 DEF Progress
  <2>8. \A r \in Born : section[r] \in Int /\ section[r] <= Used
    BY <1>0 DEF Progress, Born
  <2>9. \A r \in Born' : section'[r] <= Used' /\ section'[r] # 0
    <3>. SUFFICES ASSUME NEW r \in Born' PROVE section'[r] <= Used' /\ section'[r] # 0
      OBVIOUS
    <3>1. r \in Reader
      BY DEF Born
    <3>2. CASE r = Parent
      <4>1. h # 0
        BY <2>1, HeadOfBuffer
      <4>. QED BY <1>00, <2>3, <2>6, <3>2, <4>1
    <3>3. CASE r = c
      BY <1>00, <2>1, <2>3, <2>5, <2>6, <2>8, <3>3
    <3>4. CASE r \notin {c, Parent}
      BY <1>00, <2>3, <2>4, <2>6, <2>8, <3>1, <3>4 DEF Progress
    <3>. QED BY <3>2, <3>3, <3>4
  <2>10. \A q, r \in Born' : q # r => section'[q] # section'[r]
    <3>1. \A r \in Born' \ {Parent} : section'[r] # h
      BY <1>00, <2>3, <2>4, <2>5, <2>6, <2>8 DEF Born
    <3>2. \A r \in Born' \ {Parent, c} : section'[r] = section[r] /\ section[r] # section[Parent]
      BY <2>4, <2>5, <2>6 DEF Progress, Born
    <3>3. \A q, r \in Born' \ {Parent, c} : q # r => section'[q] # section'[r]
      BY <2>4, <3>2 DEF Progress
    <3>. QED BY <2>6, <3>1, <3>2, <3>3
  <2>11. \A n \in Header' : n <= Used' => \E r \in Born' : section'[r] = n
    <3>. SUFFICES ASSUME NEW n \in Header, n <= Used' PROVE \E r \in Born' : section'[r] = n
      BY <2>1 DEF Header
    <3>1. CASE n = Used + 1
      BY <2>3, <2>5, <2>6, <3>1
    <3>2. CASE n # Used + 1
      <4>1. n <= Used
        BY <1>00, <2>3, <3>2 DEF Header
      <4>2. PICK r \in Born : section[r] = n
        BY <4>1 DEF Progress
      <4>3. CASE r = Parent
        BY <2>4, <2>6, <4>2, <4>3
      <4>4. CASE r # Parent
        BY <2>4, <2>6, <4>2, <4>4 DEF Born
      <4>. QED BY <4>3, <4>4
    <3>. QED BY <3>1, <3>2
  <2>. QED BY <2>3, <2>5, <2>7, <2>9, <2>10, <2>11 DEF Progress
<1>7. ASSUME NEW c \in Reader, c # Parent, Fclose(c) PROVE Progress'
  <2>1. /\ UNCHANGED <<lines, offset, section>> /\ parsing[c] = "left"
        /\ buffer'[Parent] = buffer[Parent] /\ parsing'[Parent] = parsing[Parent]
        /\ parsing' = [parsing EXCEPT ![c] = "arguments"]
    BY <1>0, <1>7 DEF Fclose
  <2>2. Used' = Used
    BY <2>1 DEF Used
  <2>3. Born' = Born
    BY <1>0, <2>1 DEF Born
  <2>4. /\ \A k \in 1 .. Len(buffer'[Parent]) : buffer'[Parent][k] = Used + k
        /\ parsing'[Parent] \in {"arguments", "parsed"} => Used = Len(lines)
        /\ parsing'[Parent] # "left"
    BY <2>1 DEF Progress
  <2>. QED BY <2>1, <2>2, <2>3, <2>4, ProgressKept
<1>8. ASSUME NEW r \in Reader, Arguments(r) PROVE Progress'
  <2>1. /\ UNCHANGED <<lines, offset, buffer, section>> /\ parsing[r] = "arguments"
        /\ parsing' = [parsing EXCEPT ![r] = "parsed"]
    BY <1>8 DEF Arguments
  <2>2. Used' = Used
    BY <2>1 DEF Used
  <2>3. Born' = Born
    BY <1>0, <2>1 DEF Born
  <2>4. /\ \A k \in 1 .. Len(buffer'[Parent]) : buffer'[Parent][k] = Used + k
        /\ parsing'[Parent] \in {"arguments", "parsed"} => Used = Len(lines)
        /\ parsing'[Parent] # "left"
    BY <1>0, <2>1 DEF Progress
  <2>. QED BY <2>1, <2>2, <2>3, <2>4, ProgressKept
<1>9. CASE UNCHANGED vars
  BY <1>9 DEF vars, Progress, Used, Born, Header
<1>. QED BY <1>1, <1>3, <1>4, <1>5, <1>6, <1>7, <1>8, <1>9 DEF Next

LEMMA ProgressSuffices == FileAssumption /\ TypeOK /\ Progress => EverySectionOnce
<1>. SUFFICES ASSUME FileAssumption, TypeOK, Progress PROVE EverySectionOnce
  OBVIOUS
<1>1. \A q, r \in Reader :
        q # r /\ parsing[q] # "unborn" /\ parsing[r] # "unborn" => section[q] # section[r]
  BY DEF Progress, Born
<1>2. ASSUME parsing[Parent] = "parsed", NEW n \in Header
      PROVE  n \in {section[r] : r \in Reader}
  <2>1. n <= Used
    BY <1>2 DEF Progress, Header
  <2>. QED BY <2>1 DEF Progress, Born
<1>. QED BY <1>1, <1>2 DEF EverySectionOnce

(* Where fclose() leaves the offset alone, every section has one instance, *)
(* whatever the file and the size of the buffer.                           *)
THEOREM SectionsServedOnce ==
  ASSUME FileAssumption, ~FcloseSeeks PROVE Spec => []EverySectionOnce
BY InitType, NextType, InitProgress, NextProgress, ProgressSuffices, PTL DEF Spec

----------------------------------------------------------------------------
(* The options of the parent are those of the lines it has used under its  *)
(* header; a process that has left the file took a whole section with it.  *)
Taken(r) ==
  CASE parsing[r] = "reading" ->
         /\ r = Parent
         /\ \A n \in section[r] + 1 .. Used : lines[n] = "option"
         /\ options[r] = Settings(section[r], Used)
    [] parsing[r] \in {"left", "arguments"} ->
         \E last \in 0 .. Len(lines) :
           Section(section[r], last) /\ options[r] = Settings(section[r], last)
    [] parsing[r] = "parsed" ->
         \E last \in 0 .. Len(lines) :
           Section(section[r], last) /\ options[r] = Append(Settings(section[r], last), AfterFile)
    [] OTHER -> TRUE

AllTaken == \A r \in Reader : Taken(r)

LEMMA SettingsStart ==
  /\ Settings(0, 0) = <<BeforeFile>>
  /\ \A h \in Nat \ {0} : Settings(h, h) = <<>>
<1>1. Settings(0, 0) = [k \in 1 .. 1 |-> 0]
  BY DEF Settings, BeforeFile
<1>2. \A h \in Nat \ {0} : Settings(h, h) = [k \in 1 .. 0 |-> h + k]
  BY DEF Settings
<1>. QED BY <1>1, <1>2 DEF BeforeFile

LEMMA SettingsGrow ==
  ASSUME NEW h \in Nat, NEW last \in Nat, h <= last
  PROVE  Append(Settings(h, last), last + 1) = Settings(h, last + 1)
<1>. DEFINE first == IF h = 0 THEN BeforeFile ELSE h + 1
            s == [k \in 1 .. last + 1 - first |-> first + k - 1]
            t == [k \in 1 .. last + 2 - first |-> first + k - 1]
<1>1. first \in Nat /\ first <= last + 1
  BY DEF BeforeFile
<1>2. Settings(h, last) = s /\ Settings(h, last + 1) = t
  BY <1>1 DEF Settings
<1>. HIDE DEF first
<1>3. s \in Seq(Nat) /\ Len(s) = last + 1 - first
  BY <1>1
<1>4. Append(s, last + 1) = [k \in 1 .. Len(s) + 1 |-> IF k = Len(s) + 1 THEN last + 1 ELSE s[k]]
  <2>. HIDE DEF s
  <2>1. /\ Append(s, last + 1) \in Seq(Nat) /\ Len(Append(s, last + 1)) = Len(s) + 1
        /\ \A k \in 1 .. Len(s) : Append(s, last + 1)[k] = s[k]
        /\ Append(s, last + 1)[Len(s) + 1] = last + 1
    BY <1>3, AppendProperties
  <2>. DEFINE a == Append(s, last + 1)
  <2>. HIDE DEF a
  <2>2. Len(s) \in Nat /\ a = [k \in 1 .. Len(s) + 1 |-> a[k]]
    BY <1>1, <1>3, <2>1, LenProperties DEF a
  <2>3. \A k \in 1 .. Len(s) + 1 : a[k] = IF k = Len(s) + 1 THEN last + 1 ELSE s[k]
    BY <2>1, <2>2 DEF a
  <2>4. a = [k \in 1 .. Len(s) + 1 |-> IF k = Len(s) + 1 THEN last + 1 ELSE s[k]]
    BY <2>2, <2>3
  <2>. QED BY <2>4 DEF a
<1>5. \A k \in 1 .. last + 2 - first :
        (IF k = last + 2 - first THEN last + 1 ELSE s[k]) = first + k - 1
  BY <1>1
<1>6. Append(s, last + 1) = t
  BY <1>1, <1>3, <1>4, <1>5
<1>. QED BY <1>2, <1>6

LEMMA InitTaken == FileAssumption /\ Init => AllTaken
<1>. SUFFICES ASSUME FileAssumption, Init, NEW r \in Reader PROVE Taken(r)
  BY DEF AllTaken
<1>1. Progress /\ section[r] = 0 /\ Used \in Int
  BY InitProgress, InitType, LenProperties DEF Init, Used, Progress
<1>2. CASE r = Parent
  <2>1. parsing[r] = "reading" /\ options[r] = <<BeforeFile>> /\ Parent \in Reader
    BY <1>2 DEF Init
  <2>2. buffer[Parent] = <<>> /\ offset = 0
    BY <1>2 DEF Init
  <2>4. Used = 0
    BY <2>2, NothingUsed
  <2>. QED BY <1>1, <1>2, <2>1, <2>4, SettingsStart DEF Taken
<1>3. CASE r # Parent
  BY <1>3 DEF Taken, Init
<1>. QED BY <1>2, <1>3

(* Steps that leave a process alone; of the parent, its place too. *)
LEMMA TakenKept ==
  ASSUME NEW r, Taken(r), UNCHANGED lines,
         section'[r] = section[r], options'[r] = options[r], parsing'[r] = parsing[r],
         r = Parent => Used' = Used
  PROVE  Taken(r)'
<1>1. Header' = Header /\ AfterFile' = AfterFile
  BY DEF Header, AfterFile
<1>2. \A last : Section(section[r], last) <=> Section(section[r], last)'
  BY <1>1 DEF Section
<1>3. \A last : Settings(section[r], last)' = Settings(section[r], last)
  BY DEF Settings
<1>. QED BY <1>1, <1>2, <1>3 DEF Taken

LEMMA NextTaken ==
  FileAssumption /\ ~FcloseSeeks /\ TypeOK /\ Progress /\ AllTaken /\ [Next]_vars => AllTaken'
<1>. SUFFICES ASSUME FileAssumption, ~FcloseSeeks, TypeOK, Progress, AllTaken, [Next]_vars,
                     NEW r \in Reader
              PROVE  Taken(r)'
  BY DEF AllTaken, Reader
<1>0. /\ lines \in Seq(Line) /\ Len(lines) \in Nat /\ Parent \in Reader
      /\ offset \in 0 .. Len(lines) /\ Len(buffer[Parent]) \in Nat
      /\ section \in [Reader -> 0 .. Len(lines)]
      /\ options \in [Reader -> Seq(0 .. Len(lines) + 1)]
      /\ buffer \in [Reader -> Seq(1 .. Len(lines))]
      /\ parsing \in [Reader -> {"unborn", "reading", "left", "arguments", "parsed", "exited"}]
  BY LenProperties DEF TypeOK, FileAssumption, Parent, Reader
<1>00. Used \in Nat /\ Used <= Len(lines) /\ section[Parent] \in Nat /\ section[Parent] <= Used
  BY <1>0 DEF Used, Progress
<1>. DEFINE u == Used
            h == Head(buffer[Parent])
<1>1. Taken(r)
  BY DEF AllTaken
<1>2. CASE Fill
  <2>1. PICK n \in Nat :
          /\ offset' = offset + n /\ buffer[Parent] = <<>>
          /\ buffer' = [buffer EXCEPT ![Parent] = [k \in 1 .. n |-> offset + k]]
          /\ Len([k \in 1 .. n |-> offset + k]) = n
    BY <1>2, Filled
  <2>2. Used' = Used
    BY <1>0, <2>1, EmptySeq DEF Used
  <2>. QED BY <1>1, <1>2, <2>2, TakenKept DEF Fill
<1>3. CASE FirstSection
  <2>1. /\ parsing[Parent] = "reading" /\ UNCHANGED <<lines, parsing>>
        /\ section' = [section EXCEPT ![Parent] = h] /\ options' = [options EXCEPT ![Parent] = <<>>]
        /\ buffer[Parent] # <<>> /\ UNCHANGED offset /\ buffer'[Parent] = Unread
    BY <1>0, <1>3 DEF FirstSection, Reading
  <2>2. Used' = u + 1 /\ h = u + 1
    BY <2>1, HeadUsed
  <2>3. CASE r = Parent
    <3>1. section'[r] = u + 1 /\ options'[r] = <<>> /\ parsing'[r] = "reading"
      BY <1>0, <2>1, <2>2, <2>3
    <3>2. Settings(u + 1, u + 1) = <<>>
      BY <1>00, SettingsStart
    <3>. HIDE DEF u, h
    <3>. QED BY <1>00, <2>2, <2>3, <3>1, <3>2 DEF Taken, Settings, u
  <2>4. CASE r # Parent
    BY <1>0, <1>1, <2>1, <2>4, TakenKept
  <2>. QED BY <2>3, <2>4
<1>4. CASE Option
  <2>1. /\ parsing[Parent] = "reading" /\ UNCHANGED <<lines, section, parsing>>
        /\ options' = [options EXCEPT ![Parent] = Append(options[Parent], h)]
        /\ buffer[Parent] # <<>> /\ UNCHANGED offset /\ buffer'[Parent] = Unread
        /\ lines[h] = "option"
    BY <1>0, <1>4 DEF Option, Reading
  <2>2. Used' = u + 1 /\ h = u + 1
    BY <2>1, HeadUsed
  <2>3. CASE r = Parent
    <3>1. /\ options[r] = Settings(section[r], u)
          /\ \A n \in section[r] + 1 .. u : lines[n] = "option"
      BY <1>1, <2>1, <2>3 DEF Taken
    <3>2. options'[r] = Append(Settings(section[r], u), u + 1)
      BY <1>0, <2>1, <2>2, <2>3, <3>1
    <3>3. options'[r] = Settings(section[r], u + 1)
      BY <1>00, <2>3, <3>2, SettingsGrow
    <3>4. \A n \in section[r] + 1 .. u + 1 : lines[n] = "option"
      BY <1>00, <2>1, <2>2, <2>3, <3>1
    <3>5. (Settings(section[r], Used))' = Settings(section[r], u + 1)
      BY <2>1, <2>2 DEF Settings
    <3>. HIDE DEF u, h
    <3>. QED BY <2>1, <2>2, <2>3, <3>3, <3>4, <3>5 DEF Taken
  <2>4. CASE r # Parent
    BY <1>0, <1>1, <2>1, <2>4, TakenKept
  <2>. QED BY <2>3, <2>4
<1>5. CASE Fails
  <2>1. UNCHANGED <<lines, offset, buffer, section, options>>
        /\ parsing' = [parsing EXCEPT ![Parent] = "exited"]
    BY <1>5 DEF Fails
  <2>2. Used' = Used
    BY <2>1 DEF Used
  <2>3. CASE r = Parent
    BY <1>0, <2>1, <2>3 DEF Taken
  <2>4. CASE r # Parent
    BY <1>0, <1>1, <2>1, <2>2, <2>4, TakenKept
  <2>. QED BY <2>3, <2>4
<1>6. CASE EndOfFile
  <2>1. /\ UNCHANGED <<lines, offset, buffer, section, options>>
        /\ parsing[Parent] = "reading" /\ parsing' = [parsing EXCEPT ![Parent] = "arguments"]
        /\ buffer[Parent] = <<>> /\ offset = Len(lines)
    BY <1>6 DEF EndOfFile
  <2>2. Used = Len(lines)
    BY <1>0, <2>1, EmptySeq DEF Used
  <2>3. CASE r = Parent
    <3>1. /\ options[r] = Settings(section[r], Len(lines))
          /\ \A n \in section[r] + 1 .. Len(lines) : lines[n] = "option"
      BY <1>1, <2>1, <2>2, <2>3 DEF Taken
    <3>2. Section(section[r], Len(lines))
      BY <1>0, <3>1 DEF Section
    <3>3. Section(section[r], Len(lines))' /\ options'[r] = Settings(section[r], Len(lines))'
      BY <2>1, <3>1, <3>2 DEF Section, Settings, Header
    <3>4. parsing'[r] = "arguments" /\ Len(lines)' = Len(lines)
      BY <1>0, <2>1, <2>3
    <3>. QED BY <1>0, <2>1, <3>3, <3>4 DEF Taken
  <2>4. CASE r # Parent
    BY <1>0, <1>1, <2>1, <2>4, TakenKept
  <2>. QED BY <2>3, <2>4
<1>7. ASSUME NEW c \in Reader, c # Parent, NextSection(c) PROVE Taken(r)'
  <2>1. /\ parsing[Parent] = "reading" /\ UNCHANGED <<lines, offset>> /\ section[Parent] # 0
        /\ parsing' = [parsing EXCEPT ![c] = "left"] /\ lines[h] = "section"
        /\ section' = [section EXCEPT ![c] = section[Parent], ![Parent] = h]
        /\ options' = [options EXCEPT ![c] = options[Parent], ![Parent] = <<>>]
        /\ buffer[Parent] # <<>> /\ buffer'[Parent] = Unread
    BY <1>0, <1>7 DEF NextSection, Reading
  <2>2. Used' = u + 1 /\ h = u + 1 /\ h \in 1 .. Len(lines)
    BY <2>1, HeadUsed, HeadOfBuffer
  <2>3. CASE r = Parent
    <3>1. section'[r] = u + 1 /\ options'[r] = <<>> /\ parsing'[r] = "reading"
      BY <1>0, <1>7, <2>1, <2>2, <2>3
    <3>2. Settings(u + 1, u + 1) = <<>>
      BY <1>00, SettingsStart
    <3>. HIDE DEF u, h
    <3>. QED BY <1>00, <2>2, <2>3, <3>1, <3>2 DEF Taken, Settings, u
  <2>4. CASE r = c
    <3>1. /\ options[Parent] = Settings(section[Parent], u)
          /\ \A n \in section[Parent] + 1 .. u : lines[n] = "option"
      BY <1>0, <2>1 DEF Taken, AllTaken
    <3>2. Section(section[Parent], u)
      BY <1>0, <1>00, <2>1, <2>2, <3>1 DEF Section, Header
    <3>3. section'[r] = section[Parent] /\ options'[r] = options[Parent] /\ parsing'[r] = "left"
      BY <1>0, <1>7, <2>1, <2>4
    <3>. HIDE DEF u, h
    <3>4. PICK last \in 0 .. Len(lines) :
            Section(section[Parent], last) /\ options'[r] = Settings(section[Parent], last)
      BY <1>00, <3>1, <3>2, <3>3 DEF u
    <3>5. Header' = Header /\ Len(lines)' = Len(lines)
      BY <2>1 DEF Header
    <3>6. (Section(section[r], last))' /\ options'[r] = (Settings(section[r], last))'
      BY <2>1, <3>3, <3>4, <3>5 DEF Section, Settings
    <3>. QED BY <3>3, <3>5, <3>6 DEF Taken
  <2>5. CASE r \notin {c, Parent}
    BY <1>0, <1>1, <1>7, <2>1, <2>5, TakenKept
  <2>. QED BY <2>3, <2>4, <2>5
<1>8. ASSUME NEW c \in Reader, c # Parent, Fclose(c) PROVE Taken(r)'
  <2>1. /\ UNCHANGED <<lines, offset, section, options>> /\ parsing[c] = "left"
        /\ buffer'[Parent] = buffer[Parent] /\ parsing' = [parsing EXCEPT ![c] = "arguments"]
    BY <1>0, <1>8 DEF Fclose
  <2>2. Used' = Used
    BY <2>1 DEF Used
  <2>3. CASE r = c
    <3>1. PICK last \in 0 .. Len(lines) :
            Section(section[r], last) /\ options[r] = Settings(section[r], last)
      BY <1>1, <2>1, <2>3 DEF Taken
    <3>2. (Section(section[r], last))' /\ options'[r] = (Settings(section[r], last))'
      BY <2>1, <3>1 DEF Section, Settings, Header
    <3>3. parsing'[r] = "arguments" /\ Len(lines)' = Len(lines)
      BY <1>0, <2>1, <2>3
    <3>. QED BY <3>2, <3>3 DEF Taken
  <2>4. CASE r # c
    BY <1>0, <1>1, <2>1, <2>2, <2>4, TakenKept
  <2>. QED BY <2>3, <2>4
<1>9. ASSUME NEW c \in Reader, Arguments(c) PROVE Taken(r)'
  <2>1. /\ UNCHANGED <<lines, offset, buffer, section>> /\ parsing[c] = "arguments"
        /\ parsing' = [parsing EXCEPT ![c] = "parsed"]
        /\ options' = [options EXCEPT ![c] = Append(options[c], AfterFile)]
    BY <1>9 DEF Arguments
  <2>2. Used' = Used
    BY <2>1 DEF Used
  <2>3. CASE r = c
    <3>1. PICK last \in 0 .. Len(lines) :
            Section(section[r], last) /\ options[r] = Settings(section[r], last)
      BY <1>1, <2>1, <2>3 DEF Taken
    <3>2. /\ (Section(section[r], last))' /\ AfterFile' = AfterFile
          /\ Settings(section[r], last) = (Settings(section[r], last))'
      BY <2>1, <3>1 DEF Section, Settings, Header, AfterFile
    <3>3. /\ parsing'[r] = "parsed" /\ Len(lines)' = Len(lines)
          /\ options'[r] = Append(options[r], AfterFile)
      BY <1>0, <2>1, <2>3
    <3>. QED BY <3>1, <3>2, <3>3 DEF Taken
  <2>4. CASE r # c
    BY <1>0, <1>1, <2>1, <2>2, <2>4, TakenKept
  <2>. QED BY <2>3, <2>4
<1>10. CASE UNCHANGED vars
  <2>1. Used' = Used
    BY <1>10 DEF vars, Used
  <2>. QED BY <1>1, <1>10, <2>1, TakenKept DEF vars
<1>. QED BY <1>2, <1>3, <1>4, <1>5, <1>6, <1>7, <1>8, <1>9, <1>10 DEF Next

(* Where fclose() leaves the offset alone, every instance has the options  *)
(* of its own section, all of them, in order and once, whatever the file   *)
(* and wherever the buffer ends when a child is forked.                    *)
THEOREM SectionsKeepTheirOptions ==
  ASSUME FileAssumption, ~FcloseSeeks PROVE Spec => []OwnOptions
<1>1. AllTaken => OwnOptions
  BY DEF AllTaken, Taken, OwnOptions
<1>. QED
  BY <1>1, InitType, NextType, InitProgress, NextProgress, InitTaken, NextTaken, PTL DEF Spec
=============================================================================
