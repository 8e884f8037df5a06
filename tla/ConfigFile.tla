----------------------------- MODULE ConfigFile -----------------------------
(***************************************************************************)
(* How config.c reads a configuration file with several sections: at every *)
(* header but the first it forks, the child leaves with the section read   *)
(* so far, and the parent goes on to the next one.                         *)
(*                                                                         *)
(* Parent and children share one open file.  Each has a copy of the stdio  *)
(* buffer as it was at the fork; the offset of the file is common to all.  *)
(* POSIX asks of fclose() on an input stream that it set this offset to    *)
(* where the reader is, before what it has buffered and not used: musl     *)
(* does so, glibc for long did not.  FcloseSeeks says what the C library   *)
(* does; a line is never split between two blocks here.                    *)
(***************************************************************************)
EXTENDS Integers, Sequences

CONSTANTS Files,             \* the files to look at
          Block,             \* lines the buffer holds
          FcloseSeeks,       \* fclose() moves the common offset back
          MaxForks           \* bound of the model only

Line == {"section", "option", "invalid"}

(* Assumed of the constants, by the module that gives them their values. *)
FileAssumption ==
  /\ Files \subseteq Seq(Line)
  /\ Block \in Nat \ {0} /\ FcloseSeeks \in BOOLEAN /\ MaxForks \in Nat

Parent == 0
Reader == 0 .. MaxForks      \* the parent, and its children as they are forked

VARIABLES lines,             \* the file
          offset,            \* lines the kernel has handed out of it
          buffer,            \* reader -> numbers of the lines it holds and has not used
          section,           \* reader -> the header it serves the section of, 0 for none
          options,           \* reader -> where its settings come from, in order:
                             \* lines, or the arguments before and after -c
          parsing            \* reader -> "unborn", "reading", "left", "arguments",
                             \* "parsed"; "exited" after an error
vars == <<lines, offset, buffer, section, options, parsing>>

BeforeFile == 0
AfterFile == Len(lines) + 1

(* Every variable has its type. *)
TypeOK ==
  /\ lines \in Files /\ offset \in 0 .. Len(lines)
  /\ buffer \in [Reader -> Seq(1 .. Len(lines))]
  /\ section \in [Reader -> 0 .. Len(lines)]
  /\ options \in [Reader -> Seq(0 .. Len(lines) + 1)]
  /\ parsing \in [Reader -> {"unborn", "reading", "left", "arguments", "parsed", "exited"}]

Init ==
  /\ lines \in Files /\ offset = 0
  /\ buffer = [r \in Reader |-> <<>>]
  /\ section = [r \in Reader |-> 0]
  /\ options = [r \in Reader |-> IF r = Parent THEN <<BeforeFile>> ELSE <<>>]
  /\ parsing = [r \in Reader |-> IF r = Parent THEN "reading" ELSE "unborn"]

----------------------------------------------------------------------------
(* The parent reads.                                                       *)
Reading(kind) ==
  /\ parsing[Parent] = "reading" /\ buffer[Parent] # <<>>
  /\ lines[Head(buffer[Parent])] = kind

Unread == Tail(buffer[Parent])

Fill ==
  /\ parsing[Parent] = "reading" /\ buffer[Parent] = <<>> /\ offset < Len(lines)
  /\ LET n == IF Block < Len(lines) - offset THEN Block ELSE Len(lines) - offset IN
       /\ buffer' = [buffer EXCEPT ![Parent] = [k \in 1 .. n |-> offset + k]]
       /\ offset' = offset + n
  /\ UNCHANGED <<lines, section, options, parsing>>

FirstSection ==
  /\ Reading("section") /\ section[Parent] = 0
  /\ buffer' = [buffer EXCEPT ![Parent] = Unread]
  /\ section' = [section EXCEPT ![Parent] = Head(buffer[Parent])]
  /\ options' = [options EXCEPT ![Parent] = <<>>]
  /\ UNCHANGED <<lines, offset, parsing>>

(* Mutants of NextSection: the section is reset before the fork; the reset *)
(* is missing.                                                             *)
NextSectionReset(child) ==
  /\ Reading("section") /\ section[Parent] # 0
  /\ parsing[child] = "unborn" /\ parsing[child - 1] # "unborn"
  /\ parsing' = [parsing EXCEPT ![child] = "left"]
  /\ buffer' = [r \in Reader |-> IF r \in {Parent, child} THEN Unread ELSE buffer[r]]
  /\ section' = [r \in Reader |-> IF r \in {Parent, child} THEN Head(buffer[Parent]) ELSE section[r]]
  /\ options' = [r \in Reader |-> IF r \in {Parent, child} THEN <<>> ELSE options[r]]
  /\ UNCHANGED <<lines, offset>>
NextSectionKept(child) ==
  /\ Reading("section") /\ section[Parent] # 0
  /\ parsing[child] = "unborn" /\ parsing[child - 1] # "unborn"
  /\ parsing' = [parsing EXCEPT ![child] = "left"]
  /\ buffer' = [r \in Reader |-> IF r \in {Parent, child} THEN Unread ELSE buffer[r]]
  /\ section' = [section EXCEPT ![child] = section[Parent], ![Parent] = Head(buffer[Parent])]
  /\ options' = [options EXCEPT ![child] = options[Parent]]
  /\ UNCHANGED <<lines, offset>>

(* The child is forked with the section that ends here, and a copy of the  *)
(* buffer.                                                                 *)
NextSection(child) ==
  /\ Reading("section") /\ section[Parent] # 0
  /\ parsing[child] = "unborn" /\ parsing[child - 1] # "unborn"
  /\ parsing' = [parsing EXCEPT ![child] = "left"]
  /\ buffer' = [r \in Reader |-> IF r \in {Parent, child} THEN Unread ELSE buffer[r]]
  /\ section' = [section EXCEPT ![child] = section[Parent], ![Parent] = Head(buffer[Parent])]
  /\ options' = [options EXCEPT ![child] = options[Parent], ![Parent] = <<>>]
  /\ UNCHANGED <<lines, offset>>

Option ==
  /\ Reading("option")
  /\ buffer' = [buffer EXCEPT ![Parent] = Unread]
  /\ options' = [options EXCEPT ![Parent] = Append(@, Head(buffer[Parent]))]
  /\ UNCHANGED <<lines, offset, section, parsing>>

(* A line that does not parse, or a fork() that fails, ends the parent;    *)
(* the children it has already forked go on without it.                    *)
Fails ==
  /\ Reading("invalid") \/ (Reading("section") /\ section[Parent] # 0)
  /\ parsing' = [parsing EXCEPT ![Parent] = "exited"]
  /\ UNCHANGED <<lines, offset, buffer, section, options>>

EndOfFile ==
  /\ parsing[Parent] = "reading" /\ buffer[Parent] = <<>> /\ offset = Len(lines)
  /\ parsing' = [parsing EXCEPT ![Parent] = "arguments"]
  /\ UNCHANGED <<lines, offset, buffer, section, options>>

----------------------------------------------------------------------------
(* The child closes its copy of the file, at any time from its fork on.    *)
Fclose(child) ==
  /\ parsing[child] = "left"
  /\ parsing' = [parsing EXCEPT ![child] = "arguments"]
  /\ LET unread == Len(buffer[child]) IN
       offset' = IF FcloseSeeks /\ unread <= offset THEN offset - unread ELSE offset
  /\ buffer' = [buffer EXCEPT ![child] = <<>>]
  /\ UNCHANGED <<lines, section, options>>

(* Parent and children come back from the option -c, and go on with the    *)
(* arguments behind it.                                                    *)
Arguments(r) ==
  /\ parsing[r] = "arguments"
  /\ parsing' = [parsing EXCEPT ![r] = "parsed"]
  /\ options' = [options EXCEPT ![r] = Append(@, AfterFile)]
  /\ UNCHANGED <<lines, offset, buffer, section>>

Next ==
  \/ Fill \/ FirstSection \/ Option \/ Fails \/ EndOfFile
  \/ \E r \in Reader : (r # Parent /\ (NextSection(r) \/ Fclose(r))) \/ Arguments(r)

Spec == Init /\ [][Next]_vars

----------------------------------------------------------------------------
(* Properties.                                                             *)
Header == {n \in 1 .. Len(lines) : lines[n] = "section"}

(* The settings from the lines under header h up to line last, in order.   *)
(* For h = 0 they are those of a file without sections, and the arguments  *)
(* before -c come first.                                                   *)
Settings(h, last) ==
  LET first == IF h = 0 THEN BeforeFile ELSE h + 1 IN
  [k \in 1 .. last + 1 - first |-> first + k - 1]

(* The section of header h, which ends with line last, holds options only. *)
Section(h, last) ==
  /\ last \in h .. Len(lines)
  /\ last = Len(lines) \/ last + 1 \in Header
  /\ \A n \in h + 1 .. last : lines[n] = "option"

(* README.md, "multiple obfuscator instances within a single configuration *)
(* file".  Every instance runs with the options of its own section, all of *)
(* them and once, and with the arguments behind -c: nothing leaks from one *)
(* section, or from the arguments before -c, into another.                 *)
OwnOptions ==
  \A r \in Reader :
    parsing[r] = "parsed" =>
      \E last \in 0 .. Len(lines) :
        Section(section[r], last) /\ options[r] = Append(Settings(section[r], last), AfterFile)

(* No two instances serve one section, as they would compete for its port, *)
(* and when the parent has read the file every section is served.          *)
EverySectionOnce ==
  /\ \A q, r \in Reader :
       q # r /\ parsing[q] # "unborn" /\ parsing[r] # "unborn" => section[q] # section[r]
  /\ parsing[Parent] = "parsed" => Header \subseteq {section[r] : r \in Reader}
=============================================================================
