------------------------ MODULE FileBackendProofs ------------------------
(***************************************************************************)
(* For any number of readers and cleaners, any file size and any buffer:   *)
(* the channels of Subscription never overflow and a reader that sees EOF  *)
(* has read the whole body.                                                *)
(***************************************************************************)
EXTENDS FileBackend, TLAPS

(* The subscription is closed with the file, and only then may a channel   *)
(* be closed or a reader have left the loop over its channel.              *)
ClosedLast ==
  /\ closed <=> wpc = "closed"
  /\ \A r \in Readers : chan[r].closed \/ rpc[r] \in {"last", "eof", "done"} => closed

(* Nobody is ahead of the file, and whoever saw EOF is at its end. *)
AtEnd ==
  \A r \in Readers :
    /\ pos[r] <= size
    /\ rpc[r] \in {"eof", "done"} => pos[r] = size

IndInv == TypeOK /\ ClosedLast /\ AtEnd

(* One Read moves forward, and not past the end of the file. *)
LEMMA AdvanceBounds ==
  ASSUME TypeOK, AtEnd, NEW r \in Readers, Advance(r)
  PROVE  /\ pos' \in [Readers -> 0 .. MaxSize]
         /\ \A q \in Readers : q # r => pos'[q] = pos[q]
         /\ pos[r] <= pos'[r] /\ pos'[r] <= size
         /\ pos[r] = size => pos'[r] = size
BY SizeAssumption DEF TypeOK, AtEnd, Advance

LEMMA InitIndInv == Init => IndInv
<1> SUFFICES ASSUME Init PROVE IndInv OBVIOUS
<1>0. /\ size = 0 /\ pos = [r \in Readers |-> 0] /\ rpc = [r \in Readers |-> "idle"]
      /\ noSubscriberChan = 0 /\ cpc = [c \in Cleaners |-> "idle"]
      BY DEF Init
<1>1. TypeOK
  <2>1. chan \in [Readers -> [tokens : 0 .. 1, closed : BOOLEAN]] BY DEF Init
  <2>2. wpc = "open" /\ exists \in BOOLEAN /\ closed \in BOOLEAN /\ subscribers \subseteq Readers
        BY DEF Init
  <2> QED BY <1>0, <2>1, <2>2, SizeAssumption DEF TypeOK
<1>2. ClosedLast BY DEF Init, ClosedLast
<1>3. AtEnd
  <2> SUFFICES ASSUME NEW r \in Readers
               PROVE  pos[r] <= size /\ (rpc[r] \in {"eof", "done"} => pos[r] = size)
      BY DEF AtEnd
  <2>1. pos[r] = 0 /\ size = 0 BY <1>0
  <2> QED BY <2>1
<1> QED BY <1>1, <1>2, <1>3 DEF IndInv

LEMMA WriterStep ==
  ASSUME IndInv, Write \/ Flush \/ NotifyAll \/ Close
  PROVE  IndInv'
<1>0. TypeOK /\ ClosedLast /\ AtEnd BY DEF IndInv
<1>1. CASE Write
  <2>1. TypeOK' BY <1>0, <1>1, SizeAssumption
        DEF TypeOK, Write, subVars, readerVars, cleanerVars
  <2>2. ClosedLast' BY <1>0, <1>1
        DEF TypeOK, ClosedLast, Write, subVars, readerVars, cleanerVars
  <2>3. AtEnd'
    <3>1. ~closed BY <1>0, <1>1 DEF ClosedLast, Write
    <3>2. \A r \in Readers : rpc[r] \notin {"eof", "done"} BY <1>0, <3>1 DEF ClosedLast
    <3>3. size' \in Nat /\ size <= size' /\ pos' = pos /\ rpc' = rpc
          BY <1>0, <1>1, SizeAssumption DEF TypeOK, Write, readerVars
    <3> QED BY <1>0, <3>2, <3>3, SizeAssumption DEF TypeOK, AtEnd
  <2> QED BY <2>1, <2>2, <2>3 DEF IndInv
<1>2. CASE Flush
  BY <1>0, <1>2 DEF IndInv, TypeOK, ClosedLast, AtEnd, Flush, subVars, readerVars, cleanerVars
<1>3. CASE NotifyAll
  <2>1. TypeOK' BY <1>0, <1>3 DEF TypeOK, NotifyAll, readerVars, cleanerVars
  <2>2. \A r \in Readers : chan'[r].closed = chan[r].closed
        BY <1>0, <1>3 DEF TypeOK, NotifyAll
  <2>3. ClosedLast' BY <1>0, <1>3, <2>2 DEF ClosedLast, NotifyAll, readerVars
  <2>4. AtEnd' BY <1>0, <1>3 DEF AtEnd, NotifyAll, readerVars
  <2> QED BY <2>1, <2>3, <2>4 DEF IndInv
<1>4. CASE Close
  <2>1. TypeOK' BY <1>0, <1>4 DEF TypeOK, Close, readerVars, cleanerVars
  <2>2. ClosedLast' BY <1>0, <1>4 DEF ClosedLast, Close, readerVars
  <2>3. AtEnd' BY <1>0, <1>4 DEF AtEnd, Close, readerVars
  <2> QED BY <2>1, <2>2, <2>3 DEF IndInv
<1> QED BY <1>1, <1>2, <1>3, <1>4

LEMMA ReaderSteps ==
  ASSUME IndInv, NEW r \in Readers, Open(r) \/ ReaderStep(r) \/ CloseReaderEarly(r)
  PROVE  IndInv'
<1>0. TypeOK /\ ClosedLast /\ AtEnd BY DEF IndInv
<1>1. CASE Open(r)
  BY <1>0, <1>1 DEF IndInv, TypeOK, ClosedLast, AtEnd, Open, Goto, writerVars, subVars, cleanerVars
<1>2. CASE NewSubscriber(r)
  <2>1. TypeOK' BY <1>0, <1>2 DEF TypeOK, NewSubscriber, Goto, writerVars, cleanerVars
  <2>2. ClosedLast' BY <1>0, <1>2
        DEF TypeOK, ClosedLast, NewSubscriber, Goto, writerVars, cleanerVars
  <2>3. AtEnd' BY <1>0, <1>2 DEF TypeOK, AtEnd, NewSubscriber, Goto, writerVars
  <2> QED BY <2>1, <2>2, <2>3 DEF IndInv
<1>3. CASE Receive(r)
  <2>1. TypeOK' BY <1>0, <1>3 DEF TypeOK, Receive, Goto, writerVars, cleanerVars
  <2>2. ClosedLast' BY <1>0, <1>3 DEF TypeOK, ClosedLast, Receive, Goto, writerVars
  <2>3. AtEnd' BY <1>0, <1>3 DEF TypeOK, AtEnd, Receive, Goto, writerVars
  <2> QED BY <2>1, <2>2, <2>3 DEF IndInv
<1>4. CASE ReceiveClosed(r)
  BY <1>0, <1>4 DEF IndInv, TypeOK, ClosedLast, AtEnd, ReceiveClosed, Goto, writerVars, subVars,
                    cleanerVars
<1>5. CASE ReadOn(r)
  <2>1. Advance(r) BY <1>5 DEF ReadOn
  <2>2. TypeOK' BY <1>0, <1>5, <2>1, AdvanceBounds
        DEF TypeOK, ReadOn, Goto, writerVars, subVars, cleanerVars
  <2>3. ClosedLast' BY <1>0, <1>5 DEF TypeOK, ClosedLast, ReadOn, Goto, writerVars, subVars
  <2>4. AtEnd' BY <1>0, <1>5, <2>1, AdvanceBounds DEF TypeOK, AtEnd, ReadOn, Goto, writerVars
  <2> QED BY <2>2, <2>3, <2>4 DEF IndInv
<1>6. CASE ReadLast(r)
  <2>1. Advance(r) BY <1>6 DEF ReadLast
  <2>2. TypeOK' BY <1>0, <1>6, <2>1, AdvanceBounds
        DEF TypeOK, ReadLast, Goto, writerVars, subVars, cleanerVars
  <2>3. ClosedLast' BY <1>0, <1>6 DEF TypeOK, ClosedLast, ReadLast, Goto, writerVars, subVars
  <2>4. AtEnd' BY <1>0, <1>6, <2>1, AdvanceBounds DEF TypeOK, AtEnd, ReadLast, Goto, writerVars
  <2> QED BY <2>2, <2>3, <2>4 DEF IndInv
<1>7. CASE CloseReader(r) \/ CloseReaderEarly(r)
  <2>1. TypeOK' BY <1>0, <1>7 DEF TypeOK, CloseReader, CloseReaderEarly, RemoveSubscriber, Goto,
                                  writerVars, cleanerVars
  <2>2. ClosedLast' BY <1>0, <1>7
        DEF TypeOK, ClosedLast, CloseReader, CloseReaderEarly, Goto, writerVars
  <2>3. AtEnd' BY <1>0, <1>7 DEF TypeOK, AtEnd, CloseReader, CloseReaderEarly, Goto, writerVars
  <2> QED BY <2>1, <2>2, <2>3 DEF IndInv
<1> QED BY <1>1, <1>2, <1>3, <1>4, <1>5, <1>6, <1>7 DEF ReaderStep

LEMMA CleanerSteps ==
  ASSUME IndInv, NEW c \in Cleaners, WaitAll(c) \/ CleanerStep(c)
  PROVE  IndInv'
<1>1. TypeOK'
  <2>1. CASE WaitAll(c)
    BY <2>1 DEF IndInv, TypeOK, WaitAll, writerVars, subVars, readerVars
  <2>2. CASE WaitAllReceive(c)
    BY <2>2 DEF IndInv, TypeOK, WaitAllReceive, writerVars, readerVars
  <2>3. CASE RemoveFile(c)
    BY <2>3 DEF IndInv, TypeOK, RemoveFile, writerVars, subVars, readerVars
  <2> QED BY <2>1, <2>2, <2>3 DEF CleanerStep
<1>2. ClosedLast' /\ AtEnd'
  BY DEF IndInv, ClosedLast, AtEnd, WaitAll, CleanerStep, WaitAllReceive, RemoveFile, writerVars,
         subVars, readerVars
<1> QED BY <1>1, <1>2 DEF IndInv

LEMMA StepIndInv == IndInv /\ [Next]_vars => IndInv'
<1> SUFFICES ASSUME IndInv, [Next]_vars PROVE IndInv' OBVIOUS
<1>1. CASE Next
  BY <1>1, WriterStep, ReaderSteps, CleanerSteps DEF Next
<1>2. CASE UNCHANGED vars
  BY <1>2 DEF IndInv, TypeOK, ClosedLast, AtEnd, vars, writerVars, subVars, readerVars, cleanerVars
<1> QED BY <1>1, <1>2

(* What the writer, the readers and their channels agree on. *)
THEOREM Inductive == Spec => []IndInv
BY InitIndInv, StepIndInv, PTL DEF Spec

(* The types, and no channel of Subscription ever holds more than the one  *)
(* token it has room for: NotifyAll and RemoveSubscriber never block.      *)
THEOREM TypeCorrect == Spec => []TypeOK
BY Inductive, PTL DEF IndInv

(* A reader that FileReader.Read told EOF has read all the bytes the       *)
(* writer wrote, and the writer has closed the file: coalesced             *)
(* notifications hide no content.                                          *)
THEOREM ReadersReadWhole == Spec => []ReadsWhole
<1>1. IndInv => ReadsWhole BY DEF IndInv, ClosedLast, AtEnd, ReadsWhole
<1> QED BY <1>1, Inductive, PTL
=============================================================================
