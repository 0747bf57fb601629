---------------------------- MODULE FileBackend ----------------------------
(***************************************************************************)
(* backends/file.go: a response body kept in a file that one goroutine     *)
(* appends to while others read it.  A reader waits on a subscription      *)
(* channel of capacity 1 for news of more content; Close closes those      *)
(* channels, after which a reader reads on to the end of the file.  Clean  *)
(* waits for the subscribers and removes the file.                         *)
(***************************************************************************)
EXTENDS Naturals

CONSTANTS
  Readers,   \* goroutines reading the file
  Cleaners,  \* goroutines calling Clean
  MaxSize,   \* bound: size of the file, in units of one Write
  BufSize    \* how much one Read takes at most

ASSUME SizeAssumption == MaxSize \in Nat /\ BufSize \in Nat \ {0}

VARIABLES
  wpc,         \* the writer: "open", "notify" (inside Write or Flush), "closed"
  size,        \* size of the file
  exists,      \* whether the file still has its name
  closed,      \* Subscription.closed
  subscribers, \* the readers whose channel is in the list
  chan,        \* chan[r]: tokens in r's channel, and whether it is closed
  noSubscriberChan,
  rpc, pos,    \* a reader: where it is, and how far it has read
  cpc          \* where a cleaner is

writerVars == <<wpc, size>>
subVars == <<closed, subscribers, chan, noSubscriberChan>>
readerVars == <<rpc, pos>>
cleanerVars == <<cpc, exists>>
vars == <<writerVars, subVars, readerVars, cleanerVars>>

Init ==
  /\ wpc = "open" /\ size = 0 /\ exists = TRUE
  /\ closed = FALSE /\ subscribers = {} /\ noSubscriberChan = 0
  /\ chan = [r \in Readers |-> [tokens |-> 0, closed |-> FALSE]]
  /\ rpc = [r \in Readers |-> "idle"] /\ pos = [r \in Readers |-> 0]
  /\ cpc = [c \in Cleaners |-> "idle"]

-----------------------------------------------------------------------------
(* The writer. *)

(* file.Write; the deferred NotifyAll comes after it.  A write may fail.   *)
Write ==
  /\ wpc = "open" /\ wpc' = "notify"
  /\ \/ size < MaxSize /\ size' = size + 1
     \/ UNCHANGED size
  /\ UNCHANGED <<subVars, readerVars, cleanerVars>>

(* Sync adds nothing to the file but notifies as well. *)
Flush ==
  /\ wpc = "open" /\ wpc' = "notify"
  /\ UNCHANGED <<size, subVars, readerVars, cleanerVars>>

(* Mutant: a full channel is written to all the same. *)
NotifyQueues ==
  /\ wpc = "notify" /\ wpc' = "open"
  /\ chan' = [r \in Readers |-> IF r \in subscribers THEN [chan[r] EXCEPT !.tokens = @ + 1]
                                                    ELSE chan[r]]
  /\ UNCHANGED <<size, closed, subscribers, noSubscriberChan, readerVars, cleanerVars>>

(* A full channel is skipped: notifications coalesce. *)
NotifyAll ==
  /\ wpc = "notify" /\ wpc' = "open"
  /\ chan' = [r \in Readers |-> IF r \in subscribers THEN [chan[r] EXCEPT !.tokens = 1]
                                                    ELSE chan[r]]
  /\ UNCHANGED <<size, closed, subscribers, noSubscriberChan, readerVars, cleanerVars>>

(* Mutant: Close marks the subscription but leaves the channels open. *)
CloseMarksOnly ==
  /\ wpc = "open" /\ wpc' = "closed"
  /\ closed' = TRUE
  /\ UNCHANGED <<size, chan, subscribers, noSubscriberChan, readerVars, cleanerVars>>

(* Subscription.Close and file.Close.  A second Close changes nothing. *)
Close ==
  /\ wpc = "open" /\ wpc' = "closed"
  /\ closed' = TRUE
  /\ chan' = [r \in Readers |-> IF r \in subscribers THEN [chan[r] EXCEPT !.closed = TRUE]
                                                    ELSE chan[r]]
  /\ UNCHANGED <<size, subscribers, noSubscriberChan, readerVars, cleanerVars>>

-----------------------------------------------------------------------------
(* The readers. *)

Goto(r, from, to) == rpc[r] = from /\ rpc' = [rpc EXCEPT ![r] = to]

(* GetReader: os.Open, which fails once the file was removed ... *)
Open(r) ==
  /\ Goto(r, "idle", IF exists THEN "subscribe" ELSE "failed")
  /\ UNCHANGED <<writerVars, subVars, pos, cleanerVars>>

(* ... and NewSubscriber, which hands out a closed channel after Close.    *)
NewSubscriber(r) ==
  /\ Goto(r, "subscribe", "receive")
  /\ chan' = [chan EXCEPT ![r] = [tokens |-> 0, closed |-> closed]]
  /\ subscribers' = IF closed THEN subscribers ELSE subscribers \cup {r}
  /\ UNCHANGED <<writerVars, closed, noSubscriberChan, pos, cleanerVars>>

(* Read: "for range r.subscription" takes a token, or leaves the loop when *)
(* the channel is closed and empty.                                        *)
Receive(r) ==
  /\ chan[r].tokens > 0
  /\ Goto(r, "receive", "read")
  /\ chan' = [chan EXCEPT ![r].tokens = @ - 1]
  /\ UNCHANGED <<writerVars, closed, subscribers, noSubscriberChan, pos, cleanerVars>>

ReceiveClosed(r) ==
  /\ chan[r].tokens = 0 /\ chan[r].closed
  /\ Goto(r, "receive", "last")
  /\ UNCHANGED <<writerVars, subVars, pos, cleanerVars>>

Advance(r) ==
  pos' = [pos EXCEPT ![r] = IF @ + BufSize <= size THEN @ + BufSize ELSE size]

(* Mutant: the end of what is there is taken for the end of the file. *)
ReadOnToEOF(r) ==
  /\ Goto(r, "read", IF pos[r] = size THEN "eof" ELSE "receive")
  /\ Advance(r)
  /\ UNCHANGED <<writerVars, subVars, cleanerVars>>

(* A read in the loop; at the end of what is there it waits for more.      *)
ReadOn(r) ==
  /\ Goto(r, "read", "receive")
  /\ Advance(r)
  /\ UNCHANGED <<writerVars, subVars, cleanerVars>>

(* A read after the loop; here the end is the end. *)
ReadLast(r) ==
  /\ Goto(r, "last", IF pos[r] = size THEN "eof" ELSE "receive")
  /\ Advance(r)
  /\ UNCHANGED <<writerVars, subVars, cleanerVars>>

(* Mutant: RemoveSubscriber never signals that the list is empty. *)
RemoveQuietly(r) ==
  /\ subscribers' = subscribers \ {r}
  /\ UNCHANGED noSubscriberChan

(* RemoveSubscriber leaves a token for WaitAll whenever the list is empty. *)
RemoveSubscriber(r) ==
  /\ subscribers' = subscribers \ {r}
  /\ noSubscriberChan' = IF subscribers' = {} THEN 1 ELSE noSubscriberChan

(* FileReader.Close at the end of the body, or before it when the client   *)
(* has gone away.                                                          *)
CloseReader(r) ==
  /\ Goto(r, "eof", "done")
  /\ RemoveSubscriber(r)
  /\ UNCHANGED <<writerVars, closed, chan, pos, cleanerVars>>

CloseReaderEarly(r) ==
  /\ Goto(r, "receive", "gone")
  /\ RemoveSubscriber(r)
  /\ UNCHANGED <<writerVars, closed, chan, pos, cleanerVars>>

-----------------------------------------------------------------------------
(* Clean. *)

(* WaitAll: hasSubscribers, then a receive. *)
WaitAll(c) ==
  /\ cpc[c] = "idle"
  /\ cpc' = [cpc EXCEPT ![c] = IF subscribers = {} THEN "remove" ELSE "wait"]
  /\ UNCHANGED <<writerVars, subVars, readerVars, exists>>

WaitAllReceive(c) ==
  /\ cpc[c] = "wait" /\ noSubscriberChan > 0
  /\ cpc' = [cpc EXCEPT ![c] = "remove"]
  /\ noSubscriberChan' = noSubscriberChan - 1
  /\ UNCHANGED <<writerVars, closed, subscribers, chan, readerVars, exists>>

(* os.Remove; a file that is already gone is an error. *)
RemoveFile(c) ==
  /\ cpc[c] = "remove"
  /\ cpc' = [cpc EXCEPT ![c] = "done"]
  /\ exists' = FALSE
  /\ UNCHANGED <<writerVars, subVars, readerVars>>

-----------------------------------------------------------------------------
ReaderStep(r) ==
  \/ NewSubscriber(r) \/ Receive(r) \/ ReceiveClosed(r) \/ ReadOn(r) \/ ReadLast(r)
  \/ CloseReader(r)
CleanerStep(c) == WaitAllReceive(c) \/ RemoveFile(c)

Next ==
  \/ Write \/ Flush \/ NotifyAll \/ Close
  \/ \E r \in Readers : Open(r) \/ ReaderStep(r) \/ CloseReaderEarly(r)
  \/ \E c \in Cleaners : WaitAll(c) \/ CleanerStep(c)

Spec == Init /\ [][Next]_vars

(* Readers read on, a cleaner that can go on does, and the writer closes   *)
(* the body in the end (fetchUpstream does when next.ServeHTTP returns).   *)
Fairness ==
  /\ \A r \in Readers : WF_vars(ReaderStep(r))
  /\ \A c \in Cleaners : WF_vars(CleanerStep(c))
  /\ WF_vars(NotifyAll) /\ SF_vars(Close)

FairSpec == Spec /\ Fairness

-----------------------------------------------------------------------------
(* Types; a subscriber's channel and noSubscriberChan never hold more than *)
(* the one token they have room for, so no send of Subscription blocks.    *)
TypeOK ==
  /\ wpc \in {"open", "notify", "closed"} /\ size \in 0 .. MaxSize
  /\ exists \in BOOLEAN /\ closed \in BOOLEAN /\ subscribers \subseteq Readers
  /\ chan \in [Readers -> [tokens : 0 .. 1, closed : BOOLEAN]]
  /\ noSubscriberChan \in 0 .. 1
  /\ rpc \in [Readers -> {"idle", "subscribe", "receive", "read", "last", "eof",
                          "done", "gone", "failed"}]
  /\ pos \in [Readers -> 0 .. MaxSize]
  /\ cpc \in [Cleaners -> {"idle", "wait", "remove", "done"}]

(* A reader that is told EOF has read the whole body: nobody takes the end *)
(* of what is written so far for the end of the response.                  *)
ReadsWhole ==
  \A r \in Readers : rpc[r] \in {"eof", "done"} => pos[r] = size /\ wpc = "closed"

(* Coalesced notifications strand no reader: every reader comes to the end *)
(* of the body, or was given up by its client.                             *)
ReadersEnd == \A r \in Readers : (rpc[r] = "receive") ~> (rpc[r] \in {"done", "gone"})

(* A Clean that waits for subscribers goes on in the end.                  *)
CleanEnds == \A c \in Cleaners : (cpc[c] = "wait") ~> (cpc[c] = "done")
=============================================================================
