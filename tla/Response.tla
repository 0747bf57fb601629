------------------------------ MODULE Response ------------------------------
(***************************************************************************)
(* One upstream response (response.go) and the goroutines that share it:   *)
(* the upstream goroutine of fetchUpstream, which runs next.ServeHTTP with *)
(* the Response as its writer and then closes it; the handler that fetched *)
(* it (handler.go, fetchUpstream and the rest of ServeHTTP); and readers   *)
(* that found the entry in the cache after the handler's Put.              *)
(*                                                                         *)
(* They meet on four channels of capacity 1 and on plain fields.  body is  *)
(* an interface, stored as two words: between the two stores of SetBody a  *)
(* racing reader sees a type without a value ("torn"), and calling a       *)
(* method on that panics, as does calling one on a nil body.  A panic of   *)
(* the upstream goroutine ends the process.                                *)
(***************************************************************************)
EXTENDS Naturals

CONSTANTS
  Readers,    \* goroutines that read the entry besides the handler
  MaxWrites,  \* bound: chunks the upstream writes
  None

ASSUME WritesAssumption == MaxWrites \in Nat
ASSUME NoneAssumption == None \notin Nat /\ None \notin Readers

VARIABLES
  upc, hpc, rpc,     \* where the upstream, the handler and the readers are
  method, isPublic,  \* the request's method; what NewEntry decided
  Code, wroteHeader, body, bodyComplete,
  headersChan, bodyChan, bodyCompleteChan, closedChan, \* tokens in them
  errChan,           \* what next.ServeHTTP returned and nobody has taken
  upstreamError,     \* what next.ServeHTTP returned
  err,               \* what popOrNil returned
  backendErr,        \* whether setBackend failed
  chunks,            \* what the backend, or the client for a private
                     \* response, has received
  cached,            \* "no", "yes", or "cleaned": Put and cleanEntry
  got                \* what the handler's client and each reader received

respVars == <<Code, wroteHeader, headersChan>>
bodyVars == <<body, bodyChan>>
doneVars == <<bodyComplete, bodyCompleteChan, closedChan>>
errVars == <<errChan, upstreamError, err, backendErr>>
reqVars == <<method, isPublic>>
(* What the upstream goroutine, and what the handler, never touch. *)
upstreamFrame == <<hpc, rpc, reqVars, err, backendErr, cached, got>>
handlerFrame == <<upc, rpc, Code, wroteHeader, upstreamError, method, chunks>>
vars == <<upc, hpc, rpc, respVars, bodyVars, doneVars, errVars, reqVars,
          chunks, cached, got>>

handler == "handler"

Init ==
  /\ upc = "serving" /\ hpc = "headers" /\ rpc = [r \in Readers |-> "idle"]
  /\ method \in {"GET", "HEAD"} /\ isPublic = FALSE
  /\ Code = 200 /\ wroteHeader = FALSE
  /\ body = "nil" /\ bodyComplete = FALSE
  /\ headersChan = 0 /\ bodyChan = 0 /\ bodyCompleteChan = 0 /\ closedChan = 0
  /\ errChan = None /\ upstreamError = None /\ err = "nil" /\ backendErr = FALSE
  /\ chunks = 0 /\ cached = "no"
  /\ got = [r \in Readers \cup {handler} |-> None]

-----------------------------------------------------------------------------
(* The upstream goroutine. *)

Upstream(from, to) == upc = from /\ upc' = to

(* Mutant: the header is sent again by every call. *)
recordHeaderAgain(code) ==
  /\ Code' = code /\ wroteHeader' = TRUE
  /\ headersChan' = headersChan + 1

(* WriteHeader sends the header once; a second call returns at once. *)
recordHeader(code) ==
  IF wroteHeader
  THEN UNCHANGED respVars
  ELSE /\ Code' = code /\ wroteHeader' = TRUE
       /\ headersChan' = headersChan + 1

WriteHeader(code) ==
  /\ Upstream("serving", "serving")
  /\ recordHeader(code)
  /\ UNCHANGED <<upstreamFrame, bodyVars, doneVars, errChan, upstreamError, chunks>>

(* Flush reads body without waiting for it.  (The Flush of a backend that  *)
(* does nothing survives a torn one.)                                      *)
Flush ==
  /\ \E to \in IF body = "torn" THEN {"panicked", "serving"} ELSE {"serving"} :
       Upstream("serving", to)
  /\ recordHeader(200)
  /\ UNCHANGED <<upstreamFrame, bodyVars, doneVars, errChan, upstreamError, chunks>>

(* Write sends the header if nobody has (with the code set so far), waits  *)
(* for a token when it sees no body, and writes to the body it then sees.  *)
Write ==
  /\ chunks < MaxWrites
  /\ Upstream("serving", "write")
  /\ recordHeader(Code)
  /\ UNCHANGED <<upstreamFrame, bodyVars, doneVars, errChan, upstreamError, chunks>>

WriteCheckBody ==
  /\ Upstream("write", IF body = "nil" THEN "writeWait" ELSE "writeBody")
  /\ UNCHANGED <<upstreamFrame, respVars, bodyVars, doneVars, errChan, upstreamError, chunks>>

WriteTakeToken ==
  /\ Upstream("writeWait", "writeBody")
  /\ bodyChan > 0
  /\ bodyChan' = bodyChan - 1
  /\ UNCHANGED <<upstreamFrame, respVars, body, doneVars, errChan, upstreamError, chunks>>

(* "No storage provided", or the storage refuses the chunk. *)
WriteRefused ==
  /\ Upstream("writeBody", IF body = "torn" THEN "panicked" ELSE "serving")
  /\ UNCHANGED <<upstreamFrame, respVars, bodyVars, doneVars, errChan, upstreamError, chunks>>

WriteBody ==
  /\ Upstream("writeBody", "serving")
  /\ body \in {"backend", "writer"}
  /\ chunks' = chunks + 1
  /\ UNCHANGED <<upstreamFrame, respVars, bodyVars, doneVars, errChan, upstreamError>>

(* next.ServeHTTP returns, in the middle of the body for all we know. *)
Return(e) ==
  /\ Upstream("serving", "close")
  /\ errChan' = e /\ upstreamError' = e
  /\ UNCHANGED <<upstreamFrame, respVars, bodyVars, doneVars, chunks>>

(* Mutant: Close does not wait for a body. *)
CloseAnyway ==
  /\ Upstream("close", "closeBody")
  /\ UNCHANGED <<upstreamFrame, respVars, bodyVars, doneVars, errChan, upstreamError, chunks>>

CloseCheckBody ==
  /\ Upstream("close", IF body = "nil" THEN "closeWait" ELSE "closeBody")
  /\ UNCHANGED <<upstreamFrame, respVars, bodyVars, doneVars, errChan, upstreamError, chunks>>

CloseTakeToken ==
  /\ Upstream("closeWait", "closeBody")
  /\ bodyChan > 0
  /\ bodyChan' = bodyChan - 1
  /\ UNCHANGED <<upstreamFrame, respVars, body, doneVars, errChan, upstreamError, chunks>>

CloseBody ==
  /\ Upstream("closeBody", IF body \in {"nil", "torn"} THEN "panicked" ELSE "complete")
  /\ UNCHANGED <<upstreamFrame, respVars, bodyVars, doneVars, errChan, upstreamError, chunks>>

MarkComplete ==
  /\ Upstream("complete", "sendComplete")
  /\ bodyComplete' = TRUE
  /\ UNCHANGED <<upstreamFrame, respVars, bodyVars, bodyCompleteChan, closedChan, errChan, upstreamError, chunks>>

SendComplete ==
  /\ Upstream("sendComplete", "sendClosed")
  /\ bodyCompleteChan' = bodyCompleteChan + 1
  /\ UNCHANGED <<upstreamFrame, respVars, bodyVars, bodyComplete, closedChan, errChan, upstreamError, chunks>>

(* Mutant: Close forgets closedChan. *)
ForgetClosed ==
  /\ Upstream("sendClosed", "closed")
  /\ UNCHANGED <<upstreamFrame, respVars, bodyVars, doneVars, errChan, upstreamError, chunks>>

SendClosed ==
  /\ Upstream("sendClosed", "closed")
  /\ closedChan' = closedChan + 1
  /\ UNCHANGED <<upstreamFrame, respVars, bodyVars, bodyComplete, bodyCompleteChan, errChan, upstreamError, chunks>>

-----------------------------------------------------------------------------
(* The handler. *)

Handler(from, to) == hpc = from /\ hpc' = to

(* WaitHeaders, NewEntry and popOrNil. *)
fetchUpstream ==
  /\ Handler("headers", "decide")
  /\ headersChan > 0 /\ headersChan' = headersChan - 1
  /\ isPublic' \in BOOLEAN
  /\ err' = IF errChan = None THEN "nil" ELSE errChan
  /\ errChan' = None
  /\ UNCHANGED <<handlerFrame, bodyVars, doneVars, backendErr, cached, got>>

(* A stale public entry answers for a 5xx; this response gets no body. *)
respondStale ==
  /\ Handler("decide", "done")
  /\ Code >= 500
  /\ UNCHANGED <<handlerFrame, headersChan, bodyVars, doneVars, errChan, err, backendErr, isPublic, cached, got>>

returnError ==
  /\ Handler("decide", "done")
  /\ err # "nil"
  /\ UNCHANGED <<handlerFrame, headersChan, bodyVars, doneVars, errChan, err, backendErr, isPublic, cached, got>>

(* respond for a private response to HEAD returns without a body. *)
respondPrivateHead ==
  /\ Handler("decide", "done")
  /\ err = "nil" /\ ~isPublic /\ method = "HEAD"
  /\ UNCHANGED <<handlerFrame, headersChan, bodyVars, doneVars, errChan, err, backendErr, isPublic, cached, got>>

(* SetBody, in setBackend for a public response and in                     *)
(* writePrivateResponse for a private one: two stores, then the token.     *)
(* When the backend cannot be made, a nil body is stored.                  *)
SetBodyType ==
  /\ err = "nil" /\ (isPublic \/ method # "HEAD")
  /\ \/ /\ Handler("decide", "setBody") /\ body' = "torn"
        /\ UNCHANGED backendErr
     \/ /\ isPublic
        /\ Handler("decide", "sendBody") /\ body' = "nil"
        /\ backendErr' = TRUE
  /\ UNCHANGED <<handlerFrame, headersChan, bodyChan, doneVars, errChan, err, isPublic, cached, got>>

SetBodyValue ==
  /\ Handler("setBody", "sendBody")
  /\ body' = IF isPublic THEN "backend" ELSE "writer"
  /\ UNCHANGED <<handlerFrame, headersChan, bodyChan, doneVars, errChan, err, backendErr, isPublic, cached, got>>

(* Mutant: the caller of a private response returns without WaitClose. *)
SetBodySendNoWait ==
  /\ Handler("sendBody", IF isPublic THEN "put" ELSE "done")
  /\ bodyChan = 0 /\ bodyChan' = 1
  /\ UNCHANGED <<handlerFrame, headersChan, body, doneVars, errChan, err, backendErr, isPublic, cached, got>>

(* Mutant: SetBody stores the body and forgets the token. *)
SetBodyNoToken ==
  /\ Handler("sendBody", CASE backendErr -> "done"
                           [] isPublic /\ ~backendErr -> "put"
                           [] OTHER -> "waitClose")
  /\ UNCHANGED <<handlerFrame, headersChan, bodyVars, doneVars, errChan, err, backendErr, isPublic, cached, got>>

SetBodySend ==
  /\ Handler("sendBody", CASE backendErr -> "done"
                           [] isPublic /\ ~backendErr -> "put"
                           [] OTHER -> "waitClose")
  /\ bodyChan = 0 /\ bodyChan' = 1
  /\ UNCHANGED <<handlerFrame, headersChan, body, doneVars, errChan, err, backendErr, isPublic, cached, got>>

Put ==
  /\ Handler("put", IF method = "HEAD" THEN "done" ELSE "getReader")
  /\ cached' = "yes"
  /\ UNCHANGED <<handlerFrame, headersChan, bodyVars, doneVars, errChan, err, backendErr, isPublic, got>>

WaitClose ==
  /\ Handler("waitClose", "done")
  /\ closedChan > 0 /\ closedChan' = closedChan - 1
  /\ got' = [got EXCEPT ![handler] = chunks]
  /\ UNCHANGED <<handlerFrame, headersChan, bodyVars, bodyComplete, bodyCompleteChan, errChan, err, backendErr, isPublic, cached>>

-----------------------------------------------------------------------------
(* GetReader and the copy of a public body, by the handler and by readers. *)

Reader(r, from, to) ==
  IF r = handler
  THEN Handler(from, to) /\ UNCHANGED rpc
  ELSE /\ rpc[r] = from /\ rpc' = [rpc EXCEPT ![r] = to]
       /\ UNCHANGED hpc

(* Cache.Get finds the entry (endpoint.go handleShowCache, which takes no  *)
(* URL lock, or a later request). *)
Get(r) ==
  /\ cached = "yes"
  /\ Reader(r, "idle", "getReader")
  /\ UNCHANGED <<upc, respVars, bodyVars, doneVars, errVars, reqVars, chunks, cached, got>>

(* Mutant: GetReader does not wait for the body to be complete. *)
GetReaderNoWait(r) ==
  /\ Reader(r, "getReader", "open")
  /\ UNCHANGED <<upc, respVars, bodyVars, doneVars, errVars, reqVars, chunks, cached, got>>

GetReader(r) ==
  /\ Reader(r, "getReader", IF bodyComplete THEN "open" ELSE "await")
  /\ UNCHANGED <<upc, respVars, bodyVars, doneVars, errVars, reqVars, chunks, cached, got>>

GetReaderTakeToken(r) ==
  /\ Reader(r, "await", "open")
  /\ bodyCompleteChan > 0 /\ bodyCompleteChan' = bodyCompleteChan - 1
  /\ UNCHANGED <<upc, respVars, bodyVars, bodyComplete, closedChan, errVars, reqVars, chunks, cached, got>>

(* body.GetReader finds the stored content, io.Copy reads to its end.      *)
(* Cleaned content may be gone (a file, Redis) or still at hand (memory).  *)
CopyBody(r) ==
  /\ Reader(r, "open", "done")
  /\ \E seen \in (IF cached = "cleaned" THEN {None, chunks} ELSE {chunks}) :
       got' = [got EXCEPT ![r] = seen]
  /\ UNCHANGED <<upc, respVars, bodyVars, doneVars, errVars, reqVars, chunks, cached>>

(* cleanEntry, by a purge or the entry's timer. *)
cleanEntry ==
  /\ cached = "yes" /\ cached' = "cleaned"
  /\ UNCHANGED <<upc, hpc, rpc, respVars, bodyVars, doneVars, errVars, reqVars, chunks, got>>

-----------------------------------------------------------------------------
UpstreamStep ==
  \/ \E code \in {200, 500} : WriteHeader(code)
  \/ Flush \/ Write \/ WriteCheckBody \/ WriteTakeToken \/ WriteRefused \/ WriteBody
  \/ \E e \in {"nil", "err"} : Return(e)
  \/ CloseCheckBody \/ CloseTakeToken \/ CloseBody
  \/ MarkComplete \/ SendComplete \/ SendClosed

ReadStep(r) == GetReader(r) \/ GetReaderTakeToken(r) \/ CopyBody(r)

HandlerStep ==
  \/ fetchUpstream \/ respondStale \/ returnError \/ respondPrivateHead
  \/ SetBodyType \/ SetBodyValue \/ SetBodySend \/ Put \/ WaitClose
  \/ ReadStep(handler)

(* A panic ends every goroutine. *)
Next ==
  /\ upc # "panicked"
  /\ \/ UpstreamStep
     \/ HandlerStep
     \/ \E r \in Readers : Get(r) \/ ReadStep(r)
     \/ cleanEntry

Spec == Init /\ [][Next]_vars

(* Every goroutine that can step does, and next.ServeHTTP returns. *)
Fairness ==
  /\ WF_vars(upc # "panicked" /\ HandlerStep)
  /\ \A r \in Readers : WF_vars(upc # "panicked" /\ ReadStep(r))
  /\ WF_vars(upc # "panicked" /\ upc # "serving" /\ UpstreamStep)
  /\ SF_vars(upc # "panicked" /\ \E e \in {"nil", "err"} : Return(e))

FairSpec == Spec /\ Fairness

-----------------------------------------------------------------------------
PCs == [upstream |-> {"serving", "write", "writeWait", "writeBody", "close",
                      "closeWait", "closeBody", "complete", "sendComplete",
                      "sendClosed", "closed", "panicked"},
        handler |-> {"headers", "decide", "setBody", "sendBody", "put",
                     "waitClose", "getReader", "await", "open", "done"},
        reader |-> {"idle", "getReader", "await", "open", "done"}]

(* Types; no channel ever holds more than the one token it has room for,   *)
(* so no send of response.go blocks.                                       *)
TypeOK ==
  /\ upc \in PCs.upstream /\ hpc \in PCs.handler /\ rpc \in [Readers -> PCs.reader]
  /\ method \in {"GET", "HEAD"} /\ isPublic \in BOOLEAN
  /\ Code \in {200, 500} /\ wroteHeader \in BOOLEAN /\ bodyComplete \in BOOLEAN
  /\ body \in {"nil", "torn", "backend", "writer"}
  /\ {headersChan, bodyChan, bodyCompleteChan, closedChan} \subseteq 0 .. 1
  /\ errChan \in {None, "nil", "err"} /\ upstreamError \in {None, "nil", "err"}
  /\ err \in {"nil", "err"} /\ backendErr \in BOOLEAN
  /\ chunks \in 0 .. MaxWrites /\ cached \in {"no", "yes", "cleaned"}
  /\ got \in [Readers \cup {handler} -> (0 .. MaxWrites) \cup {None}]

Ended == {"sendComplete", "sendClosed", "closed"}

(* Whoever was given the body was given all of it: the upstream writes     *)
(* nothing after a reader has passed GetReader, or WaitClose has returned. *)
ServedWhole ==
  \A r \in Readers \cup {handler} :
    got[r] # None => got[r] = chunks /\ upc \in Ended

(* The upstream goroutine does not touch the client's ResponseWriter once  *)
(* ServeHTTP has returned (net/http forbids it): WaitClose in              *)
(* writePrivateResponse.                                                   *)
NoWriteAfterReturn == hpc = "done" /\ body = "writer" => upc = "closed"

(* The upstream goroutine, whose panic nobody recovers, panics only when   *)
(* setBackend stored a nil body, or when it reads body between the two     *)
(* stores of an unsynchronised SetBody.                                    *)
PanicsOnlyWithoutBody ==
  upc = "panicked" => body = "torn" \/ (body = "nil" /\ backendErr)

(* A request whose upstream has sent a header is answered and so releases  *)
(* its URL lock.                                                           *)
HandlerReturns == wroteHeader ~> (hpc = "done" \/ upc = "panicked")

(* It is, unless another reader was served instead: whoever passes         *)
(* GetReader first may have taken the one token of bodyCompleteChan.       *)
HandlerReturnsAlone ==
  wroteHeader ~> (hpc = "done" \/ upc = "panicked" \/ \E r \in Readers : rpc[r] = "done")

(* The upstream goroutine ends, unless the handler returned without giving *)
(* the response a body (a stale answer to a 5xx, an upstream error, a      *)
(* private HEAD, a failed backend).                                        *)
UpstreamEnds ==
  wroteHeader ~> (upc \in {"closed", "panicked"} \/ (hpc = "done" /\ body = "nil"))
=============================================================================
