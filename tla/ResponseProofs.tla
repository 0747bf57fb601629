--------------------------- MODULE ResponseProofs ---------------------------
(***************************************************************************)
(* One upstream response, for any number of readers and chunks: a body is  *)
(* served whole, the upstream goroutine leaves the client's ResponseWriter *)
(* alone once ServeHTTP has returned, and it panics only for want of a     *)
(* body.  And what NewEntry decides of a response (CacheStatus), for any   *)
(* headers, clock and configuration.                                       *)
(***************************************************************************)
EXTENDS Response, CacheStatus, TLAPS

(* The header is sent once, and the handler goes on when it has it. *)
HeaderOnce ==
  /\ headersChan > 0 => wroteHeader /\ hpc = "headers"
  /\ ~wroteHeader => hpc = "headers"

(* Which body the handler has stored, by how far it is.  It sends the one  *)
(* token of bodyChan after it has stored the body, a nil one only when     *)
(* setBackend failed.                                                      *)
Unset == {"headers", "decide"}
BodyStored ==
  /\ hpc \in Unset => body = "nil" /\ ~backendErr
  /\ body = "torn" <=> hpc = "setBody"
  /\ body = "backend" => isPublic
  /\ body = "writer" => ~isPublic
  /\ backendErr => body = "nil" /\ isPublic /\ hpc \in {"sendBody", "done"}
  /\ hpc = "sendBody" => body # "nil" \/ backendErr
  /\ hpc \in {"put", "getReader", "await", "open"} => body = "backend"
  /\ hpc = "waitClose" => body = "writer"
  /\ hpc = "setBody" => ~backendErr
  /\ bodyChan > 0 => hpc \notin Unset \cup {"setBody", "sendBody"} /\ (body = "nil" => backendErr)

(* Where the upstream goroutine is: it writes no more chunks than it has,  *)
(* closes a body it was told of, and has sent what it has passed.          *)
Closing == {"complete"} \cup Ended
UpstreamAt ==
  /\ upc \in {"write", "writeWait", "writeBody"} => chunks < MaxWrites
  /\ upc \in {"closeBody", "panicked"} => body # "nil" \/ backendErr
  /\ upc = "panicked" => body \in {"nil", "torn"}
  /\ upc \in Closing => body \in {"backend", "writer"}
  /\ bodyComplete <=> upc \in Ended
  /\ bodyCompleteChan > 0 => upc \in {"sendClosed", "closed"}
  /\ closedChan > 0 => upc = "closed"

(* Whoever has passed GetReader or WaitClose did so after the body ended. *)
PassedLate ==
  /\ \A r \in Readers : rpc[r] = "open" => upc \in Ended
  /\ hpc = "open" => upc \in Ended
  /\ hpc = "done" /\ body = "writer" => upc = "closed"
  /\ \A r \in Readers \cup {handler} : got[r] # None => got[r] = chunks /\ upc \in Ended

IndInv == TypeOK /\ HeaderOnce /\ BodyStored /\ UpstreamAt /\ PassedLate

LEMMA InitIndInv == Init => IndInv
<1> SUFFICES ASSUME Init PROVE IndInv OBVIOUS
<1>1. TypeOK
  <2>1. /\ wroteHeader \in BOOLEAN /\ bodyComplete \in BOOLEAN /\ isPublic \in BOOLEAN
        /\ backendErr \in BOOLEAN
        BY DEF Init
  <2>2. /\ got = [r \in Readers \cup {handler} |-> None] /\ rpc = [r \in Readers |-> "idle"]
        /\ chunks = 0 /\ cached = "no" /\ method \in {"GET", "HEAD"} /\ Code = 200
        /\ upc = "serving" /\ hpc = "headers" /\ body = "nil" /\ err = "nil"
        /\ errChan = None /\ upstreamError = None
        BY DEF Init
  <2>3. {headersChan, bodyChan, bodyCompleteChan, closedChan} \subseteq 0 .. 1 BY DEF Init
  <2> QED BY <2>1, <2>2, <2>3, WritesAssumption DEF TypeOK, PCs
<1>2. HeaderOnce BY DEF Init, HeaderOnce
<1>3. BodyStored BY DEF Init, BodyStored, Unset
<1>4. UpstreamAt BY DEF Init, UpstreamAt, Closing, Ended
<1>5. PassedLate BY DEF Init, PassedLate
<1> QED BY <1>1, <1>2, <1>3, <1>4, <1>5 DEF IndInv

(* A call that may send the header. *)
LEMMA HeaderRecorded ==
  ASSUME TypeOK, HeaderOnce, NEW code \in {200, 500}, recordHeader(code), hpc' = hpc
  PROVE  /\ HeaderOnce' /\ headersChan' \in 0 .. 1
         /\ Code' \in {200, 500} /\ wroteHeader' \in BOOLEAN
<1>1. CASE wroteHeader BY <1>1 DEF TypeOK, HeaderOnce, recordHeader, respVars
<1>2. CASE ~wroteHeader
  <2>1. headersChan = 0 BY <1>2 DEF TypeOK, HeaderOnce
  <2> QED BY <1>2, <2>1 DEF TypeOK, HeaderOnce, recordHeader
<1> QED BY <1>1, <1>2

(* The upstream goroutine. *)
LEMMA UpstreamSteps ==
  ASSUME IndInv, upc # "panicked", UpstreamStep
  PROVE  IndInv'
<1> USE DEF Upstream, upstreamFrame, respVars, bodyVars, doneVars, reqVars
<1>0. TypeOK /\ HeaderOnce /\ BodyStored /\ UpstreamAt /\ PassedLate BY DEF IndInv
<1>1. CASE \E code \in {200, 500} : WriteHeader(code)
  <2>0. HeaderOnce' /\ headersChan' \in 0 .. 1 /\ Code' \in {200, 500} /\ wroteHeader' \in BOOLEAN
    BY <1>0, <1>1, HeaderRecorded DEF TypeOK, WriteHeader
  <2>1. TypeOK' BY <1>0, <1>1, <2>0 DEF TypeOK, PCs, WriteHeader
  <2>2. BodyStored' /\ UpstreamAt'
    BY <1>0, <1>1 DEF BodyStored, UpstreamAt, Closing, Ended, WriteHeader
  <2>3. PassedLate' BY <1>0, <1>1 DEF PassedLate, Ended, WriteHeader
  <2> QED BY <2>0, <2>1, <2>2, <2>3 DEF IndInv
<1>2. CASE Flush
  <2>0. HeaderOnce' /\ headersChan' \in 0 .. 1 /\ Code' \in {200, 500} /\ wroteHeader' \in BOOLEAN
    BY <1>0, <1>2, HeaderRecorded DEF TypeOK, Flush
  <2>1. TypeOK' BY <1>0, <1>2, <2>0 DEF TypeOK, PCs, Flush
  <2>2. BodyStored' /\ UpstreamAt'
    BY <1>0, <1>2 DEF BodyStored, UpstreamAt, Closing, Ended, Flush
  <2>3. PassedLate' BY <1>0, <1>2 DEF PassedLate, Ended, Flush
  <2> QED BY <2>0, <2>1, <2>2, <2>3 DEF IndInv
<1>3. CASE Write
  <2>0. HeaderOnce' /\ headersChan' \in 0 .. 1 /\ Code' \in {200, 500} /\ wroteHeader' \in BOOLEAN
    BY <1>0, <1>3, HeaderRecorded DEF TypeOK, Write
  <2>1. TypeOK' BY <1>0, <1>3, <2>0 DEF TypeOK, PCs, Write
  <2>2. BodyStored' /\ UpstreamAt'
    BY <1>0, <1>3 DEF BodyStored, UpstreamAt, Closing, Ended, Write
  <2>3. PassedLate' BY <1>0, <1>3 DEF PassedLate, Ended, Write
  <2> QED BY <2>0, <2>1, <2>2, <2>3 DEF IndInv
<1>4. CASE WriteCheckBody
  <2>1. TypeOK'
    BY <1>0, <1>4, WritesAssumption DEF TypeOK, PCs, UpstreamAt, WriteCheckBody
  <2>2. HeaderOnce' /\ BodyStored'
    BY <1>0, <1>4 DEF TypeOK, HeaderOnce, BodyStored, Unset, WriteCheckBody
  <2>3. UpstreamAt'
    BY <1>0, <1>4 DEF TypeOK, PCs, BodyStored, Unset, UpstreamAt, Closing, Ended,
       WriteCheckBody
  <2>4. PassedLate'
    BY <1>0, <1>4, NoneAssumption DEF TypeOK, PCs, BodyStored, Unset, UpstreamAt,
       PassedLate, Closing, Ended, WriteCheckBody
  <2> QED BY <2>1, <2>2, <2>3, <2>4 DEF IndInv
<1>5. CASE WriteTakeToken
  <2>1. TypeOK'
    BY <1>0, <1>5, WritesAssumption DEF TypeOK, PCs, UpstreamAt, WriteTakeToken
  <2>2. HeaderOnce' /\ BodyStored'
    BY <1>0, <1>5 DEF TypeOK, HeaderOnce, BodyStored, Unset, WriteTakeToken
  <2>3. UpstreamAt'
    BY <1>0, <1>5 DEF TypeOK, PCs, BodyStored, Unset, UpstreamAt, Closing, Ended,
       WriteTakeToken
  <2>4. PassedLate'
    BY <1>0, <1>5, NoneAssumption DEF TypeOK, PCs, BodyStored, Unset, UpstreamAt,
       PassedLate, Closing, Ended, WriteTakeToken
  <2> QED BY <2>1, <2>2, <2>3, <2>4 DEF IndInv
<1>6. CASE WriteRefused
  <2>1. TypeOK' BY <1>0, <1>6, WritesAssumption DEF TypeOK, PCs, UpstreamAt, WriteRefused
  <2>2. HeaderOnce' /\ BodyStored'
    BY <1>0, <1>6 DEF TypeOK, HeaderOnce, BodyStored, Unset, WriteRefused
  <2>3. UpstreamAt'
    BY <1>0, <1>6 DEF TypeOK, PCs, BodyStored, Unset, UpstreamAt, Closing, Ended,
       WriteRefused
  <2>4. PassedLate'
    BY <1>0, <1>6, NoneAssumption DEF TypeOK, PCs, BodyStored, Unset, UpstreamAt,
       PassedLate, Closing, Ended, WriteRefused
  <2> QED BY <2>1, <2>2, <2>3, <2>4 DEF IndInv
<1>7. CASE WriteBody
  <2>1. TypeOK' BY <1>0, <1>7, WritesAssumption DEF TypeOK, PCs, UpstreamAt, WriteBody
  <2>2. HeaderOnce' /\ BodyStored'
    BY <1>0, <1>7 DEF TypeOK, HeaderOnce, BodyStored, Unset, WriteBody
  <2>3. UpstreamAt'
    BY <1>0, <1>7 DEF TypeOK, PCs, BodyStored, Unset, UpstreamAt, Closing, Ended,
       WriteBody
  <2>4. PassedLate'
    BY <1>0, <1>7, NoneAssumption DEF TypeOK, PCs, BodyStored, Unset, UpstreamAt,
       PassedLate, Closing, Ended, WriteBody
  <2> QED BY <2>1, <2>2, <2>3, <2>4 DEF IndInv
<1>8. CASE \E e \in {"nil", "err"} : Return(e)
  <2>1. TypeOK' BY <1>0, <1>8, WritesAssumption DEF TypeOK, PCs, UpstreamAt, Return
  <2>2. HeaderOnce' /\ BodyStored'
    BY <1>0, <1>8 DEF TypeOK, HeaderOnce, BodyStored, Unset, Return
  <2>3. UpstreamAt'
    BY <1>0, <1>8 DEF TypeOK, PCs, BodyStored, Unset, UpstreamAt, Closing, Ended, Return
  <2>4. PassedLate'
    BY <1>0, <1>8, NoneAssumption DEF TypeOK, PCs, BodyStored, Unset, UpstreamAt,
       PassedLate, Closing, Ended, Return
  <2> QED BY <2>1, <2>2, <2>3, <2>4 DEF IndInv
<1>9. CASE CloseCheckBody
  <2>1. TypeOK'
    BY <1>0, <1>9, WritesAssumption DEF TypeOK, PCs, UpstreamAt, CloseCheckBody
  <2>2. HeaderOnce' /\ BodyStored'
    BY <1>0, <1>9 DEF TypeOK, HeaderOnce, BodyStored, Unset, CloseCheckBody
  <2>3. UpstreamAt'
    BY <1>0, <1>9 DEF TypeOK, PCs, BodyStored, Unset, UpstreamAt, Closing, Ended,
       CloseCheckBody
  <2>4. PassedLate'
    BY <1>0, <1>9, NoneAssumption DEF TypeOK, PCs, BodyStored, Unset, UpstreamAt,
       PassedLate, Closing, Ended, CloseCheckBody
  <2> QED BY <2>1, <2>2, <2>3, <2>4 DEF IndInv
<1>10. CASE CloseTakeToken
  <2>1. TypeOK'
    BY <1>0, <1>10, WritesAssumption DEF TypeOK, PCs, UpstreamAt, CloseTakeToken
  <2>2. HeaderOnce' /\ BodyStored'
    BY <1>0, <1>10 DEF TypeOK, HeaderOnce, BodyStored, Unset, CloseTakeToken
  <2>3. UpstreamAt'
    BY <1>0, <1>10 DEF TypeOK, PCs, BodyStored, Unset, UpstreamAt, Closing, Ended,
       CloseTakeToken
  <2>4. PassedLate'
    BY <1>0, <1>10, NoneAssumption DEF TypeOK, PCs, BodyStored, Unset, UpstreamAt,
       PassedLate, Closing, Ended, CloseTakeToken
  <2> QED BY <2>1, <2>2, <2>3, <2>4 DEF IndInv
<1>11. CASE CloseBody
  <2>1. TypeOK' BY <1>0, <1>11, WritesAssumption DEF TypeOK, PCs, UpstreamAt, CloseBody
  <2>2. HeaderOnce' /\ BodyStored'
    BY <1>0, <1>11 DEF TypeOK, HeaderOnce, BodyStored, Unset, CloseBody
  <2>3. UpstreamAt'
    BY <1>0, <1>11 DEF TypeOK, PCs, BodyStored, Unset, UpstreamAt, Closing, Ended,
       CloseBody
  <2>4. PassedLate'
    BY <1>0, <1>11, NoneAssumption DEF TypeOK, PCs, BodyStored, Unset, UpstreamAt,
       PassedLate, Closing, Ended, CloseBody
  <2> QED BY <2>1, <2>2, <2>3, <2>4 DEF IndInv
<1>12. CASE MarkComplete
  <2>1. TypeOK' BY <1>0, <1>12, WritesAssumption DEF TypeOK, PCs, UpstreamAt, MarkComplete
  <2>2. HeaderOnce' /\ BodyStored'
    BY <1>0, <1>12 DEF TypeOK, HeaderOnce, BodyStored, Unset, MarkComplete
  <2>3. UpstreamAt'
    BY <1>0, <1>12 DEF TypeOK, PCs, BodyStored, Unset, UpstreamAt, Closing, Ended,
       MarkComplete
  <2>4. PassedLate'
    BY <1>0, <1>12, NoneAssumption DEF TypeOK, PCs, BodyStored, Unset, UpstreamAt,
       PassedLate, Closing, Ended, MarkComplete
  <2> QED BY <2>1, <2>2, <2>3, <2>4 DEF IndInv
<1>13. CASE SendComplete
  <2>1. TypeOK' BY <1>0, <1>13, WritesAssumption DEF TypeOK, PCs, UpstreamAt, SendComplete
  <2>2. HeaderOnce' /\ BodyStored'
    BY <1>0, <1>13 DEF TypeOK, HeaderOnce, BodyStored, Unset, SendComplete
  <2>3. UpstreamAt'
    BY <1>0, <1>13 DEF TypeOK, PCs, BodyStored, Unset, UpstreamAt, Closing, Ended,
       SendComplete
  <2>4. PassedLate'
    BY <1>0, <1>13, NoneAssumption DEF TypeOK, PCs, BodyStored, Unset, UpstreamAt,
       PassedLate, Closing, Ended, SendComplete
  <2> QED BY <2>1, <2>2, <2>3, <2>4 DEF IndInv
<1>14. CASE SendClosed
  <2>1. TypeOK' BY <1>0, <1>14, WritesAssumption DEF TypeOK, PCs, UpstreamAt, SendClosed
  <2>2. HeaderOnce' /\ BodyStored'
    BY <1>0, <1>14 DEF TypeOK, HeaderOnce, BodyStored, Unset, SendClosed
  <2>3. UpstreamAt'
    BY <1>0, <1>14 DEF TypeOK, PCs, BodyStored, Unset, UpstreamAt, Closing, Ended,
       SendClosed
  <2>4. PassedLate'
    BY <1>0, <1>14, NoneAssumption DEF TypeOK, PCs, BodyStored, Unset, UpstreamAt,
       PassedLate, Closing, Ended, SendClosed
  <2> QED BY <2>1, <2>2, <2>3, <2>4 DEF IndInv
<1> QED BY <1>1, <1>2, <1>3, <1>4, <1>5, <1>6, <1>7, <1>8, <1>9, <1>10, <1>11, <1>12,
        <1>13, <1>14 DEF UpstreamStep

(* The handler, up to where it reads the body. *)
LEMMA HandlerSteps ==
  ASSUME IndInv, upc # "panicked", 
         fetchUpstream \/ respondStale \/ returnError \/ respondPrivateHead \/ SetBodyType
         \/ SetBodyValue \/ SetBodySend \/ Put \/ WaitClose
  PROVE  IndInv'
<1> USE DEF Handler, handlerFrame, bodyVars, doneVars
<1>0. TypeOK /\ HeaderOnce /\ BodyStored /\ UpstreamAt /\ PassedLate BY DEF IndInv
<1>1. CASE fetchUpstream
  <2>1. TypeOK' BY <1>0, <1>1, WritesAssumption DEF TypeOK, PCs, UpstreamAt, fetchUpstream
  <2>2. HeaderOnce' /\ BodyStored'
    BY <1>0, <1>1 DEF TypeOK, HeaderOnce, BodyStored, Unset, fetchUpstream
  <2>3. UpstreamAt'
    BY <1>0, <1>1 DEF TypeOK, PCs, BodyStored, Unset, UpstreamAt, Closing, Ended,
       fetchUpstream
  <2>4. PassedLate'
    BY <1>0, <1>1, NoneAssumption DEF TypeOK, PCs, BodyStored, Unset, UpstreamAt,
       PassedLate, Closing, Ended, fetchUpstream
  <2> QED BY <2>1, <2>2, <2>3, <2>4 DEF IndInv
<1>2. CASE respondStale
  <2>1. TypeOK' BY <1>0, <1>2, WritesAssumption DEF TypeOK, PCs, UpstreamAt, respondStale
  <2>2. HeaderOnce' /\ BodyStored'
    BY <1>0, <1>2 DEF TypeOK, HeaderOnce, BodyStored, Unset, respondStale
  <2>3. UpstreamAt'
    BY <1>0, <1>2 DEF TypeOK, PCs, BodyStored, Unset, UpstreamAt, Closing, Ended,
       respondStale
  <2>4. PassedLate'
    BY <1>0, <1>2, NoneAssumption DEF TypeOK, PCs, BodyStored, Unset, UpstreamAt,
       PassedLate, Closing, Ended, respondStale
  <2> QED BY <2>1, <2>2, <2>3, <2>4 DEF IndInv
<1>3. CASE returnError
  <2>1. TypeOK' BY <1>0, <1>3, WritesAssumption DEF TypeOK, PCs, UpstreamAt, returnError
  <2>2. HeaderOnce' /\ BodyStored'
    BY <1>0, <1>3 DEF TypeOK, HeaderOnce, BodyStored, Unset, returnError
  <2>3. UpstreamAt'
    BY <1>0, <1>3 DEF TypeOK, PCs, BodyStored, Unset, UpstreamAt, Closing, Ended,
       returnError
  <2>4. PassedLate'
    BY <1>0, <1>3, NoneAssumption DEF TypeOK, PCs, BodyStored, Unset, UpstreamAt,
       PassedLate, Closing, Ended, returnError
  <2> QED BY <2>1, <2>2, <2>3, <2>4 DEF IndInv
<1>4. CASE respondPrivateHead
  <2>1. TypeOK'
    BY <1>0, <1>4, WritesAssumption DEF TypeOK, PCs, UpstreamAt, respondPrivateHead
  <2>2. HeaderOnce' /\ BodyStored'
    BY <1>0, <1>4 DEF TypeOK, HeaderOnce, BodyStored, Unset, respondPrivateHead
  <2>3. UpstreamAt'
    BY <1>0, <1>4 DEF TypeOK, PCs, BodyStored, Unset, UpstreamAt, Closing, Ended,
       respondPrivateHead
  <2>4. PassedLate'
    BY <1>0, <1>4, NoneAssumption DEF TypeOK, PCs, BodyStored, Unset, UpstreamAt,
       PassedLate, Closing, Ended, respondPrivateHead
  <2> QED BY <2>1, <2>2, <2>3, <2>4 DEF IndInv
<1>5. CASE SetBodyType
  <2>0. /\ hpc' \in {"setBody", "sendBody"} /\ body' \in {"torn", "nil"}
        /\ backendErr' \in BOOLEAN
    BY <1>0, <1>5 DEF TypeOK, SetBodyType
  <2>1. TypeOK'
    BY <1>0, <1>5, <2>0, WritesAssumption DEF TypeOK, PCs, UpstreamAt, SetBodyType
  <2>2. HeaderOnce' /\ BodyStored'
    BY <1>0, <1>5, <2>0 DEF TypeOK, HeaderOnce, BodyStored, Unset, SetBodyType
  <2>3. UpstreamAt'
    BY <1>0, <1>5, <2>0 DEF TypeOK, PCs, BodyStored, Unset, UpstreamAt, Closing, Ended,
       SetBodyType
  <2>4. PassedLate'
    BY <1>0, <1>5, <2>0, NoneAssumption DEF TypeOK, PCs, BodyStored, Unset, UpstreamAt,
       PassedLate, Closing, Ended, SetBodyType
  <2> QED BY <2>1, <2>2, <2>3, <2>4 DEF IndInv
<1>6. CASE SetBodyValue
  <2>1. TypeOK' BY <1>0, <1>6, WritesAssumption DEF TypeOK, PCs, UpstreamAt, SetBodyValue
  <2>2. HeaderOnce' /\ BodyStored'
    BY <1>0, <1>6 DEF TypeOK, HeaderOnce, BodyStored, Unset, SetBodyValue
  <2>3. UpstreamAt'
    BY <1>0, <1>6 DEF TypeOK, PCs, BodyStored, Unset, UpstreamAt, Closing, Ended,
       SetBodyValue
  <2>4. PassedLate'
    BY <1>0, <1>6, NoneAssumption DEF TypeOK, PCs, BodyStored, Unset, UpstreamAt,
       PassedLate, Closing, Ended, SetBodyValue
  <2> QED BY <2>1, <2>2, <2>3, <2>4 DEF IndInv
<1>7. CASE SetBodySend
  <2>0. /\ hpc = "sendBody" /\ body' = body /\ bodyChan' = 1
        /\ \/ backendErr /\ hpc' = "done"
           \/ ~backendErr /\ isPublic /\ hpc' = "put"
           \/ ~backendErr /\ ~isPublic /\ hpc' = "waitClose"
    <3>1. CASE backendErr
      <4>1. isPublic /\ hpc = "sendBody" BY <1>0, <1>7, <3>1 DEF BodyStored, SetBodySend
      <4> QED BY <1>7, <3>1, <4>1 DEF SetBodySend
    <3>2. CASE ~backendErr BY <1>0, <1>7, <3>2 DEF TypeOK, SetBodySend
    <3> QED BY <3>1, <3>2
  <2>1. TypeOK'
    BY <1>0, <1>7, <2>0, WritesAssumption DEF TypeOK, PCs, UpstreamAt, SetBodySend
  <2>2. HeaderOnce' /\ BodyStored'
    BY <1>0, <1>7, <2>0 DEF TypeOK, HeaderOnce, BodyStored, Unset, SetBodySend
  <2>3. UpstreamAt'
    BY <1>0, <1>7, <2>0 DEF TypeOK, PCs, BodyStored, Unset, UpstreamAt, Closing, Ended,
       SetBodySend
  <2>4. PassedLate'
    BY <1>0, <1>7, <2>0, NoneAssumption DEF TypeOK, PCs, BodyStored, Unset, UpstreamAt,
       PassedLate, Closing, Ended, SetBodySend
  <2> QED BY <2>1, <2>2, <2>3, <2>4 DEF IndInv
<1>8. CASE Put
  <2>1. TypeOK' BY <1>0, <1>8, WritesAssumption DEF TypeOK, PCs, UpstreamAt, Put
  <2>2. HeaderOnce' /\ BodyStored'
    BY <1>0, <1>8 DEF TypeOK, HeaderOnce, BodyStored, Unset, Put
  <2>3. UpstreamAt'
    BY <1>0, <1>8 DEF TypeOK, PCs, BodyStored, Unset, UpstreamAt, Closing, Ended, Put
  <2>4. PassedLate'
    BY <1>0, <1>8, NoneAssumption DEF TypeOK, PCs, BodyStored, Unset, UpstreamAt,
       PassedLate, Closing, Ended, Put
  <2> QED BY <2>1, <2>2, <2>3, <2>4 DEF IndInv
<1>9. CASE WaitClose
  <2>1. TypeOK' BY <1>0, <1>9, WritesAssumption DEF TypeOK, PCs, UpstreamAt, WaitClose
  <2>2. HeaderOnce' /\ BodyStored'
    BY <1>0, <1>9 DEF TypeOK, HeaderOnce, BodyStored, Unset, WaitClose
  <2>3. UpstreamAt'
    BY <1>0, <1>9 DEF TypeOK, PCs, BodyStored, Unset, UpstreamAt, Closing, Ended,
       WaitClose
  <2>4. PassedLate'
    BY <1>0, <1>9, NoneAssumption DEF TypeOK, PCs, BodyStored, Unset, UpstreamAt,
       PassedLate, Closing, Ended, WaitClose
  <2> QED BY <2>1, <2>2, <2>3, <2>4 DEF IndInv
<1> QED BY <1>1, <1>2, <1>3, <1>4, <1>5, <1>6, <1>7, <1>8, <1>9

(* Whoever reads the body, the handler or a reader. *)
LEMMA ReaderSteps ==
  ASSUME IndInv, upc # "panicked", NEW r \in Readers \cup {handler},
         Get(r) \/ ReadStep(r)
  PROVE  IndInv'
<1> USE DEF Reader, Handler, respVars, bodyVars, doneVars, errVars, reqVars, handler
<1>0. TypeOK /\ HeaderOnce /\ BodyStored /\ UpstreamAt /\ PassedLate BY DEF IndInv
<1>1. CASE Get(r)
  <2>0. hpc' = hpc BY <1>0, <1>1 DEF TypeOK, PCs, Get
  <2>1. TypeOK' BY <1>0, <1>1, <2>0, WritesAssumption DEF TypeOK, PCs, UpstreamAt, Get
  <2>2. HeaderOnce' /\ BodyStored'
    BY <1>0, <1>1, <2>0 DEF TypeOK, HeaderOnce, BodyStored, Unset, Get
  <2>3. UpstreamAt'
    BY <1>0, <1>1, <2>0 DEF TypeOK, PCs, BodyStored, Unset, UpstreamAt, Closing, Ended,
       Get
  <2>4. PassedLate'
    BY <1>0, <1>1, <2>0, NoneAssumption DEF TypeOK, PCs, BodyStored, Unset, UpstreamAt,
       PassedLate, Closing, Ended, Get
  <2> QED BY <2>1, <2>2, <2>3, <2>4 DEF IndInv
<1>2. CASE GetReader(r)
  <2>1. TypeOK' BY <1>0, <1>2, WritesAssumption DEF TypeOK, PCs, UpstreamAt, GetReader
  <2>2. HeaderOnce' /\ BodyStored'
    BY <1>0, <1>2 DEF TypeOK, HeaderOnce, BodyStored, Unset, GetReader
  <2>3. UpstreamAt'
    BY <1>0, <1>2 DEF TypeOK, PCs, BodyStored, Unset, UpstreamAt, Closing, Ended,
       GetReader
  <2>4. PassedLate'
    BY <1>0, <1>2, NoneAssumption DEF TypeOK, PCs, BodyStored, Unset, UpstreamAt,
       PassedLate, Closing, Ended, GetReader
  <2> QED BY <2>1, <2>2, <2>3, <2>4 DEF IndInv
<1>3. CASE GetReaderTakeToken(r)
  <2>1. TypeOK'
    BY <1>0, <1>3, WritesAssumption DEF TypeOK, PCs, UpstreamAt, GetReaderTakeToken
  <2>2. HeaderOnce' /\ BodyStored'
    BY <1>0, <1>3 DEF TypeOK, HeaderOnce, BodyStored, Unset, GetReaderTakeToken
  <2>3. UpstreamAt'
    BY <1>0, <1>3 DEF TypeOK, PCs, BodyStored, Unset, UpstreamAt, Closing, Ended,
       GetReaderTakeToken
  <2>4. PassedLate'
    BY <1>0, <1>3, NoneAssumption DEF TypeOK, PCs, BodyStored, Unset, UpstreamAt,
       PassedLate, Closing, Ended, GetReaderTakeToken
  <2> QED BY <2>1, <2>2, <2>3, <2>4 DEF IndInv
<1>4. CASE CopyBody(r)
  <2>1. TypeOK' BY <1>0, <1>4, WritesAssumption DEF TypeOK, PCs, UpstreamAt, CopyBody
  <2>2. HeaderOnce' /\ BodyStored'
    BY <1>0, <1>4 DEF TypeOK, HeaderOnce, BodyStored, Unset, CopyBody
  <2>3. UpstreamAt'
    BY <1>0, <1>4 DEF TypeOK, PCs, BodyStored, Unset, UpstreamAt, Closing, Ended,
       CopyBody
  <2>4. PassedLate'
    BY <1>0, <1>4, NoneAssumption DEF TypeOK, PCs, BodyStored, Unset, UpstreamAt,
       PassedLate, Closing, Ended, CopyBody
  <2> QED BY <2>1, <2>2, <2>3, <2>4 DEF IndInv
<1> QED BY <1>1, <1>2, <1>3, <1>4 DEF ReadStep

LEMMA StepIndInv == IndInv /\ [Next]_vars => IndInv'
<1> SUFFICES ASSUME IndInv, [Next]_vars PROVE IndInv' OBVIOUS
<1>1. CASE UpstreamStep /\ upc # "panicked" BY <1>1, UpstreamSteps
<1>2. CASE HandlerStep /\ upc # "panicked" BY <1>2, HandlerSteps, ReaderSteps DEF HandlerStep
<1>3. ASSUME NEW r \in Readers, Get(r) \/ ReadStep(r), upc # "panicked" PROVE IndInv'
  BY <1>3, ReaderSteps
<1>4. CASE cleanEntry
  BY <1>4 DEF IndInv, TypeOK, HeaderOnce, BodyStored, UpstreamAt, PassedLate, cleanEntry,
              respVars, bodyVars, doneVars, errVars, reqVars
<1>5. CASE UNCHANGED vars
  BY <1>5 DEF IndInv, TypeOK, HeaderOnce, BodyStored, UpstreamAt, PassedLate, vars,
              respVars, bodyVars, doneVars, errVars, reqVars
<1> QED BY <1>1, <1>2, <1>3, <1>4, <1>5 DEF Next

(* What the goroutines and the channels of a response agree on. *)
THEOREM Inductive == Spec => []IndInv
BY InitIndInv, StepIndInv, PTL DEF Spec

(* The types, and no channel of a Response ever holds more than the one    *)
(* token it has room for, so no send of response.go blocks.                *)
THEOREM TypeCorrect == Spec => []TypeOK
BY Inductive, PTL DEF IndInv

(* Whoever passed GetReader or WaitClose has the whole body: the upstream  *)
(* writes nothing to it any more (response.go, Close).                     *)
THEOREM BodiesServedWhole == Spec => []ServedWhole
<1>1. IndInv => ServedWhole BY DEF IndInv, PassedLate, ServedWhole
<1> QED BY <1>1, Inductive, PTL

(* Once ServeHTTP has returned the upstream goroutine does not write to    *)
(* the client's ResponseWriter (writePrivateResponse, WaitClose).          *)
THEOREM WriterLeftAlone == Spec => []NoWriteAfterReturn
<1>1. IndInv => NoWriteAfterReturn BY DEF IndInv, PassedLate, NoWriteAfterReturn
<1> QED BY <1>1, Inductive, PTL

(* The upstream goroutine panics only on a nil body that setBackend stored *)
(* when it failed, or on one it reads between the two stores of SetBody.   *)
THEOREM PanicsExplained == Spec => []PanicsOnlyWithoutBody
<1>1. IndInv => PanicsOnlyWithoutBody
  BY DEF IndInv, UpstreamAt, PanicsOnlyWithoutBody
<1> QED BY <1>1, Inductive, PTL

-----------------------------------------------------------------------------
(* What NewEntry decides of a response. *)
(* What NewEntry leaves behind. *)
Judged ==
  /\ response \in Responses
  /\ entry = Absent \/ \E delay \in Delays :
       entry = [status |-> getCacheStatus(response, Received + delay),
                now |-> Received + delay]

(* NewEntry is called once, and its verdict stays. *)
LEMMA JudgedInductive == StatusSpec => []Judged
<1>1. StatusInit => Judged BY DEF StatusInit, Judged
<1>2. Judged /\ [StatusNext]_statusVars => Judged'
  BY DEF Judged, StatusNext, NewEntry, statusVars
<1> QED BY <1>1, <1>2, PTL DEF StatusSpec

(* What the fields of a response hold. *)
LEMMA ResponseFields ==
  ASSUME NEW r \in Responses
  PROVE  /\ r.code \in {200, 206, 304} /\ r.contentRange \in BOOLEAN /\ r.malformed \in BOOLEAN
         /\ r.reasons \in BOOLEAN /\ r.rules \subseteq BOOLEAN
         /\ r.sMaxAge \in Nat \cup {-1} /\ r.maxAge \in Nat \cup {-1}
         /\ r.expires \notin {Absent, Zero} => r.expires \in Int
         /\ r.date # Absent => r.date \in Int
BY AgesAssumption, DatesAssumption DEF Responses

(* An expiration is an instant. *)
LEMMA ExpirationInt ==
  ASSUME NEW r \in Responses
  PROVE  expirationObject(r) \in Int
<1>1. \A m \in Nat : Second * m \in Int BY SecondAssumption
<1>2. CASE r.sMaxAge # -1
  BY <1>1, <1>2, ResponseFields DEF expirationObject, Received
<1>3. CASE r.sMaxAge = -1 /\ r.maxAge # -1
  BY <1>1, <1>3, ResponseFields DEF expirationObject, Received
<1>4. CASE r.sMaxAge = -1 /\ r.maxAge = -1
  BY <1>4, ResponseFields DEF expirationObject, Received
<1> QED BY <1>2, <1>3, <1>4

(* A public verdict: the response is cachable, and expires when            *)
(* expirationObject says or, if that is too soon, after the default time.  *)
LEMMA PublicVerdict ==
  ASSUME NEW r \in Responses, NEW now \in Int
  PROVE  /\ getCacheStatus(r, now).isPublic <=> Cachable(r)
         /\ getCacheStatus(r, now).isPublic =>
              getCacheStatus(r, now).expiration =
                IF now > expirationObject(r) - Second
                THEN now + DefaultMaxAge ELSE expirationObject(r)
<1>1. r.code \in {200, 206, 304} /\ r.contentRange \in BOOLEAN /\ r.rules \subseteq BOOLEAN
      BY ResponseFields
<1>2. ASSUME NEW t PROVE ~private(t).isPublic BY DEF private
<1>3. CASE r.code = 206 \/ r.contentRange
  <2>1. getCacheStatus(r, now) = private(now + LockTimeout)
    <3>1. CASE r.code = 206 BY <3>1 DEF getCacheStatus
    <3>2. CASE r.contentRange BY <3>2 DEF getCacheStatus
    <3> QED BY <1>3, <3>1, <3>2
  <2> QED BY <1>2, <1>3, <2>1 DEF Cachable
<1>4. CASE r.code = 304 /\ ~r.contentRange
  <2>1. getCacheStatus(r, now) = private(now)
    BY <1>4 DEF getCacheStatus
  <2> QED BY <1>2, <1>4, <2>1 DEF Cachable
<1>5. CASE r.code = 200 /\ ~r.contentRange
  <2>1. CASE Cachable(r)
    <3>1. getCacheStatus(r, now) =
            [isPublic |-> TRUE, expiration |-> IF now > expirationObject(r) - Second
                                               THEN now + DefaultMaxAge
                                               ELSE expirationObject(r)]
      BY <1>1, <1>5, <2>1 DEF getCacheStatus, Cachable
    <3> QED BY <2>1, <3>1
  <2>2. CASE ~Cachable(r)
    <3>1. r.malformed \/ r.reasons \/ r.vary = "*" \/ FALSE \in r.rules
      <4>1. ASSUME FALSE \notin r.rules, NEW b \in r.rules PROVE b = TRUE BY <1>1, <4>1, Zenon
      <4>2. FALSE \in r.rules \/ r.rules \subseteq {TRUE} BY <4>1, Zenon
      <4>3. r.code \notin {206, 304} /\ ~r.contentRange BY <1>5
      <4> QED BY <2>2, <4>2, <4>3, Zenon DEF Cachable
    <3>2. \E t \in {Zero, now + LockTimeout, now} : getCacheStatus(r, now) = private(t)
      <4>1. CASE r.malformed BY <1>5, <4>1 DEF getCacheStatus
      <4>2. CASE ~r.malformed /\ (r.reasons \/ r.vary = "*")
        <5>1. CASE r.reasons BY <1>5, <4>2, <5>1 DEF getCacheStatus
        <5>2. CASE r.vary = "*" BY <1>5, <4>2, <5>2 DEF getCacheStatus
        <5> QED BY <4>2, <5>1, <5>2
      <4>3. CASE ~r.malformed /\ ~(r.reasons \/ r.vary = "*") /\ FALSE \in r.rules
        BY <1>5, <4>3 DEF getCacheStatus
      <4> QED BY <3>1, <4>1, <4>2, <4>3
    <3> QED BY <1>2, <2>2, <3>2
  <2> QED BY <2>1, <2>2
<1> QED BY <1>1, <1>3, <1>4, <1>5

(* A response is shared exactly when getCacheStatus should: it is complete *)
(* and understood, cacheobject finds no reason against it, it does not     *)
(* vary on everything and every configured rule matches it.                *)
THEOREM PublicExactly == StatusSpec => []PublicIffCachable
<1>1. Judged => PublicIffCachable
  BY PublicVerdict, DatesAssumption DEF Judged, PublicIffCachable, Received
<1> QED BY <1>1, JudgedInductive, PTL

(* What goes into the cache is fresh when it does, by a second or by the   *)
(* default age, however late the second reading of the clock is.           *)
THEOREM FreshWhenStored == StatusSpec => []StoredFresh
<1>1. Judged => StoredFresh
  BY PublicVerdict, ExpirationInt, SecondAssumption, ConfigAssumption, DatesAssumption
     DEF Judged, StoredFresh, Received
<1> QED BY <1>1, JudgedInductive, PTL

(* The lifetime given first is the one expirationObject adds. *)
LEMMA FirstGivenCounts ==
  ASSUME NEW r \in Responses, NEW i \in 1 .. 3, FirstGiven(r, i)
  PROVE  /\ Lifetimes(r)[i] \in Int
         /\ expirationObject(r) = Received + Lifetimes(r)[i]
<1>1. (\A m \in Nat : Second * m \in Int) /\ Absent \notin Int
      BY SecondAssumption, AbsentAssumption
<1>2. /\ Lifetimes(r)[1] = IF r.sMaxAge = -1 THEN Absent ELSE Second * r.sMaxAge
      /\ Lifetimes(r)[2] = IF r.maxAge = -1 THEN Absent ELSE Second * r.maxAge
      /\ Lifetimes(r)[3] = IF r.expires = Absent THEN Absent
                                  ELSE IF r.expires = Zero THEN 0
                                  ELSE IF r.date = Absent THEN r.expires - Received
                                  ELSE r.expires - r.date
      BY DEF Lifetimes
<1>3. Lifetimes(r)[i] # Absent /\ \A j \in 1 .. 3 : j < i => Lifetimes(r)[j] = Absent
      BY DEF FirstGiven
<1>4. CASE i = 1
  <2>1. r.sMaxAge # -1 BY <1>2, <1>3, <1>4
  <2> QED BY <1>1, <1>2, <1>4, <2>1, ResponseFields DEF expirationObject, Received
<1>5. CASE i = 2
  <2>1. r.maxAge # -1 BY <1>2, <1>3, <1>5
  <2>2. r.sMaxAge = -1 BY <1>1, <1>2, <1>3, <1>5, ResponseFields
  <2> QED BY <1>1, <1>2, <1>5, <2>1, <2>2, ResponseFields
      DEF expirationObject, Received
<1>6. CASE i = 3
  <2>1. r.expires # Absent BY <1>2, <1>3, <1>6
  <2>2. r.sMaxAge = -1 /\ r.maxAge = -1 BY <1>1, <1>2, <1>3, <1>6, ResponseFields
  <2>3. CASE r.expires = Zero
    BY <1>2, <1>6, <2>1, <2>2, <2>3 DEF expirationObject, Received
  <2>4. CASE r.expires # Zero
    <3>1. expirationObject(r) =
            Received + (r.expires - (IF r.date = Absent THEN Received ELSE r.date))
      BY <2>1, <2>2, <2>4 DEF expirationObject
    <3>2. r.expires \in Int /\ (r.date # Absent => r.date \in Int) BY <2>1, <2>4, ResponseFields
    <3> QED BY <1>2, <1>6, <2>1, <2>4, <3>1, <3>2 DEF Received
  <2> QED BY <2>3, <2>4
<1> QED BY <1>4, <1>5, <1>6

(* An explicit lifetime that outlasts the second and the delay is the one  *)
(* the entry gets, in the order of precedence of RFC 7234.                 *)
THEOREM LifetimesHonoured == StatusSpec => []LifetimeHonoured
<1>1. Judged => LifetimeHonoured
  <2> SUFFICES ASSUME Judged, entry # Absent, entry.status.isPublic, NEW i \in 1 .. 3,
                      FirstGiven(response, i),
                      Lifetimes(response)[i] >= Second + entry.now - Received
               PROVE  entry.status.expiration = Received + Lifetimes(response)[i]
      BY DEF LifetimeHonoured
  <2>1. PICK delay \in Delays :
          entry = [status |-> getCacheStatus(response, Received + delay),
                   now |-> Received + delay]
      BY DEF Judged
  <2>2. response \in Responses /\ delay \in Nat /\ Second \in Nat
      BY SecondAssumption, DatesAssumption DEF Judged
  <2>3. /\ Lifetimes(response)[i] \in Int
        /\ expirationObject(response) = Received + Lifetimes(response)[i]
      BY <2>2, FirstGivenCounts
  <2>4. entry.status.expiration =
          IF delay > expirationObject(response) - Second
          THEN delay + DefaultMaxAge ELSE expirationObject(response)
      BY <2>1, <2>2, PublicVerdict DEF Received
  <2>5. Lifetimes(response)[i] >= Second + delay BY <2>1, <2>2 DEF Received
  <2> QED BY <2>2, <2>3, <2>4, <2>5 DEF Received
<1> QED BY <1>1, JudgedInductive, PTL
=============================================================================
