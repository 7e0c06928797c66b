------------------------------ MODULE Handlers ------------------------------
(***************************************************************************)
(* adapters/http composed with the Engine: every request of module Engine  *)
(* is an HTTP request whose handler calls the Run method of its endpoint   *)
(* with the request's context and then passes the HealthResponse to write. *)
(*                                                                         *)
(* What a probe sees is the status code, whether the body is the health    *)
(* document or the plain text of http.Error, and whether all of it was     *)
(* handed to the ResponseWriter.  net/http (external) buffers what it is   *)
(* handed, and what it loses when it flushes after the handler returned is *)
(* no error that write sees; the model ends at the handler's return.       *)
(***************************************************************************)
EXTENDS EngineInv

VARIABLES
  wire,     \* what the handler has put on the wire for each request
  slogWarn  \* number of lines write logged through slog.Default()

hvars == <<vars, wire, slogWarn>>

nothing     == [code |-> 0, body |-> "none", stage |-> "none"]
aborted     == [code |-> 0, body |-> "none", stage |-> "aborted"]
contentType == "application/health+json"
plainText   == "text/plain"

HInit ==
  /\ Init
  /\ wire = [r \in Requests |-> nothing]
  /\ slogWarn = [r \in Requests |-> 0]

\* LivezHandler, ReadyzHandler and HealthzHandler up to the call of write, and
\* everything the Engine does meanwhile.
EngineStep ==
  /\ \/ Register \/ Serve
     \/ \E r \in Requests : Request(r)
     \/ \E r \in Requests, i \in Slots : Goroutine(r, i)
  /\ UNCHANGED <<wire, slogWarn>>

(***************************************************************************)
(* write.  The document is encoded into a buffer; the encoder can fail     *)
(* only on the ObservedValue of a check's own entry, for the heartbeat has *)
(* none.  ObservedValue is not part of the model, so a response with an    *)
(* entry of a check may or may not be encodable.                           *)
(***************************************************************************)
\* Mutation: write goes on after http.Error.
UnwrittenAfterError(r) == pc[r] = "done" /\ wire[r].code \in {0, 500}

Unwritten(r)       == pc[r] = "done" /\ wire[r] = nothing
CanFailToEncode(r) == DOMAIN out[r] # {systemTimeCheckName}

\* Mutation: the document is encoded straight onto the wire, so the code is out
\* when the encoder fails.
ErrorCodeUnbuffered(r) == HTTPStatusCode(status[r])

ErrorCode(r) == 500

\* Encode failed: http.Error writes the header and the text, and does not look
\* at the error of the write, so write cannot tell whether they got through.
WriteError(r) ==
  /\ Unwritten(r) /\ CanFailToEncode(r)
  /\ wire' = [wire EXCEPT ![r] =
                [code |-> ErrorCode(r), body |-> plainText, stage |-> "written"]]
  /\ UNCHANGED <<vars, slogWarn>>

\* Encode panicked, in the ObservedValue's own MarshalJSON.  encoding/json
\* recovers only its own errors, write does not recover, and net/http ends the
\* connection (external) without a reply.
WritePanics(r) ==
  /\ Unwritten(r) /\ CanFailToEncode(r)
  /\ wire' = [wire EXCEPT ![r] = aborted]
  /\ UNCHANGED <<vars, slogWarn>>

\* Encode succeeded: the media type and the code go out.
WriteHeader(r) ==
  /\ Unwritten(r)
  /\ wire' = [wire EXCEPT ![r] = [code |-> HTTPStatusCode(status[r]),
                                  body |-> contentType, stage |-> "header"]]
  /\ UNCHANGED <<vars, slogWarn>>

\* w.Write returned nil: net/http took the whole body, which is not to say that
\* the client got it.  Or it returned an error, with a client that is gone, and
\* slog.Default().WarnContext logs it.
WriteBody(r) ==
  /\ wire[r].stage = "header"
  /\ \/ /\ wire' = [wire EXCEPT ![r].stage = "written"]
        /\ UNCHANGED slogWarn
     \/ /\ wire' = [wire EXCEPT ![r].stage = "broken"]
        /\ slogWarn' = [slogWarn EXCEPT ![r] = @ + 1]
  /\ UNCHANGED vars

Write(r) == WriteError(r) \/ WritePanics(r) \/ WriteHeader(r) \/ WriteBody(r)

\* The handler has returned or panicked.
Ended(r) == wire[r].stage \in {"written", "broken", "aborted"}

HTerminated ==
  /\ phase = "panicked" \/ \A r \in Requests : Ended(r)
  /\ UNCHANGED hvars

HNext ==
  \/ EngineStep
  \/ \E r \in Requests : Write(r)
  \/ HTerminated

HSpec == HInit /\ [][HNext]_hvars

-----------------------------------------------------------------------------
\* Types of the adapter's own variables.
HTypeOK ==
  /\ wire \in [Requests -> [code  : {0, 200, 500, 503},
                             body  : {"none", contentType, plainText},
                             stage : {"none", "header", "written", "broken", "aborted"}]]
  /\ slogWarn \in [Requests -> Nat]

\* What kubelet acts on: a probe reads 503 only when a check of its own endpoint
\* failed in this very request, and 200 only when none did, however the checks
\* and the other requests interleaved; 500 says nothing about health, and goes
\* out only when some check had an entry in the response (write).
ProbeVerdict ==
  \A r \in Requests :
    /\ wire[r].code = 503 => Observed(r, StatusFail)
    /\ wire[r].code = 200 => ~Observed(r, StatusFail)
    /\ wire[r].code = 500 => \E i \in 1..Len(Scope(endpoint[r])) : runResults[r][i] # <<>>
    /\ wire[r].code # 0   => pc[r] = "done"

\* A request is answered once: from the first byte on, neither the code nor the
\* kind of the body changes, nor does anything in the response it is written
\* from, and nothing follows the end of the reply, whatever the goroutines of
\* this and of other requests do (write, runChecks).
ReplyOnce ==
  [][\A r \in Requests : wire[r] # nothing =>
       /\ wire'[r].code = wire[r].code /\ wire'[r].body = wire[r].body
       /\ status'[r] = status[r] /\ out'[r] = out[r]
       /\ Ended(r) => wire'[r] = wire[r]]_hvars

\* What the comment on write says: a response that cannot be encoded, by a
\* panic in a custom ObservedValue too, is answered with 500.  The code lets
\* the panic pass, and the request ends without a reply.
EncodeFailureReplied == \A r \in Requests : Ended(r) => wire[r].code # 0

\* The inductive invariant: a reply exists only for a finished response, and
\* is either the text of http.Error or the document under its own code.
WireInv(r) ==
  \/ wire[r] = nothing /\ slogWarn[r] = 0
  \/ /\ pc[r] = "done" /\ CanFailToEncode(r)
     /\ wire[r].code = 500 /\ wire[r].body = plainText /\ slogWarn[r] = 0
     /\ wire[r].stage = "written"
  \/ pc[r] = "done" /\ CanFailToEncode(r) /\ wire[r] = aborted /\ slogWarn[r] = 0
  \/ /\ pc[r] = "done"
     /\ wire[r].code = HTTPStatusCode(status[r]) /\ wire[r].body = contentType
     /\ wire[r].stage \in {"header", "written", "broken"}
     /\ slogWarn[r] = IF wire[r].stage = "broken" THEN 1 ELSE 0

\* At every point, whatever is on the wire for a request belongs to a response
\* that is complete: the document under the code of its own status, the text of
\* http.Error under 500, never one under the code of the other, or nothing at
\* all after a panic (write).
HInv == IInv /\ HTypeOK /\ \A r \in Requests : WireInv(r)
=============================================================================
