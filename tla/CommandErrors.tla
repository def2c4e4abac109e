---------------------------- MODULE CommandErrors ----------------------------
(***************************************************************************)
(* What a command means to its caller: the contracts each side resolves a  *)
(* name to (packages/contracts/src/registry, command, shared), the schemas *)
(* that validate an input and an ack on both sides, and the error codes    *)
(* (packages/contracts/src/errors) that failures of user code, schemas,    *)
(* policies and transport become on their way through the layers.          *)
(*                                                                         *)
(* Every action is one of CommandCall with its values and its code.  The   *)
(* shared contracts have one input schema, which either side runs: the     *)
(* client sends what it has normalized, and the server normalizes it again.*)
(***************************************************************************)
EXTENDS CommandCall, Sequences

CONSTANTS
  Names,       \* names of contracts
  Command,     \* the command that is called
  Values,      \* inputs, before or after a schema
  Thrown,      \* bound: codes of the realtime errors that user code throws itself
  MaxListed    \* bound: contracts given to a bucket of a registry

Sides == {"client", "server"}

\* REALTIME_ERROR_CODES.
Codes == {"invalid-input", "invalid-ack", "missing-ack", "invalid-event-payload",
          "invalid-channel-key", "unauthorized", "forbidden", "connection-denied",
          "join-denied", "command-failed", "timeout", "internal-error"}

ASSUME NamesAssumption == Command \in Names /\ MaxListed \in Nat
ASSUME ThrownAssumption == Thrown \subseteq Codes
ASSUME ValuesAssumption == Values \cap ({"invalid"} \cup Codes) = {}

VARIABLES
  registry,   \* side -> name -> the contract it resolves to
  schema,     \* the input schema: validates and transforms, or throws by itself
  input,      \* call -> what the caller gave
  errorCode,  \* call -> the code of the error on the wire
  seen,       \* call -> what the caller was rejected with
  threw       \* <<call, when>>: user code threw a realtime error of its own (history)

meaning == <<input, errorCode, seen, threw>>
fixed == <<registry, schema>>
errorVars == <<vars, fixed, meaning>>

(***************************************************************************)
(* Contracts and registries.                                               *)
(***************************************************************************)

\* What command() and event() make; a command has both its schemas, an event none of
\* them.
Primitive == [kind : {"command", "event"}, name : Names]

Lists == UNION {[1..n -> Primitive] : n \in 0..MaxListed}

\* Mutant: the kind of a contract is left to the type checker.
AcceptedAnyKind(list, kind) ==
  \A i, j \in DOMAIN list : i # j => list[i].name # list[j].name

\* createRegistryBucket throws at the first contract of a foreign kind or of a name
\* that is taken.
Accepted(list, kind) ==
  /\ \A i \in DOMAIN list : list[i].kind = kind
  /\ \A i, j \in DOMAIN list : i # j => list[i].name # list[j].name

\* The lookup by name of an accepted list.
ByName(list) ==
  [name \in {list[i].name : i \in DOMAIN list} |->
     list[CHOOSE i \in DOMAIN list : list[i].name = name]]

Resolves(side) == Command \in DOMAIN registry[side]

ErrorTypeOK ==
  /\ TypeOK
  /\ \A side \in Sides : registry[side] \in UNION {[names -> Primitive] : names \in SUBSET Names}
  /\ schema \in [Values -> Values \cup {"invalid"} \cup Thrown]
  /\ input \in [Calls -> Values]
  /\ errorCode \in [Calls -> Codes \cup {"none"}]
  /\ seen \in [Calls -> Codes \cup {"none", "TypeError"}]
  /\ threw \in SUBSET (Calls \X {"before", "after"})

\* createContractRegistry on either side, from the application's lists.
ErrorInit ==
  /\ Init
  /\ \E lists \in [Sides -> Lists] :
       /\ \A side \in Sides : Accepted(lists[side], "command")
       /\ registry = [side \in Sides |-> ByName(lists[side])]
  /\ schema \in [Values -> Values \cup {"invalid"} \cup Thrown]
  /\ input \in [Calls -> Values]
  /\ errorCode = [k \in Calls |-> "none"]
  /\ seen = [k \in Calls |-> "none"]
  /\ threw = {}

(***************************************************************************)
(* Schemas and errors.                                                     *)
(***************************************************************************)

\* parseSchemaValue: a contract without the schema takes the value as it is.
Parsed(side, value) ==
  IF registry[side][Command].kind = "command" THEN schema[value] ELSE value

\* What a thrown value becomes where a layer normalizes it: a realtime error stays
\* what it is, anything else gets the code of the layer.
Normalized(thrown, code) == IF thrown \in Codes THEN thrown ELSE code

\* The code of an input that is refused.
InputCode(parsed) == Normalized(parsed, "invalid-input")

\* Mutant: the ack is validated under the code of the input.
AckCodeOfInput(thrown) == Normalized(thrown, "invalid-input")

\* The code of an ack that is refused.
AckCode(thrown) == Normalized(thrown, "invalid-ack")

\* User code of a call has thrown a value: a realtime error is remembered.
Threw(k, thrown, when) ==
  threw' = IF thrown \in Codes THEN threw \cup {<<k, when>>} ELSE threw

\* What user code may throw: a realtime error or anything else.
Throwable == Thrown \cup {"other"}

(***************************************************************************)
(* The client.                                                             *)
(***************************************************************************)

\* What the client sends: its normalized input.
Sent(k) == Parsed("client", input[k])

ExecuteWithInput(k) ==
  /\ Resolves("client")
  /\ Sent(k) \in Values
  /\ ExecuteCommand(k)
  /\ UNCHANGED <<fixed, meaning>>

\* A destroyed runtime, an unknown command, a transport that sends no commands, or a
\* timeout that is none: before any error of the model is at hand.
RejectByTypeError(k) ==
  /\ RejectUnsent(k)
  /\ seen' = [seen EXCEPT ![k] = "TypeError"]
  /\ UNCHANGED <<fixed, input, errorCode, threw>>

RejectInput(k) ==
  /\ Resolves("client")
  /\ Sent(k) \notin Values
  /\ ~isDestroyed
  /\ RejectUnsent(k)
  /\ seen' = [seen EXCEPT ![k] = InputCode(Sent(k))]
  /\ Threw(k, Sent(k), "before")
  /\ UNCHANGED <<fixed, input, errorCode>>

\* The signal is aborted already.
RejectAborted(k) ==
  /\ Resolves("client")
  /\ Sent(k) \in Values
  /\ k \in Abortable
  /\ ~isDestroyed
  /\ RejectUnsent(k)
  /\ seen' = [seen EXCEPT ![k] = "internal-error"]
  /\ UNCHANGED <<fixed, input, errorCode, threw>>

TimeoutRejects(k) ==
  /\ Timeout(k)
  /\ seen' = [seen EXCEPT ![k] = "timeout"]
  /\ UNCHANGED <<fixed, input, errorCode, threw>>

AbortRejects(k) ==
  /\ Abort(k)
  /\ seen' = [seen EXCEPT ![k] = "internal-error"]
  /\ UNCHANGED <<fixed, input, errorCode, threw>>

\* An ack resolves, unless the client's schema refuses it; an error result revives
\* as the realtime error it was.
ReceiveMeaning(k) ==
  /\ ReceiveAnswer(k)
  /\ IF call'[k].stage = "rejected" /\ call[k].stage = "pending"
     THEN IF wire[k] = "error"
          THEN seen' = [seen EXCEPT ![k] = errorCode[k]] /\ UNCHANGED threw
          ELSE \E thrown \in Throwable :
                 /\ seen' = [seen EXCEPT ![k] = AckCode(thrown)]
                 /\ Threw(k, thrown, "after")
     ELSE UNCHANGED <<seen, threw>>
  /\ UNCHANGED <<fixed, input, errorCode>>

(***************************************************************************)
(* The server.                                                             *)
(***************************************************************************)

\* The pipeline fails with a code; the adapter answers with the error's payload.
FailWith(k, code) == errorCode' = [errorCode EXCEPT ![k] = code]

ArriveWithInput(k) ==
  /\ Arrive(k)
  /\ Resolves("server")
  /\ Parsed("server", Sent(k)) \in Values
  /\ UNCHANGED <<fixed, meaning>>

\* No such command, or no handler for it: a TypeError, which the adapter normalizes.
ArriveUnknown(k) ==
  /\ ArriveInvalid(k)
  /\ FailWith(k, Normalized("other", "command-failed"))
  /\ UNCHANGED <<fixed, input, seen, threw>>

ArriveInvalidInput(k) ==
  /\ ArriveInvalid(k)
  /\ Resolves("server")
  /\ LET parsed == Parsed("server", Sent(k))
     IN  /\ parsed \notin Values
         /\ FailWith(k, InputCode(parsed))
         /\ Threw(k, parsed, "before")
  /\ UNCHANGED <<fixed, input, seen>>

CheckAllowsCall(k) ==
  /\ CheckAllows(k)
  /\ UNCHANGED <<fixed, meaning>>

\* A policy denies with a code of its kind or without one, an authorizer with false.
CheckDenies(k) ==
  /\ CheckRefuses(k)
  /\ \E code \in {"unauthorized", "forbidden"} : FailWith(k, code)
  /\ UNCHANGED <<fixed, input, seen, threw>>

\* A policy throws, or denies with a code that is none and so makes
\* createRealtimeError throw; the authorizer, the last check, throws.
CheckThrows(k) ==
  /\ CheckRefuses(k)
  /\ \E thrown \in Throwable, code \in {"internal-error", "command-failed"} :
       /\ code = "command-failed" => server[k].check = Checks
       /\ FailWith(k, Normalized(thrown, code))
       /\ Threw(k, thrown, "before")
  /\ UNCHANGED <<fixed, input, seen>>

HandlerAcks(k) ==
  /\ HandlerSettles(k)
  /\ wire'[k] # "error"
  /\ UNCHANGED <<fixed, meaning>>

\* The handler throws, or its ack is refused.
HandlerFails(k) ==
  /\ HandlerSettles(k)
  /\ wire'[k] # "ack"
  /\ \E thrown \in Throwable :
       /\ \/ FailWith(k, Normalized(thrown, "command-failed"))
          \/ FailWith(k, AckCode(thrown))
       /\ Threw(k, thrown, "after")
  /\ UNCHANGED <<fixed, input, seen>>

\* What says nothing to the caller: the transport, and the end of the runtime.
Elsewhere ==
  /\ Destroy \/ Connect \/ Disconnect \/ Attach \/ \E k \in Calls : Miss(k)
  /\ UNCHANGED <<fixed, meaning>>

ErrorNext ==
  \/ \E k \in Calls :
       \/ ExecuteWithInput(k)
       \/ RejectByTypeError(k) \/ RejectInput(k) \/ RejectAborted(k)
       \/ TimeoutRejects(k) \/ AbortRejects(k) \/ ReceiveMeaning(k)
       \/ ArriveWithInput(k) \/ ArriveUnknown(k) \/ ArriveInvalidInput(k)
       \/ CheckAllowsCall(k) \/ CheckDenies(k) \/ CheckThrows(k)
       \/ HandlerAcks(k) \/ HandlerFails(k)
  \/ Elsewhere

ErrorSpec == ErrorInit /\ [][ErrorNext]_errorVars

\* As in CommandCall: a timer that is armed fires or is cleared.
FairErrorSpec == ErrorSpec /\ \A k \in Calls : WF_errorVars(TimeoutRejects(k))

(***************************************************************************)
(* Properties.                                                             *)
(***************************************************************************)

\* To normalize a normalized input changes nothing.
Idempotent == \A value \in Values : schema[value] \in Values => schema[schema[value]] = schema[value]

\* What a caller is told that is not let in: by a TypeError, for the input or by a check.
Refusals == {"TypeError", "invalid-input", "unauthorized", "forbidden"}

\* Who is refused knows that the handler has not run for this call and never will:
\* unless the handler or the ack schema threw a realtime error with such a code itself.
RefusedMeansNotRun ==
  \A k \in Calls :
    seen[k] \in Refusals /\ <<k, "after">> \notin threw => runs[k] = 0

\* Who is told of a bad ack knows that the handler has run: unless a schema, a policy
\* or the authorizer threw a realtime error with that code itself.
BadAckMeansRun ==
  \A k \in Calls :
    seen[k] = "invalid-ack" /\ <<k, "before">> \notin threw => runs[k] = 1

\* Both sides share the contract: an input that the client sent is not refused as
\* invalid, if to normalize again changes nothing and nobody throws that code itself.
BadInputStaysLocal ==
  \A k \in Calls :
    seen[k] = "invalid-input" /\ Idempotent /\ <<k, "before">> \notin threw
      /\ <<k, "after">> \notin threw
    => wire[k] = "none"

\* What the code of a rejection tells the caller is true, through four layers that
\* normalize errors, and whatever is late, lost or given up: a caller decides by it
\* whether to try again.
CodesAreTruthful == RefusedMeansNotRun /\ BadAckMeansRun /\ BadInputStaysLocal

\* A handler runs only on an input that the schema of its contract accepted on the
\* server, whatever contracts the application lists and whatever the client sends.
HandlersGetValidInput ==
  \A k \in Calls : runs[k] > 0 => schema[Sent(k)] \in Values

\* The registries hold commands; what was sent passed the client's schema, what is
\* checked or runs passed the server's; what is seen is final.
RegistriesHoldCommands ==
  \A side \in Sides : Resolves(side) => registry[side][Command].kind = "command"
SentWasValid == \A k \in Calls : wire[k] # "none" => Resolves("client") /\ Sent(k) \in Values
ArrivedWasValid ==
  \A k \in Calls :
    server[k].stage \in {"checking", "running"} \/ runs[k] > 0 => schema[Sent(k)] \in Values
SeenIsFinal ==
  \A k \in Calls :
    /\ seen[k] # "none" => call[k].stage = "rejected"
    /\ seen[k] \in Refusals /\ <<k, "after">> \notin threw =>
         wire[k] = "none" \/ server[k].stage = "done"

\* The code on the wire is as true as the one that is seen.
WireIsTruthful ==
  \A k \in Calls :
    wire[k] = "error" =>
      /\ server[k].stage = "done"
      /\ errorCode[k] \in Refusals /\ <<k, "after">> \notin threw => runs[k] = 0
      /\ errorCode[k] = "invalid-ack" /\ <<k, "before">> \notin threw => runs[k] = 1
      /\ errorCode[k] = "invalid-input" /\ Idempotent =>
           <<k, "before">> \in threw \/ <<k, "after">> \in threw

\* The inductive invariant behind the theorems of CommandErrors_proofs.tla.
ErrorIInv ==
  /\ IInv /\ ErrorTypeOK
  /\ RegistriesHoldCommands /\ SentWasValid /\ ArrivedWasValid
  /\ SeenIsFinal /\ WireIsTruthful
  /\ CodesAreTruthful
=============================================================================
