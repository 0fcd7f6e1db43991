-------------------------------- MODULE Errors --------------------------------
(***************************************************************************)
(* The error vocabulary of src/core/errors.ts, the page's half of it in     *)
(* src/runner/src/errors.ts, and the wire between: what a failure is after  *)
(* it has crossed one transport or two, and what the host decides from it.  *)
(*                                                                         *)
(* The message of a CommandFailed is composed from its other fields on      *)
(* whichever side reads it, so it is not a field of its own here.           *)
(***************************************************************************)
EXTENDS Naturals

CONSTANTS
  Str,       \* strings
  Num,       \* finite numbers
  Undefined  \* an absent field; JSON drops it

ASSUME ErrorsAssumption ==
  /\ {"", "command", "unknown", "Runner call failed"} \subseteq Str
  /\ {0, 1} \subseteq Num
  /\ Undefined \notin Str /\ Undefined \notin Num /\ Undefined \notin BOOLEAN

(* What a field holds, and what fromWire reads when it holds something else. *)
string(fallback) == [type |-> Str, fallback |-> fallback]
number(fallback) == [type |-> Num, fallback |-> fallback]
flag == [type |-> BOOLEAN, fallback |-> FALSE]
optionalString == [type |-> Str \cup {Undefined}, fallback |-> Undefined]
optionalNumber == [type |-> Num \cup {Undefined}, fallback |-> Undefined]

message == string("Runner call failed")

(* Every failure the project names, with its fields. *)
Schema ==
  [CommandFailed      |-> [label |-> string("command"), exitCode |-> number(1),
                           output |-> string(""), truncated |-> flag,
                           droppedChars |-> number(0)],
   NoBuildOutput      |-> [distPath |-> string(""), message |-> message],
   RunnerGone         |-> [reason |-> string(""), message |-> message],
   RunnerTimeout      |-> [label |-> string("command"), timeoutMs |-> number(0),
                           message |-> message],
   MountFailed        |-> [path |-> string(""), message |-> message],
   UploadFailed       |-> [path |-> string(""), status |-> optionalNumber,
                           message |-> message],
   RuntimeFailure     |-> [operation |-> string("unknown"), message |-> message],
   UnknownFailure     |-> [originalTag |-> optionalString, message |-> message],
   InvalidProject     |-> [source |-> string(""), reason |-> string(""),
                           message |-> message],
   RunnerUnavailable  |-> [url |-> string(""), message |-> message],
   DaemonUnreachable  |-> [port |-> number(0), message |-> message],
   DaemonStartTimeout |-> [timeoutMs |-> number(0), message |-> message]]

TAGS == DOMAIN Schema
Fields(t) == DOMAIN Schema[t]

Has(e, t) ==
  /\ e.tag = t
  /\ e.fields = [f \in Fields(t) |-> e.fields[f]]
  /\ \A f \in Fields(t) : e.fields[f] \in Schema[t][f].type

(* isWcError: anything else thrown is "untagged". *)
isWcError(e) == \E t \in TAGS : Has(e, t)

Untagged == [tag |-> "untagged", fields |-> [message |-> "unknown"]]

(* What travels: a tag and the fields that are there. *)
Wire(tag, fields) ==
  [tag |-> tag,
   fields |-> [f \in {g \in DOMAIN fields : fields[g] # Undefined} |-> fields[f]]]

UnknownWire(text) == Wire("UnknownFailure", [message |-> text])

(* toWire, the host's. *)
toWire(e) == IF isWcError(e) THEN Wire(e.tag, e.fields) ELSE UnknownWire(e.fields.message)

(* toWire, the page's: a RunnerError carries whatever tag and fields it was *)
(* made with.                                                               *)
pageToWire(e) ==
  IF e.tag = "untagged" THEN UnknownWire(e.fields.message) ELSE Wire(e.tag, e.fields)

(* asString, asNumber and the other readers. *)
Get(w, f) == IF f \in DOMAIN w.fields THEN w.fields[f] ELSE Undefined
Read(spec, v) == IF v \in spec.type THEN v ELSE spec.fallback

Rebuilt(t, w) == [tag |-> t, fields |-> [f \in Fields(t) |-> Read(Schema[t][f], Get(w, f))]]
UnknownTag(w) ==
  [tag |-> "UnknownFailure",
   fields |-> [originalTag |-> IF w.tag = "" THEN Undefined ELSE w.tag,
               message |-> Read(message, Get(w, "message"))]]

(* fromWire: a tag it does not know is kept as a field, never guessed at.   *)
TAGSButNoBuildOutput == TAGS \ {"NoBuildOutput"}
Known == TAGS

fromWire(w) == IF w.tag \in Known THEN Rebuilt(w.tag, w) ELSE UnknownTag(w)

(* The two decisions the tags exist for. *)
RUNTIME_STATE_KNOWN == {"CommandFailed", "NoBuildOutput", "RunnerGone", "RunnerUnavailable"}
runtimeStateIsKnown(e) == isWcError(e) /\ e.tag \in RUNTIME_STATE_KNOWN

exitCodeFor(e) ==
  IF ~isWcError(e) THEN 3
  ELSE CASE e.tag \in {"CommandFailed", "NoBuildOutput"} -> 1
         [] e.tag = "InvalidProject" -> 2
         [] OTHER -> 3
=============================================================================
