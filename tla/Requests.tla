------------------------------ MODULE Requests ------------------------------
(***************************************************************************)
(* A call from a client to its answer: skid-mcp and skid-say, the socket   *)
(* systemd holds and starts the service for, the schemas the service holds *)
(* a request to, and the operation.  A call may be given up, the process   *)
(* may die, and its disk may fail, at every point of it.                   *)
(*                                                                         *)
(* A request has its members, each with the kind of its value.             *)
(***************************************************************************)
EXTENDS Integers

CONSTANTS
  RequestIds,  \* the calls
  Asks,        \* what they may ask: client, tool and members of each call
  StartBurst   \* the starts systemd makes before it gives up (StartLimitBurst)

Members == {"name", "messages", "work", "voice", "pattern", "replacement", "kind"}

Strings == {"empty", "blank", "text", "long"}   \* long: above MESSAGE_CHARS

Kinds == Strings \cup {"literal", "regex", "wrong regex",
                       "no items", "texts", "with a long one", "number"}

(* The names of the tools with a route.                          (ROUTES)  *)
Routes ==
  {"speak", "set_voice", "add_substitution", "remove_substitution",
   "list_substitutions", "status"}

ASSUME RequestsAssumption ==
  /\ \A ask \in Asks, r \in RequestIds :
       /\ ask[r].client \in {"skid-mcp", "skid-say", "curl"}
       /\ ask[r].tool \in Routes
       /\ DOMAIN ask[r].body \subseteq Members
       /\ \A f \in DOMAIN ask[r].body : ask[r].body[f] \in Kinds
  /\ StartBurst \in Nat

NonEmpty == (Strings \ {"empty"}) \cup {"literal", "regex", "wrong regex"}

AnyString == NonEmpty \cup {"empty"}

(* What each member may be, and which must be there.           (SCHEMAS)   *)
Schema ==
  [speak |-> [name |-> NonEmpty, messages |-> {"texts"}, work |-> NonEmpty],
   set_voice |-> [voice |-> NonEmpty],
   add_substitution |-> [pattern |-> NonEmpty, replacement |-> AnyString,
                         kind |-> {"literal", "regex"}],
   remove_substitution |-> [pattern |-> NonEmpty, kind |-> {"literal", "regex"}],
   list_substitutions |-> [f \in {} |-> {}],
   status |-> [f \in {} |-> {}]]

Required ==
  [speak |-> {"name", "messages"}, set_voice |-> {"voice"},
   add_substitution |-> {"pattern", "replacement"},
   remove_substitution |-> {"pattern"},
   list_substitutions |-> {}, status |-> {}]

(* The spool's own schema of what it stores.               (SPOOL_ENTRY)   *)
EntrySchema ==
  [name |-> NonEmpty, messages |-> {"texts", "with a long one"}, work |-> NonEmpty]

(* A member no schema names is ignored. *)
Conforms(body, schema, required) ==
  /\ required \subseteq DOMAIN body
  /\ \A f \in DOMAIN body \cap DOMAIN schema : body[f] \in schema[f]

VARIABLES
  asked,    \* asked[r]: the request of call r
  told,     \* told[r]: what the caller has been told, or "none", "waiting"
  served,   \* served[r]: how far the service is with it
  effects,  \* effects[r]: how often the operation took effect (history)
  hit,      \* the calls whose operation met a fault of the machine (history)
  process,  \* the service: "off", "starting", "up"
  listens,  \* does systemd listen on the socket?
  starts    \* the starts so far, all within one StartLimitIntervalSec

requestVars == <<asked, told, served, effects, hit, process, listens, starts>>

RequestsInit ==
  /\ asked \in Asks
  /\ told = [r \in RequestIds |-> "none"]
  /\ served = [r \in RequestIds |-> "none"]
  /\ effects = [r \in RequestIds |-> 0]
  /\ hit = {}
  /\ process = "off"
  /\ listens = TRUE
  /\ starts = 0

-----------------------------------------------------------------------------
\* The clients

(* What is in the request: skid-say leaves out work that is empty. *)
Body(r) ==
  LET body == asked[r].body
  IN [f \in {g \in DOMAIN body : ~(asked[r].client = "skid-say"
                                    /\ g = "work" /\ body[g] = "empty")} |-> body[f]]

(* The types the MCP server publishes and holds a call to; the words that  *)
(* skid-say wants; curl sends anything.                                    *)
Sends(r) ==
  LET typed == /\ Required[asked[r].tool] \subseteq DOMAIN Body(r)
               /\ \A f \in DOMAIN Body(r) : Body(r)[f] # "number"
      worded == \A f \in Required[asked[r].tool] : Body(r)[f] \notin {"empty", "no items"}
  IN CASE asked[r].client = "skid-mcp" -> typed
       [] asked[r].client = "skid-say" -> typed /\ worded
       [] OTHER -> TRUE

(* Backend.call(): connected, or refused where nobody listens. *)
Call(r) ==
  /\ told[r] = "none"
  /\ IF ~Sends(r) THEN told' = [told EXCEPT ![r] = "refused"] /\ UNCHANGED served
       ELSE IF listens
         THEN /\ told' = [told EXCEPT ![r] = "waiting"]
              /\ served' = [served EXCEPT ![r] = "backlog"]
         ELSE told' = [told EXCEPT ![r] = "unreachable"] /\ UNCHANGED served
  /\ UNCHANGED <<asked, effects, hit, process, listens, starts>>

(* TIMEOUT is over.  The service is not told, and has the request still. *)
GiveUp(r) ==
  /\ told[r] = "waiting"
  /\ told' = [told EXCEPT ![r] = "unreachable"]
  /\ UNCHANGED <<asked, served, effects, hit, process, listens, starts>>

(* The answer to r: below 400 it is a result, and above an error, whose    *)
(* body is a reason or cannot be read.  A caller that has gone gets none.  *)
Told(r, what) ==
  /\ served' = [served EXCEPT ![r] = "over"]
  /\ told' = IF told[r] = "waiting" THEN [told EXCEPT ![r] = what] ELSE told

-----------------------------------------------------------------------------
\* systemd and the process

(* Mutant of Activate: only a call makes systemd start the service. *)
ActivateOnce ==
  /\ process = "off" /\ listens /\ starts = 0
  /\ \E r \in RequestIds : served[r] = "backlog"
  /\ process' = "starting"
  /\ starts' = starts + 1
  /\ UNCHANGED <<asked, told, served, effects, hit, listens>>

(* A connection nobody has taken starts the service, until it has been     *)
(* started too often: then the socket fails too, and what waits is reset.  *)
Activate ==
  /\ process = "off" /\ listens
  /\ \E r \in RequestIds : served[r] = "backlog"
  /\ \/ /\ starts < StartBurst
        /\ process' = "starting"
        /\ starts' = starts + 1
        /\ UNCHANGED <<told, served, listens>>
     \/ /\ starts = StartBurst
        /\ listens' = FALSE
        /\ told' = [r \in RequestIds |->
             IF told[r] = "waiting" THEN "unreachable" ELSE told[r]]
        /\ served' = [r \in RequestIds |->
             IF served[r] = "backlog" THEN "over" ELSE served[r]]
        /\ UNCHANGED <<process, starts>>
  /\ UNCHANGED <<asked, effects, hit>>

(* Restart=on-failure: it is started again, whether or not anybody waits.  *)
Restart ==
  /\ process = "off" /\ listens
  /\ starts \in 1..(StartBurst - 1)
  /\ process' = "starting"
  /\ starts' = starts + 1
  /\ UNCHANGED <<asked, told, served, effects, hit, listens>>

(* main(): the model is loaded, the spool recovered, READY sent. *)
Ready ==
  /\ process = "starting"
  /\ process' = "up"
  /\ UNCHANGED <<asked, told, served, effects, hit, listens, starts>>

(* Mutant of Ends: the client sends again what was reset. *)
EndsAndRetries ==
  /\ process # "off"
  /\ process' = "off"
  /\ served' = [r \in RequestIds |->
       IF served[r] \in {"handling", "stored"} /\ told[r] = "waiting"
         THEN "backlog" ELSE served[r]]
  /\ UNCHANGED <<asked, told, effects, hit, listens, starts>>

(* The process ends.  What it had taken from the socket is reset, and what *)
(* it had not taken waits for the next.                                    *)
Ends ==
  /\ process # "off"
  /\ process' = "off"
  /\ told' = [r \in RequestIds |->
       IF told[r] = "waiting" /\ served[r] # "backlog" THEN "unreachable" ELSE told[r]]
  /\ served' = [r \in RequestIds |->
       IF served[r] \in {"none", "backlog"} THEN served[r] ELSE "over"]
  /\ UNCHANGED <<asked, effects, hit, listens, starts>>

-----------------------------------------------------------------------------
\* The service

Accept(r) ==
  /\ process = "up"
  /\ served[r] = "backlog"
  /\ served' = [served EXCEPT ![r] = "handling"]
  /\ UNCHANGED <<asked, told, effects, hit, process, listens, starts>>

(* _body() and _validated(): a GET has no body. *)
Admitted(r) == Conforms(Body(r), Schema[asked[r].tool], Required[asked[r].tool])

(* The operation cannot use a value the schema lets through, and says so:  *)
(* a voice that is not spoken here, a pattern that does not compile.       *)
Unusable(r) ==
  LET body == Body(r)
  IN \/ asked[r].tool = "set_voice" /\ body["voice"] # "text"
     \/ asked[r].tool = "add_substitution" /\ body["pattern"] = "wrong regex"
          /\ "kind" \in DOMAIN body /\ body["kind"] = "regex"

(* What raises outside of any refusal: Submission wants a name with more   *)
(* than spaces, and the spool writes only what its own schema has.         *)
Raises(r) ==
  asked[r].tool = "speak" /\
    \/ Body(r)["name"] = "blank"
    \/ ~Conforms(Body(r), EntrySchema, {"name", "messages"})

(* Refused, with 400. *)
Refuse(r) ==
  /\ served[r] = "handling"
  /\ Admitted(r) => Unusable(r)
  /\ Told(r, "refused")
  /\ UNCHANGED <<asked, effects, hit, process, listens, starts>>

(* The entry or the config is renamed into its place; a list or a status is   *)
(* read.                                                                   *)
TakeEffect(r) ==
  /\ served[r] = "handling"
  /\ Admitted(r) /\ ~Unusable(r) /\ ~Raises(r)
  /\ served' = [served EXCEPT ![r] = "stored"]
  /\ effects' = [effects EXCEPT ![r] = @ + 1]
  /\ UNCHANGED <<asked, told, hit, process, listens, starts>>

(* An exception nothing catches, before the effect or after: 500. *)
Raise(r) ==
  /\ served[r] \in {"handling", "stored"}
  /\ IF served[r] = "handling" /\ Admitted(r) /\ ~Unusable(r) /\ Raises(r)
       THEN UNCHANGED hit ELSE hit' = hit \cup {r}
  /\ Told(r, "failed")
  /\ UNCHANGED <<asked, effects, process, listens, starts>>

Answer(r) ==
  /\ served[r] = "stored"
  /\ Told(r, "done")
  /\ UNCHANGED <<asked, effects, hit, process, listens, starts>>

-----------------------------------------------------------------------------
Handle(r) == Accept(r) \/ Refuse(r) \/ TakeEffect(r) \/ Raise(r) \/ Answer(r)

RequestsNext ==
  \/ \E r \in RequestIds : Call(r) \/ GiveUp(r) \/ Handle(r)
  \/ Activate \/ Restart \/ Ready \/ Ends

(* systemd and the threads of the service go on.  Nobody need give up, and *)
(* nothing need end.                                                       *)
RequestsFairness ==
  /\ WF_requestVars(Activate)
  /\ WF_requestVars(process = "starting" /\ (Ready \/ Ends))
  /\ \A r \in RequestIds : WF_requestVars(Handle(r))

RequestsSpec == RequestsInit /\ [][RequestsNext]_requestVars

FairRequestsSpec == RequestsSpec /\ RequestsFairness

-----------------------------------------------------------------------------
RequestsTypeOK ==
  /\ asked \in Asks
  /\ told \in [RequestIds ->
       {"none", "waiting", "done", "refused", "failed", "unreachable"}]
  /\ served \in [RequestIds -> {"none", "backlog", "handling", "stored", "over"}]
  /\ effects \in [RequestIds -> Nat]
  /\ hit \subseteq RequestIds
  /\ process \in {"off", "starting", "up"}
  /\ listens \in BOOLEAN
  /\ starts \in 0..StartBurst

(* FR-4.5, FR-6.5 and the docstring of Backend.call(): a result means that *)
(* the operation took effect, once; a refusal that it did not and never    *)
(* will; a failure of the service is a fault of the machine, or a name of  *)
(* only spaces.  Only a caller that was told nothing of the kind, because  *)
(* the service was not reached or the caller gave up, does not know.       *)
AnswerIsTrue ==
  \A r \in RequestIds :
    /\ told[r] = "done" => effects[r] = 1
    /\ told[r] = "refused" => effects[r] = 0
    /\ told[r] = "failed" /\ r \notin hit =>
         effects[r] = 0 /\ Body(r)["name"] = "blank"
    /\ effects[r] <= 1

(* FR-5.3: a call ends, whether the service is off, starting, dying or     *)
(* given up by systemd when it is made or later, and with no need of the   *)
(* caller's own TIMEOUT where the threads of the service go on.            *)
EveryCallEnds == \A r \in RequestIds : told[r] = "waiting" ~> told[r] # "waiting"
=============================================================================
