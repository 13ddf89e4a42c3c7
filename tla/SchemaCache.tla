----------------------------- MODULE SchemaCache -----------------------------
(***************************************************************************)
(* The MCP server's copy of the print service's document schema,           *)
(* mcp-server/printer_mcp/schema_cache.py: fetched while the server boots, *)
(* replaced by a permissive fallback when that fails, and fetched again by *)
(* a tool listing that finds the fallback.                                 *)
(*                                                                         *)
(* A listing is a coroutine that gives up the event loop while it waits    *)
(* for GET /schema, so that listings of several requests interleave.       *)
(***************************************************************************)
EXTENDS Integers, FiniteSets

CONSTANTS
    Listings,       \* requests for the tool list
    None,           \* no snapshot: the fallback schema
    MaxVersion      \* renderer versions that the service is upgraded through

ASSUME SchemaAssumption == None \notin 1 .. MaxVersion /\ MaxVersion \in Nat \ {0}

VARIABLES
    up,             \* the print service answers
    version         \* the renderer version it runs

VARIABLES
    phase,          \* of the MCP server: "off", "boot" or "serving"
    snapshot,       \* _snapshot, by its renderer version
    listing,        \* of each listing: "new", "fetching", "fetched" or "done"
    fetched,        \* the version in the answer that a listing awaits, or None
    shown,          \* the schema that a listing offered: a version or None
    live            \* the server has held a fetched schema since it started

service == <<up, version>>
schemas == <<phase, snapshot, listing, fetched, shown, live>>

\* `active` are the listings that are asked for; a server that nobody uses in
\* this behaviour is "off".
SchemaInit(active, used) ==
    /\ up = TRUE /\ version = 1
    /\ phase = (IF used THEN "boot" ELSE "off") /\ snapshot = None /\ live = FALSE
    /\ listing = [l \in Listings |-> IF l \in active THEN "new" ELSE "done"]
    /\ fetched = [l \in Listings |-> None] /\ shown = [l \in Listings |-> None]

-----------------------------------------------------------------------------
(* boot: attempts within a budget of time, which is left abstract.         *)

BootFetches ==
    /\ phase = "boot" /\ up
    /\ phase' = "serving" /\ snapshot' = version /\ live' = TRUE
    /\ UNCHANGED <<service, listing, fetched, shown>>

\* The deadline is looked at only after an attempt that failed.
BootGivesUp ==
    /\ phase = "boot" /\ phase' = "serving"
    /\ UNCHANGED <<service, snapshot, listing, fetched, shown, live>>

-----------------------------------------------------------------------------
(* list_tools.                                                             *)

IsFallback == snapshot = None

Show(l, s) ==
    /\ listing' = [listing EXCEPT ![l] = "done"]
    /\ shown' = [shown EXCEPT ![l] = s]

\* The snapshot is read again when the refresh is over.
OfferedEarly(l) == IF listing[l] = "new" THEN snapshot ELSE None    \* mutant
Offered(l) == snapshot'

ListAtOnce(l) ==
    /\ phase = "serving" /\ listing[l] = "new" /\ ~IsFallback
    /\ UNCHANGED snapshot /\ Show(l, Offered(l))
    /\ UNCHANGED <<service, phase, fetched, live>>

ListRefreshes(l) ==
    /\ phase = "serving" /\ listing[l] = "new" /\ IsFallback
    /\ listing' = [listing EXCEPT ![l] = "fetching"]
    /\ UNCHANGED <<service, phase, snapshot, fetched, shown, live>>

SchemaAnswered(l) ==
    /\ up /\ listing[l] = "fetching"
    /\ listing' = [listing EXCEPT ![l] = "fetched"]
    /\ fetched' = [fetched EXCEPT ![l] = version]
    /\ UNCHANGED <<service, phase, snapshot, shown, live>>

RefreshSucceeds(l) ==
    /\ listing[l] = "fetched"
    /\ snapshot' = fetched[l] /\ live' = TRUE
    /\ Show(l, Offered(l))
    /\ UNCHANGED <<service, phase, fetched>>

\* No answer, or one that does not arrive.
RefreshFails(l) ==
    /\ listing[l] \in {"fetching", "fetched"}
    /\ UNCHANGED snapshot /\ Show(l, Offered(l))
    /\ UNCHANGED <<service, phase, fetched, live>>

\* The process is restarted by its host; listings that it held are gone.
Relaunch ==
    /\ phase' = "boot" /\ snapshot' = None /\ live' = FALSE
    /\ listing' = [l \in Listings |-> IF listing[l] = "new" THEN "new" ELSE "done"]
    /\ UNCHANGED <<service, fetched, shown>>

SchemaNext ==
    \/ BootFetches \/ BootGivesUp
    \/ \E l \in Listings :
         \/ ListAtOnce(l) \/ ListRefreshes(l) \/ SchemaAnswered(l)
         \/ RefreshSucceeds(l) \/ RefreshFails(l)

-----------------------------------------------------------------------------
SchemaTypeOK ==
    /\ up \in BOOLEAN /\ version \in 1 .. MaxVersion
    /\ phase \in {"off", "boot", "serving"} /\ snapshot \in {None} \cup 1 .. version
    /\ listing \in [Listings -> {"new", "fetching", "fetched", "done"}]
    /\ fetched \in [Listings -> {None} \cup 1 .. version]
    /\ shown \in [Listings -> {None} \cup 1 .. version]
    /\ live = (snapshot # None)

\* A listing never offers the fallback schema once the server holds a fetched
\* one, even when its own refresh fails after another's succeeded; and it
\* offers a schema that was fetched, never one the service has yet to serve.
ListsWhatIsHeld ==
    [][\A l \in Listings :
         listing'[l] = "done" /\ listing[l] # "done" /\ phase' = phase
           => (live' => shown'[l] # None)]_<<service, schemas>>
=============================================================================
