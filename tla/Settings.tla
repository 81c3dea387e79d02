---- MODULE Settings ----
(***************************************************************************)
(* The settings file (server/settings.py), the requests that change it     *)
(* (server/routes/settings.py), what each process makes of it (the root of *)
(* its catalog, the tools of server/headless.py, the configs of            *)
(* server/launch.py) and the desktop's menu of recent connections.         *)
(*                                                                         *)
(* A request loads the file, changes what it loaded and saves the whole of *)
(* it: within one process nothing comes between, but nothing keeps another *)
(* process from saving in the meantime.  A connection is its id and its    *)
(* uri: the label counts only where it makes an id.                        *)
(***************************************************************************)
EXTENDS Naturals, Sequences, FiniteSets

CONSTANTS Server,           \* the processes that share the file
          Uri, NoUri,
          LanceRoot,        \* LANCE_ROOT of each, NoUri when unset
          DemoRoot,         \* what demo_root finds, NoUri when it finds nothing
          Label,
          Providers,        \* PROVIDERS, "auto" among them
          Absent, Garbled,  \* no file; one that does not parse
          Broken,           \* an entry without an id, a label or a uri
          Requests,         \* bound: requests
          Edits             \* bound: edits by hand

\* "The hash keeps two connections named `lance` apart."
Slug(label, uri) == <<label, uri>>

NoId == <<>>
NoKey == "no key"
Ids == {Slug(l, u) : l \in Label, u \in Uri}
Connection == [id : Ids, uri : Uri]

\* A key is the provider that was selected when it was typed.
Values == [conns : Seq(Connection), active : Ids \cup {NoId}, provider : Providers,
           key : Providers \cup {NoKey}]
Defaults == [conns |-> <<>>, active |-> NoId, provider |-> "auto", key |-> NoKey]

ASSUME SettingsAssumption ==
    /\ NoUri \notin Uri /\ Broken \notin Connection
    /\ Absent \notin Values /\ Garbled \notin Values
    /\ LanceRoot \in [Server -> Uri \cup {NoUri}] /\ DemoRoot \in Uri \cup {NoUri}
    /\ "auto" \in Providers
    /\ Requests \in Nat /\ Edits \in Nat

VARIABLES
    disk,       \* the file
    saver,      \* whether what is on disk was written by a process, not by hand
    pending,    \* the save a request of each process is making, if any
    root,       \* the root of each process's CATALOG
    panels,     \* whose catalog its panels read: that one, or one a tool call bound
    foreign,    \* the file has changed by other means since the process last followed it
    menu,       \* the desktop's Open Recent: id and uri of each item
    requests, edits     \* bounds

settingsVars == <<disk, saver, pending, root, panels, foreign, menu, requests, edits>>

Idle == [phase |-> "idle"]
Main == NoUri       \* panels[p]: the catalog of main.py

Listed(conns) == {conns[i] : i \in DOMAIN conns}
IdsOf(s) == {c.id : c \in Listed(s.conns)}

--------------------------------------------------------------------------
(* Reading. *)

\* What is left of a list without the entries in out, in order: the n-th that stays.
Without(conns, out) ==
    LET stay == {i \in DOMAIN conns : conns[i] \notin out}
    IN  [n \in 1..Cardinality(stay) |->
            conns[CHOOSE i \in stay : Cardinality({j \in stay : j <= i}) = n]]

\* Settings.from_dict: tolerant of everything.
FromDict(raw) ==
    LET conns == Without(raw.conns, {Broken})
    IN  [raw EXCEPT !.conns = conns,
                    !.active = IF raw.active \in {c.id : c \in Listed(conns)}
                               THEN raw.active ELSE NoId]

Load == IF disk \in {Absent, Garbled} THEN Defaults ELSE FromDict(disk)

\* resolve_root: the environment, the active connection, the demo's output, nothing.
ResolveRoot(p, s) ==
    IF LanceRoot[p] # NoUri THEN LanceRoot[p]
    ELSE IF s.active \in IdsOf(s)
         THEN (CHOOSE c \in Listed(s.conns) : c.id = s.active).uri
         ELSE DemoRoot

\* launch.pinning, for pin = "none", "active" or an id.
Pinning(p, s, pin) ==
    LET asked == {c \in Listed(s.conns) : c.id = pin}
        uri == IF asked # {} THEN (CHOOSE c \in asked : TRUE).uri ELSE ResolveRoot(p, s)
    IN  IF uri = NoUri THEN [mode |-> "none", uri |-> NoUri]
                       ELSE [mode |-> "connection", uri |-> uri]

\* api_key_for, with nothing in the environment.
ApiKeyFor(s, provider) == IF s.provider \in {provider, "auto"} THEN s.key ELSE NoKey

--------------------------------------------------------------------------
(* Changing what was loaded. *)

\* Mutant: a label stands for one connection, and the new one takes the old one's place.
AddConnectionReplaces(s, r) ==
    [s EXCEPT !.conns = Append(Without(@, {c \in Listed(@) : c.id[1] = r.label}),
                               [id |-> Slug(r.label, r.uri), uri |-> r.uri]),
              !.active = IF r.activate THEN Slug(r.label, r.uri) ELSE @]

\* A uri that is there already keeps its id, whatever its new label.
AddConnection(s, r) ==
    LET same == {c \in Listed(s.conns) : c.uri = r.uri}
        id == IF same = {} THEN Slug(r.label, r.uri) ELSE (CHOOSE c \in same : TRUE).id
    IN  [s EXCEPT !.conns = IF same = {} THEN Append(@, [id |-> id, uri |-> r.uri]) ELSE @,
                  !.active = IF r.activate THEN id ELSE @]

\* The first that is left becomes the active one.
RemoveConnection(s, id) ==
    LET left == Without(s.conns, {c \in Listed(s.conns) : c.id = id})
    IN  [s EXCEPT !.conns = left,
                  !.active = IF @ # id THEN @ ELSE IF left = <<>> THEN NoId ELSE left[1].id]

\* put_intelligence: only what was given; an empty key clears the stored one.
PutIntelligence(s, r) ==
    LET provider == IF r.provider = "unset" THEN s.provider ELSE r.provider
    IN  [s EXCEPT !.provider = provider,
                  !.key = CASE r.key = "unset" -> @
                            [] r.key = "clear" -> NoKey
                            [] r.key = "typed" -> provider]

Request ==
    [op : {"add"}, uri : Uri, label : Label, activate : BOOLEAN]
        \cup [op : {"activate", "remove"}, id : Ids]
        \cup [op : {"intelligence"}, provider : Providers \cup {"unset"},
              key : {"unset", "clear", "typed"}]

Change(s, r) ==
    CASE r.op = "add" -> AddConnection(s, r)
      [] r.op = "activate" -> [s EXCEPT !.active = r.id]
      [] r.op = "remove" -> RemoveConnection(s, r.id)
      [] r.op = "intelligence" -> PutIntelligence(s, r)

--------------------------------------------------------------------------

SettingsTypeOK ==
    /\ disk \in {Absent, Garbled} \/ FromDict(disk) \in Values
    /\ saver \in BOOLEAN
    /\ \A p \in Server :
          pending[p].phase # "idle" =>
              /\ pending[p].phase \in {"loaded", "written"}
              /\ pending[p].request \in Request /\ pending[p].next \in Values
              /\ pending[p].stale \in BOOLEAN
    /\ root \in [Server -> Uri \cup {NoUri}]
    /\ panels \in [Server -> Uri \cup {Main}]
    /\ foreign \in [Server -> BOOLEAN]
    /\ menu \subseteq Connection

SettingsInit ==
    /\ disk = Absent /\ saver = FALSE
    /\ pending = [p \in Server |-> Idle]
    /\ root = [p \in Server |-> ResolveRoot(p, Defaults)]
    /\ panels = [p \in Server |-> Main]
    /\ foreign = [p \in Server |-> FALSE]
    /\ menu = {}
    /\ requests = 0 /\ edits = 0

\* A request for a connection nobody has is a 404, and changes nothing.
Begin(p, r) ==
    /\ pending[p] = Idle
    /\ requests < Requests /\ requests' = requests + 1
    /\ r.op \in {"activate", "remove"} => r.id \in IdsOf(Load)
    /\ pending' = [pending EXCEPT ![p] = [phase |-> "loaded", request |-> r, stale |-> FALSE,
                                          next |-> Change(Load, r)]]
    /\ UNCHANGED <<disk, saver, root, panels, foreign, menu, edits>>

\* save, first half: a file of its own.
WriteTemporary(p) ==
    /\ pending[p].phase = "loaded"
    /\ pending' = [pending EXCEPT ![p].phase = "written"]
    /\ UNCHANGED <<disk, saver, root, panels, foreign, menu, requests, edits>>

\* What every other process sees: a file that is no longer the one it knows.
Others(p) == [q \in Server |->
    IF q = p \/ pending[q].phase = "idle" THEN pending[q] ELSE [pending[q] EXCEPT !.stale = TRUE]]

\* Mutant: saved, and not followed.
ReplaceOnly(p) ==
    /\ pending[p].phase = "written"
    /\ disk' = pending[p].next /\ saver' = TRUE
    /\ pending' = [Others(p) EXCEPT ![p] = Idle]
    /\ foreign' = [q \in Server |-> q # p]
    /\ UNCHANGED <<root, panels, menu, requests, edits>>

\* save, second half, and _apply_root, which follows what it saved.  The intelligence
\* is saved and the root left alone.
Replace(p) ==
    /\ pending[p].phase = "written"
    /\ LET follows == pending[p].request.op # "intelligence"
       IN  /\ disk' = pending[p].next /\ saver' = TRUE
           /\ pending' = [Others(p) EXCEPT ![p] = Idle]
           /\ root' = IF follows THEN [root EXCEPT ![p] = ResolveRoot(p, pending[p].next)]
                                 ELSE root
           /\ foreign' = [q \in Server |-> IF q # p THEN TRUE
                                           ELSE foreign[p] /\ ~follows]
    /\ UNCHANGED <<panels, menu, requests, edits>>

\* A full disk: the temporary file goes, and the request with it.
SaveFails(p) ==
    /\ pending[p] # Idle
    /\ pending' = [pending EXCEPT ![p] = Idle]
    /\ UNCHANGED <<disk, saver, root, panels, foreign, menu, requests, edits>>

\* headless.catalog: a tool of the agent resolves the root again and binds the panels
\* to a catalog of its own.
ToolCall(p) ==
    /\ pending[p] = Idle
    /\ ResolveRoot(p, Load) # NoUri
    /\ panels' = [panels EXCEPT ![p] = ResolveRoot(p, Load)]
    /\ UNCHANGED <<disk, saver, pending, root, foreign, menu, requests, edits>>

Restart(p) ==
    /\ pending' = [pending EXCEPT ![p] = Idle]
    /\ root' = [root EXCEPT ![p] = ResolveRoot(p, Load)]
    /\ panels' = [panels EXCEPT ![p] = Main]
    /\ foreign' = [foreign EXCEPT ![p] = FALSE]
    /\ UNCHANGED <<disk, saver, menu, requests, edits>>

\* Somebody opens the file: an entry is spoiled, the active one misnamed, or all of it.
EditByHand ==
    /\ edits < Edits /\ edits' = edits + 1
    /\ \/ disk' = Garbled
       \/ \E id \in Ids :
             disk' = [Load EXCEPT !.conns = Append(@, Broken), !.active = id]
    /\ saver' = FALSE
    /\ pending' = [p \in Server |->
          IF pending[p] = Idle THEN Idle ELSE [pending[p] EXCEPT !.stale = TRUE]]
    /\ foreign' = [p \in Server |-> TRUE]
    /\ UNCHANGED <<root, panels, menu, requests>>

\* menu::install: parse_recents skips what from_dict skips, and needs no active one.
InstallMenu ==
    /\ menu' = IF disk \in {Absent, Garbled} THEN {} ELSE Listed(disk.conns) \ {Broken}
    /\ UNCHANGED <<disk, saver, pending, root, panels, foreign, requests, edits>>

SettingsNext ==
    \/ \E p \in Server :
          \/ \E r \in Request : Begin(p, r)
          \/ WriteTemporary(p) \/ Replace(p) \/ SaveFails(p) \/ ToolCall(p) \/ Restart(p)
    \/ EditByHand \/ InstallMenu

--------------------------------------------------------------------------
(* Properties. *)

\* What a process has written is read back as it was meant: whole, and with an active
\* connection that is in the list, whatever was removed and whoever crashed.  No database
\* is listed twice, though every addition carries a label of its own and additions of
\* two processes overwrite one another.  Unless somebody else has changed the file, CATALOG
\* is where the file says: after every addition, switch and removal, one that failed to
\* save included.  The menu may be old, but an item that still opens something opens what
\* it names; and a config pinned to a listed connection names its database.
SettingsAreSound ==
    /\ SettingsTypeOK
    /\ saver => disk \notin {Absent, Garbled} /\ FromDict(disk) = disk
    /\ \A i, j \in DOMAIN Load.conns : i # j => Load.conns[i].uri # Load.conns[j].uri
    /\ \A p \in Server : ~foreign[p] => root[p] = ResolveRoot(p, Load)
    /\ \A item \in menu, c \in Listed(Load.conns) : item.id = c.id => item.uri = c.uri
    /\ \A p \in Server, c \in Listed(Load.conns) : Pinning(p, Load, c.id).uri = c.uri

\* A connection leaves the file by its removal, by a hand, or because a process saved
\* what it had loaded before another one saved: never by an ordinary save.
OnlyStaleSavesLose ==
    [][\A c \in Listed(Load.conns) \ Listed(Load'.conns) :
          \/ edits' # edits
          \/ \E p \in Server :
                /\ pending[p].phase = "written" /\ pending'[p] = Idle
                /\ \/ pending[p].stale
                   \/ pending[p].request.op = "remove" /\ pending[p].request.id = c.id]_settingsVars

\* routes/settings.py: "Save, then point the live catalog wherever the settings now say."
PanelsAreInStep ==
    \A p \in Server : ~foreign[p] =>
        (IF panels[p] = Main THEN root[p] ELSE panels[p]) = ResolveRoot(p, Load)

\* settings.py: "The stored key is scoped to the provider it was stored for."
KeysStayWithTheirProvider ==
    \A provider \in Providers \ {"auto"} :
        ApiKeyFor(Load, provider) \in {NoKey, "auto", provider}
====
