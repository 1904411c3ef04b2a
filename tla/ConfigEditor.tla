---------------------------- MODULE ConfigEditor ----------------------------
(***************************************************************************)
(* The config screen of the TUI: the draft of the profile, the row         *)
(* selection and the input line of editor.rs, saving and applying the      *)
(* draft, and what the next start makes of the saved file (resolve_config  *)
(* of main.rs).  The file belongs to everybody: an editor or another       *)
(* cephlens may change it between any two keys and between the load and    *)
(* the write of a save, and a write in place may fail half way.            *)
(***************************************************************************)
EXTENDS Naturals, Sequences, SequencesExt

CONSTANTS
    NameOrder,    \* the profile names in the order of the file's BTreeMap
    Words,        \* what the text fields of a file may hold
    Dests,        \* of these, the ssh destinations that validate_ssh_destination accepts
    DefaultHosts, \* default_hosts(), for a profile that is not in the file
    Urls,         \* download urls
    Sums,         \* well formed SHA256 sums
    Blank,        \* the empty string, also of an input of spaces
    Absent,       \* None: an optional field that the file leaves out
    Broken,       \* a file that is no config, or a start that is refused
    NoFile,       \* a path that does not exist
    NoSave,       \* no save is under way
    Files,        \* what others may leave at the path
    CommandLines, \* the overrides a session may be started with
    Typed,        \* for each input, the values its line may hold on Enter
    MaxEdits      \* the edits and saves that are followed

Names == ToSet(NameOrder)

(* The numeric rows, the switches, and all fixed rows of the screen.       *)
Counts == {"refresh_secs", "trace_window_secs", "trace_latency_ms", "trace_ttl_secs"}
Switches == {"trace_auto_start", "osdtrace_allow_unverified"}

(* ClusterProfile and ConfigFile.                                          *)
Profiles ==
    [admin: Words \cup {Absent}, hosts: Seq(Words), clients: Seq(Words) \cup {Absent},
     count: [Counts -> Nat \cup {Absent}], switch: [Switches -> BOOLEAN \cup {Absent}],
     url: Words \cup {Absent}, sum: Words \cup {Absent}]
IsConfigFile(f) ==
    \E names \in SUBSET Names:
        f \in [default_profile: Names \cup {Absent}, session_keep: Nat \cup {Absent},
              profiles: [names -> Profiles]]

ASSUME ConfigAssumption ==
    /\ DefaultHosts \in Seq(Dests) /\ DefaultHosts # <<>>
    /\ "example" \in Names \ {Blank}
    /\ Dests \cup Sums \cup Urls \cup {Blank} \subseteq Words
    /\ Blank \notin Dests \cup Sums \cup Urls
    /\ Absent \notin Words \cup Seq(Words) \cup Names \cup Nat \cup BOOLEAN
    /\ Broken # NoFile /\ ~IsConfigFile(Broken) /\ ~IsConfigFile(NoFile)
    /\ \A f \in Files \ {Broken, NoFile}: IsConfigFile(f)
    /\ Typed["osdtrace_url"] \subseteq Urls \cup {Blank}
    /\ MaxEdits \in Nat

FixedRows == <<"admin_host", "refresh_secs", "trace_auto_start", "trace_window_secs",
               "trace_latency_ms", "trace_ttl_secs", "osdtrace_url", "osdtrace_sha256",
               "osdtrace_allow_unverified">>

(* ConfigDraft.  App holds the same fields; a url or sum that is None      *)
(* there is Blank here.                                                    *)
Config ==
    [profile: Names, admin: Dests, hosts: Seq(Dests) \ {<<>>}, clients: Seq(Dests),
     count: [Counts -> Nat], switch: [Switches -> BOOLEAN],
     url: Urls \cup {Blank}, sum: Sums \cup {Blank}]

VARIABLES
    mode,     \* Mode of App: "live" or "config"
    app,      \* the configuration that App holds
    streams,  \* what the running ssh streams were started with
    file,     \* the file at config_path
    ours,     \* whether the last change of the file was a save of this screen
    saving,   \* in save_profile_config: the file it loaded and the one it will write
    draft, selected, input, dirty, \* the fields of ConfigEditor
    edits     \* the edits and saves so far

editorVars == <<mode, app, streams, file, ours, saving, draft, selected, input, dirty, edits>>

-----------------------------------------------------------------------------
(* From the file and the command line to App.                              *)

(* Of equal hosts the first stays.                                         *)
normalize_hosts(hosts) ==
    FoldLeft(LAMBDA clean, h: IF h \in ToSet(clean) THEN clean ELSE Append(clean, h), <<>>, hosts)

(* The default for a count of zero is left to the reader of the file.      *)
AtLeastOne_fault(count) == count

(* Each count but the latency threshold is raised to one.                  *)
AtLeastOne(count) ==
    [n \in Counts |-> IF n # "trace_latency_ms" /\ count[n] = 0 THEN 1 ELSE count[n]]

OrElse(value, default) == IF value = Absent THEN default ELSE value
Optional(text) == IF text = Blank THEN Absent ELSE text

DefaultCount(n) ==
    CASE n = "trace_window_secs" -> 10
      [] n = "trace_ttl_secs" -> 1800
      [] OTHER -> 1

(* The profile of a name that the file does not have.                      *)
NoProfile ==
    [admin |-> Absent, hosts |-> DefaultHosts, clients |-> Absent,
     count |-> [n \in Counts |-> Absent], switch |-> [s \in Switches |-> Absent],
     url |-> Absent, sum |-> Absent]

Known(f) == IF f = NoFile THEN {} ELSE DOMAIN f.profiles

ProfileName(f, cli) ==
    IF cli.profile # Absent THEN cli.profile
    ELSE IF f # NoFile /\ f.default_profile # Absent THEN f.default_profile
    ELSE SelectSeq(NameOrder \o <<"example">>, LAMBDA n: n \in Known(f) \cup {"example"})[1]

Resolved(p, name, cli) ==
    LET hosts == OrElse(cli.hosts, p.hosts) IN
    [profile |-> name,
     admin |-> OrElse(cli.admin, OrElse(p.admin, hosts[1])),
     hosts |-> hosts,
     clients |-> normalize_hosts(OrElse(p.clients, <<>>)),
     count |-> AtLeastOne([n \in Counts |->
                   OrElse(IF n = "refresh_secs" THEN cli.refresh ELSE Absent,
                          OrElse(p.count[n], DefaultCount(n)))]),
     switch |-> [s \in Switches |-> OrElse(p.switch[s], FALSE)],
     url |-> OrElse(p.url, Blank),
     sum |-> OrElse(p.sum, Blank)]

(* A start is refused for a file that does not parse, a named profile that *)
(* is not there, no hosts, a bad destination or a bad sum.                 *)
resolve_config(f, cli) ==
    IF f = Broken THEN Broken
    ELSE LET name == ProfileName(f, cli)
             p == IF name \in Known(f) THEN f.profiles[name] ELSE NoProfile
         IN IF \/ cli.profile # Absent /\ name \notin Known(f)
               \/ OrElse(cli.hosts, p.hosts) = <<>>
               \/ Resolved(p, name, cli) \notin Config
            THEN Broken ELSE Resolved(p, name, cli)

-----------------------------------------------------------------------------
(* The draft.                                                              *)

NoInput == [row |-> "none", index |-> 0]
Count(d) == Len(FixedRows) + Len(d.hosts)

Clamp(s, d) == IF s > Count(d) THEN Count(d) ELSE s
Selection(s) == IF s <= Len(FixedRows) THEN FixedRows[s] ELSE "host"
HostIndex(s) == s - Len(FixedRows)

(* What resolve_config makes and the keys keep: good destinations, at      *)
(* least one host, counts that are not zero.  The name may be blank, since *)
(* the file may have one as default_profile or as the key of a profile.    *)
Usable(d) == d \in Config /\ \A n \in Counts \ {"trace_latency_ms"}: d.count[n] > 0

(* validate_config_draft also asks for a name.                             *)
Valid(d) == d.profile # Blank /\ Usable(d)

(* What start_live_streams passes to the stream threads.                   *)
Polls(c) == [admin |-> c.admin, hosts |-> c.hosts, refresh |-> c.count["refresh_secs"]]

(* apply_editor_input refuses a blank or bad destination, a host that      *)
(* another row has, text that is no number and a sum that is none.         *)
Accepts(in, value) ==
    CASE in.row = "admin_host" -> value \in Dests
      [] in.row \in Counts -> value \in Nat
      [] in.row = "osdtrace_url" -> TRUE
      [] in.row = "osdtrace_sha256" -> value \in Sums \cup {Blank}
      [] in.row = "add" -> value \in Dests /\ value \notin ToSet(draft.hosts)
      [] in.row = "host" -> /\ value \in Dests
                            /\ \A i \in DOMAIN draft.hosts: draft.hosts[i] = value => i = in.index

(* One field changes; a renamed host row takes the admin host with it.     *)
Applied(in, value) ==
    [draft EXCEPT
        !.admin = IF in.row = "admin_host" \/ (in.row = "host" /\ @ = draft.hosts[in.index]) THEN value ELSE @,
        !.count = IF in.row \in Counts THEN AtLeastOne([@ EXCEPT ![in.row] = value]) ELSE @,
        !.url = IF in.row = "osdtrace_url" THEN value ELSE @,
        !.sum = IF in.row = "osdtrace_sha256" THEN value ELSE @,
        !.hosts = normalize_hosts(CASE in.row = "add" -> Append(@, value)
                                    [] in.row = "host" -> [@ EXCEPT ![in.index] = value]
                                    [] OTHER -> @)]

SelectedAfter(in) ==
    IF in.row = "add" THEN Len(FixedRows) + Len(draft.hosts) + 1 ELSE selected

(* The admin host stays although its row is gone.                          *)
Deleted_fault(index) == [draft EXCEPT !.hosts = RemoveAt(@, index)]

(* The first host takes over from a deleted admin host.                    *)
Deleted(index) ==
    LET hosts == RemoveAt(draft.hosts, index) IN
    [draft EXCEPT !.hosts = hosts,
                  !.admin = IF @ = draft.hosts[index] THEN hosts[1] ELSE @]

-----------------------------------------------------------------------------
(* Saving.                                                                 *)

StoredProfile(d) ==
    [admin |-> d.admin, hosts |-> d.hosts,
     clients |-> IF d.clients = <<>> THEN Absent ELSE d.clients,
     count |-> AtLeastOne(d.count), switch |-> d.switch,
     url |-> Optional(d.url), sum |-> Optional(d.sum)]

(* A file that does not parse is taken for one that does not exist.        *)
Saved_fault(f, d) ==
    [default_profile |-> d.profile, session_keep |-> Absent,
     profiles |-> [n \in {d.profile} |-> StoredProfile(d)]]

(* save_profile_config loads the file again and replaces one profile.      *)
Saved(f, d) ==
    LET old == IF f = NoFile THEN [default_profile |-> Absent, session_keep |-> Absent, profiles |-> <<>>]
               ELSE f
    IN [old EXCEPT !.default_profile = OrElse(@, d.profile),
                   !.profiles = [n \in DOMAIN @ \cup {d.profile} |->
                                    IF n = d.profile THEN StoredProfile(d) ELSE @[n]]]

(* A field that App forgets to copy.                                       *)
Applying_fault(d) == [d EXCEPT !.count = [AtLeastOne(@) EXCEPT !["trace_ttl_secs"] = app.count["trace_ttl_secs"]]]

(* What App copies from the draft; from_app raises the counts too.         *)
Applying(d) == [d EXCEPT !.count = AtLeastOne(@)]

(* The interval is not compared.                                           *)
StreamsChanged_fault(d) == app.admin # d.admin \/ app.hosts # d.hosts

StreamsChanged(d) == Polls(app) # Polls(d)

(* persist_and_apply_config with the draft d and the row s, up to the load *)
(* of save_profile_config: a draft or a file that is refused changes       *)
(* neither the file nor App, and the draft stays as it is, and dirty.      *)
persist_and_apply_config(d, s, changed) ==
    /\ edits < MaxEdits /\ edits' = edits + 1
    /\ selected' = Clamp(s, d)
    /\ draft' = d
    /\ dirty' = (dirty \/ changed)
    /\ saving' = IF Valid(d) /\ file # Broken
                 THEN [loaded |-> file, config |-> Saved(file, d)] ELSE NoSave
    /\ UNCHANGED <<app, streams, file, ours>>

(* A failed write clears the mark although App goes on as before.          *)
write_config_fault ==
    /\ saving # NoSave
    /\ saving' = NoSave /\ dirty' = FALSE
    /\ \/ UNCHANGED <<file, ours, app, streams, draft>>
       \/ /\ file' = saving.config /\ ours' = TRUE
          /\ app' = Applying(draft) /\ streams' = Polls(app') /\ draft' = app'
    /\ UNCHANGED <<mode, selected, input, edits>>

(* The rest of it: fs::write, and App takes over the draft.  The write is  *)
(* over whatever is at the path by now; one that fails may leave the file  *)
(* truncated.                                                              *)
write_config ==
    /\ saving # NoSave
    /\ saving' = NoSave
    /\ \/ /\ file' \in {file, Broken}
          /\ ours' = (ours /\ file' = file)
          /\ UNCHANGED <<app, streams, draft, dirty>>
       \/ /\ file' = saving.config
          /\ ours' = TRUE
          /\ app' = Applying(draft)
          /\ streams' = IF StreamsChanged(draft) THEN Polls(app') ELSE streams
          /\ draft' = app'
          /\ dirty' = FALSE
    /\ UNCHANGED <<mode, selected, input, edits>>

-----------------------------------------------------------------------------
(* The keys.                                                               *)

open_config_editor ==
    /\ mode = "live"
    /\ mode' = "config"
    /\ draft' = Applying(app)
    /\ selected' = 1 /\ input' = NoInput /\ dirty' = FALSE
    /\ UNCHANGED <<app, streams, file, ours, saving, edits>>

(* A save keeps the main loop until it has ended.                          *)
InScreen == mode = "config" /\ input = NoInput /\ saving = NoSave

leave ==
    /\ InScreen
    /\ mode' = "live"
    /\ UNCHANGED <<app, streams, file, ours, saving, draft, selected, input, dirty, edits>>

select(s) ==
    /\ InScreen
    /\ selected' = s
    /\ UNCHANGED <<mode, app, streams, file, ours, saving, draft, input, dirty, edits>>

select_prev == select(IF selected = 1 THEN 1 ELSE selected - 1)
select_next == select(Clamp(selected + 1, draft))

start_input(in) ==
    /\ InScreen
    /\ input' = in
    /\ UNCHANGED <<mode, app, streams, file, ours, saving, draft, selected, dirty, edits>>

add_host == start_input([row |-> "add", index |-> 0])

start_edit_selected_config ==
    LET row == Selection(selected) IN
    \/ /\ row \notin Switches
       /\ start_input([row |-> row, index |-> IF row = "host" THEN HostIndex(selected) ELSE 0])
    \/ /\ InScreen
       /\ row \in Switches
       /\ persist_and_apply_config([draft EXCEPT !.switch[row] = ~@], selected, TRUE)
       /\ UNCHANGED <<mode, input>>

(* A host row is deleted, unless it is the last one.                       *)
delete_selected_config_host ==
    /\ InScreen
    /\ Selection(selected) = "host"
    /\ Len(draft.hosts) > 1
    /\ persist_and_apply_config(Deleted(HostIndex(selected)), selected, TRUE)
    /\ UNCHANGED <<mode, input>>

save ==
    /\ InScreen
    /\ persist_and_apply_config(draft, selected, FALSE)
    /\ UNCHANGED <<mode, input>>

cancel_input ==
    /\ mode = "config" /\ input # NoInput
    /\ input' = NoInput
    /\ UNCHANGED <<mode, app, streams, file, ours, saving, draft, selected, dirty, edits>>

(* Enter.  A value that is refused leaves the input line as it is.         *)
finish_config_input ==
    /\ mode = "config" /\ input # NoInput
    /\ \E value \in Typed[input.row]:
          /\ Accepts(input, value)
          /\ persist_and_apply_config(Applied(input, value), SelectedAfter(input), TRUE)
    /\ input' = NoInput
    /\ UNCHANGED mode

(* The file changes under the screen.                                      *)
others_write ==
    /\ \E f \in Files: f # file /\ file' = f
    /\ ours' = FALSE
    /\ UNCHANGED <<mode, app, streams, saving, draft, selected, input, dirty, edits>>

EditorInit ==
    /\ file \in Files
    /\ \E cli \in CommandLines:
          /\ resolve_config(file, cli) # Broken
          /\ app = resolve_config(file, cli)
    /\ streams = Polls(app)
    /\ mode = "live" /\ ours = FALSE /\ saving = NoSave
    /\ draft = Applying(app) /\ selected = 1 /\ input = NoInput /\ dirty = FALSE
    /\ edits = 0

EditorKeys ==
    \/ open_config_editor \/ leave \/ select_prev \/ select_next
    \/ add_host \/ start_edit_selected_config \/ delete_selected_config_host \/ save
    \/ cancel_input \/ finish_config_input

EditorNext == EditorKeys \/ write_config \/ others_write

EditorSpec == EditorInit /\ [][EditorNext]_editorVars

-----------------------------------------------------------------------------
(* Types, and the bounds of the selection: the row of an open input line   *)
(* is the selected one, and none is open while a save is under way.        *)
EditorTypeOK ==
    /\ mode \in {"live", "config"}
    /\ app \in Config /\ DOMAIN draft = DOMAIN app
    /\ (file \in {Broken, NoFile} \/ IsConfigFile(file))
    /\ selected \in 1 .. Count(draft)
    /\ input.row \in ToSet(FixedRows) \cup {"none", "add", "host"}
    /\ input.row = "host" => input.index = HostIndex(selected)
    /\ dirty \in BOOLEAN /\ ours \in BOOLEAN
    /\ saving # NoSave => mode = "config" /\ input = NoInput /\ IsConfigFile(saving.config)

(* What a line accepts can be saved: the checks of apply_editor_input and  *)
(* of the start let nothing through that validate_config_draft refuses at  *)
(* the save, when the line is closed, except a blank profile name.         *)
DraftSaves == draft.profile # Blank => Valid(draft)

(* An unmarked draft is what App runs with, also after a save that failed  *)
(* or a file that another program broke.                                   *)
CleanMeansLive == mode = "config" /\ ~dirty => draft = app

(* The ssh streams poll the hosts, from the admin host and at the interval *)
(* that the screen shows as live: persist_and_apply_config restarts them   *)
(* whenever one of the three changes, and never runs old ones.             *)
StreamsMatch == streams = Polls(app)

(* After a save, and until somebody else writes the file, a start with the *)
(* same profile and no overrides resolves to the configuration App runs    *)
(* with now: nothing is lost between draft, file and resolve_config, the   *)
(* overrides of this session included, and whoever wrote the file during   *)
(* the save.                                                               *)
Plain(name) == [profile |-> name, hosts |-> Absent, admin |-> Absent, refresh |-> Absent]
Restartable == ours => resolve_config(file, Plain(app.profile)) = app

(* Editing or deleting host rows never leaves the admin host outside the   *)
(* list it was in; only the admin row itself does.                         *)
AdminFollowsHosts ==
    [][ (/\ mode = "config" /\ mode' = "config" /\ input.row # "admin_host"
         /\ draft.admin \in ToSet(draft.hosts))
        => draft'.admin \in ToSet(draft'.hosts) ]_editorVars

(* The file new has what f holds besides the profile of that name.         *)
HasOthersOf(new, f, name) ==
    /\ \A n \in DOMAIN f.profiles:
          n # name => n \in DOMAIN new.profiles /\ new.profiles[n] = f.profiles[n]
    /\ f.default_profile # Absent => new.default_profile = f.default_profile
    /\ new.session_keep = f.session_keep

(* What a save does to a file that it changes.                             *)
KeepsOthers ==
    (saving # NoSave /\ ours' /\ file' # file) =>
        \/ file # saving.loaded
        \/ file = NoFile
        \/ file # Broken /\ HasOthersOf(file', file, app.profile)

(* A save keeps every other profile, the default profile and session_keep  *)
(* as they are in the file, and never replaces a file it could not read,   *)
(* unless another program wrote the file between the load and the write of *)
(* this very save: only such a change is lost.                             *)
OthersKept == [][KeepsOthers]_editorVars
=============================================================================
