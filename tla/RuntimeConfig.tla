------------------------------- MODULE RuntimeConfig -------------------------------
(***************************************************************************)
(* One of the settings that operators tune at run time (common/models.py),  *)
(* behind a cache whose keys carry the row's version: reads by every       *)
(* request that needs it, writes by the operators' endpoint                *)
(* (backoffice/views.py), which count the version up, and by the admin's   *)
(* pages, which leave it (common/admin.py).  Nothing runs in a transaction *)
(* that keeps others out: every statement, and every call of the cache, is *)
(* a step.                                                                  *)
(***************************************************************************)
EXTENDS Naturals

CONSTANTS ConfigValues, \* what the setting is set to
          Default,      \* what is answered while there is no row
          Ids,          \* primary keys, enough for every request to remember one
          Threads,      \* requests in progress
          MaxRevision   \* bound on the version

RuntimeConfigAssumption == MaxRevision \in Nat
ASSUME RuntimeConfigAssumption

VARIABLES setting, \* the row: value, version and primary key; Unset while there is none
          entries, \* the cache: a value or "none" for each version
          task,    \* where each request is
          doubt    \* whether an entry may be of another time than its version

configVars == <<setting, entries, task, doubt>>

Revisions == 0..MaxRevision
Read == ConfigValues \cup {Default}
Keys == Ids \cup {"none"}
Unset == [value |-> Default, version |-> 0, id |-> "none"]

\* "seen" are the values that the setting has had since a get began.
Task == [at : {"idle", "keyed", "missed", "read", "rekeyed", "answered",
               "absent", "created", "posting", "editing"},
         value : Read, version : Revisions, id : Keys, seen : SUBSET Read]
NoTask == [at |-> "idle", value |-> Default, version |-> 0, id |-> "none", seen |-> {}]

RuntimeConfigInit ==
  /\ setting = Unset
  /\ entries = [v \in Revisions |-> "none"]
  /\ task = [t \in Threads |-> NoTask]
  /\ doubt = FALSE

Becomes(t, new) ==
  /\ task' = [task EXCEPT ![t] = new]
  /\ UNCHANGED <<setting, entries, doubt>>

(***************************************************************************)
(* RuntimeConfig.get                                                       *)
(***************************************************************************)
GetKey(t) ==
  /\ task[t].at = "idle"
  /\ Becomes(t, [NoTask EXCEPT !.at = "keyed", !.version = setting.version,
                               !.seen = {setting.value}])

GetCached(t) ==
  /\ task[t].at = "keyed"
  /\ LET found == entries[task[t].version]
     IN Becomes(t, IF found = "none" THEN [NoTask EXCEPT !.at = "missed"]
                   ELSE [task[t] EXCEPT !.at = "answered", !.value = found])

AnswerGet(t) == task[t].at = "answered" /\ Becomes(t, NoTask)

ReadRow(t) ==
  /\ task[t].at = "missed"
  /\ Becomes(t, [NoTask EXCEPT !.at = "read", !.value = setting.value])

\* The key is computed a second time, by the version there is now.
KeyAgain(t) ==
  /\ task[t].at = "read"
  /\ Becomes(t, [task[t] EXCEPT !.at = "rekeyed", !.version = setting.version])

\* None, the default of some callers, is stored as well, and counts as not cached.
SetCached(t) ==
  /\ task[t].at = "rekeyed"
  /\ entries' = [entries EXCEPT ![task[t].version] = task[t].value]
  /\ task' = [task EXCEPT ![t] = NoTask]
  /\ UNCHANGED <<setting, doubt>>

(***************************************************************************)
(* Writers                                                                 *)
(***************************************************************************)
\* Requests that act on what they have read of the row.
Holding == {"read", "rekeyed", "created", "posting", "editing"}
Overtakes(t) == \E u \in Threads \ {t} : task[u].at \in Holding

\* Request t writes the row, and then is as next says.
Put(t, row, next) ==
  /\ setting' = row
  /\ task' = [u \in Threads |->
                IF u = t THEN next
                ELSE IF task[u].at = "keyed"
                     THEN [task[u] EXCEPT !.seen = @ \cup {row.value}] ELSE task[u]]
  /\ UNCHANGED entries

\* The row by t's copy. If its row is gone, Django's save() inserts it; if another has
\* its place, the UPDATE finds nothing and the INSERT a duplicate key.
Save(t, value, version) ==
  IF setting = Unset \/ setting.id = task[t].id
  THEN /\ version \in Revisions
       /\ Put(t, [value |-> value, version |-> version, id |-> task[t].id], NoTask)
  ELSE task' = [task EXCEPT ![t] = NoTask] /\ UNCHANGED <<setting, entries>>

\* get_or_create looks the row up; the admin's form loads it.
LoadRow(t, purpose) ==
  /\ task[t].at = "idle"
  /\ IF setting = Unset
     THEN purpose = "posting" /\ Becomes(t, [NoTask EXCEPT !.at = "absent"])
     ELSE Becomes(t, [NoTask EXCEPT !.at = purpose, !.version = setting.version,
                                    !.id = setting.id])

\* Mutant of FirstVersion: versions count from where there is no row.
FirstVersionZero == 0

\* RuntimeConfig.version: default=1.
FirstVersion == 1

\* Primary keys that nobody remembers are as good as ones that have never been.
NewIds == {i \in Ids : \A u \in Threads : task[u].id # i}

\* ... and creates it (all that the admin's form for a new row does), or gets
\* the one that another has created meanwhile.
CreateRow(t, value) ==
  /\ task[t].at = "absent"
  /\ IF setting = Unset
     THEN LET id == CHOOSE i \in NewIds : TRUE
          IN /\ NewIds # {} /\ FirstVersion \in Revisions
             /\ Put(t, [value |-> value, version |-> FirstVersion, id |-> id],
                    [NoTask EXCEPT !.at = "created", !.value = value,
                                   !.version = FirstVersion, !.id = id])
             /\ doubt' = (doubt \/ Overtakes(t))
     ELSE Becomes(t, [NoTask EXCEPT !.at = "posting", !.version = setting.version,
                                    !.id = setting.id])

\* ConfigBridgeView.post: row.save() writes value and version by the copy; a row that
\* this request has created keeps its first version.
SaveRow(t, value) ==
  /\ \/ task[t].at = "created" /\ value = task[t].value
     \/ task[t].at = "posting"
  /\ Save(t, value, IF task[t].at = "created" THEN FirstVersion ELSE task[t].version + 1)
  /\ doubt' = (doubt \/ Overtakes(t))

\* The admin's form is saved, which leaves the version as it was loaded.
SaveForm(t, value) ==
  /\ task[t].at = "editing"
  /\ Save(t, value, task[t].version)
  /\ doubt' = (doubt \/ Overtakes(t) \/ entries[task[t].version] # "none")

\* The admin deletes the row; the versions of its successor start from 1.
DeleteRow(t) ==
  /\ task[t].at = "editing"
  /\ IF setting.id = task[t].id THEN Put(t, Unset, NoTask)
     ELSE task' = [task EXCEPT ![t] = NoTask] /\ UNCHANGED <<setting, entries>>
  /\ doubt' = (doubt \/ Overtakes(t) \/ \E v \in Revisions : entries[v] # "none")

(***************************************************************************)
(* Time, and deaths                                                        *)
(***************************************************************************)
\* An entry is 30 seconds old. Once all have gone, and nobody holds what was read
\* before, nothing is left of what was mixed up.
ExpireEntry(v) ==
  /\ entries[v] # "none"
  /\ entries' = [entries EXCEPT ![v] = "none"]
  /\ doubt' = (doubt /\ ~ /\ \A u \in Revisions : entries'[u] = "none"
                          /\ \A t \in Threads : task[t].at \notin Holding \cup {"answered"})
  /\ UNCHANGED <<setting, task>>

\* A request dies, or the operator leaves the form.
GiveUp(t) == Becomes(t, NoTask)

RuntimeConfigNext ==
  \/ \E t \in Threads :
       \/ GetKey(t) \/ GetCached(t) \/ AnswerGet(t)
       \/ ReadRow(t) \/ KeyAgain(t) \/ SetCached(t)
       \/ \E purpose \in {"posting", "editing"} : LoadRow(t, purpose)
       \/ \E value \in ConfigValues :
            CreateRow(t, value) \/ SaveRow(t, value) \/ SaveForm(t, value)
       \/ DeleteRow(t) \/ GiveUp(t)
  \/ \E v \in Revisions : ExpireEntry(v)

RuntimeConfigSpec == RuntimeConfigInit /\ [][RuntimeConfigNext]_configVars

\* Rows, entries and requests are of their types.
RuntimeConfigTypeOK ==
  /\ setting \in [value : Read, version : Revisions, id : Keys]
  /\ entries \in [Revisions -> Read \cup {"none"}]
  /\ task \in [Threads -> Task]
  /\ doubt \in BOOLEAN

\* A get answers with a value that the setting has had since the get began, and what
\* the cache keeps for the row's version is the row's value, through creations, updates,
\* edits, deletions and deaths ("bind cache to the current version so bump-on-write
\* invalidates reads", RuntimeConfig._cache_key). It may be wrong only from when a
\* writer has overtaken a request that acts on an older row, or has changed the row
\* below a cached version, until what was cached in between has expired.
SettingsAreCurrent ==
  ~doubt => /\ entries[setting.version] \in {"none", setting.value}
            /\ \A t \in Threads : task[t].at = "answered" => task[t].value \in task[t].seen
====================================================================================
