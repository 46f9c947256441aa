------------------------------- MODULE Profiles -------------------------------
(***************************************************************************)
(* Named profiles (profile.cpp): the array behind profileLock, its file,   *)
(* which is written anew by each save and delete, a profile that is being  *)
(* applied, which is done without the lock, and kills of the program.      *)
(*                                                                         *)
(* Abstractions.  A module has an enabled flag and parameters, which       *)
(* getParams() stores together or not at all; they have one value and take *)
(* Size[m] places; a chance is in hundredths of a percent.  A file is the  *)
(* sequence of its entries, whose names have no braces.  One profile is    *)
(* applied at a time.                                                      *)
(***************************************************************************)
EXTENDS Integers, Sequences, FiniteSets, SequencesExt, Series

CONSTANTS
  Names,         \* names profiles are saved under
  Cut,           \* what PROFILE_NAME_SIZE leaves of each, a short name
  OddQuotes,     \* names with an odd number of quotes
  Behind,        \* what is behind the last quote of each: the name itself if it
                 \* has no quote, "none" if it ends with one
  Modules,       \* the modules in their order, a sequence
  Size,          \* places the parameters of each module take
  Chances,       \* modules whose parameter is a chance
  TiesUp,        \* chances that are half a tenth which each module prints as the next
  ParamValues,   \* values of parameters
  MaxParams,     \* MAX_PROFILE_PARAMS
  MaxProfiles,   \* MAX_PROFILES
  FirstFiles,    \* what profiles.json may hold at first
  MaxSets,       \* bound on modules switched or set
  MaxSaves,      \* bound on saves
  MaxFailures    \* bound on files not opened or written, and on kills

ModuleSet == ToSet(Modules)
\* A flag that is on is stored as 1.
Param(m, kind, v) == [module |-> m, kind |-> kind, val |-> v]
Params == [module : ModuleSet, kind : {"on"}, val : {0, 1}]
          \cup [module : ModuleSet, kind : {"val"}, val : ParamValues]

\* getParams() prints a chance with one digit behind the point, which setParam()
\* takes back as it is printed.
Printed(m, v) ==
  IF m \notin Chances THEN v
  ELSE IF v % 10 > 5 \/ (v % 10 = 5 /\ v \in TiesUp[m]) THEN v + 10 - (v % 10)
       ELSE v - (v % 10)

\* The writer escapes nothing: such a name is read again as it was written.
Unquoted(name) == name \notin OddQuotes /\ Behind[name] = name

ASSUME ProfilesAssumption ==
  /\ Cut \in [Names -> Names] /\ \A n \in Names : Cut[Cut[n]] = Cut[n]
  /\ OddQuotes \subseteq Names /\ Behind \in [Names -> Names \cup {"none"}]
  /\ \A n \in Names : Behind[n] \in Names => Unquoted(Behind[n])
  /\ Modules \in Seq(ModuleSet) /\ Modules # <<>>
  /\ \A i, j \in DOMAIN Modules : i # j => Modules[i] # Modules[j]
  /\ \A m \in ModuleSet : Size[m] \in Nat \ {0}
  /\ ParamValues # {} /\ ParamValues \subseteq Nat
  /\ Chances \subseteq ModuleSet /\ TiesUp \in [Chances -> SUBSET ParamValues]
  /\ \A m \in Chances, v \in ParamValues : Printed(m, v) \in ParamValues
  /\ MaxParams \in Nat \ {0} /\ MaxProfiles \in Nat \ {0}
  /\ FirstFiles \subseteq Seq([name : Names, params : Seq(Params)])
  /\ \A f \in FirstFiles : \A i, j \in DOMAIN f : i # j => f[i].name # f[j].name

VARIABLES
  profiles,     \* the array
  file,         \* the entries of profiles.json
  phase,        \* what the holder of profileLock does: "idle" if there is none
  at,           \* [slot, next]: the profile that is saved, modules collected so far
  live,         \* the modules: enabled flag and parameters
  applying,     \* parameters of the copied profile that are still to be applied
  running,
  applied,      \* the profile applied last, "none" if a module, or it, was set since
  saved,        \* the modules as each profile's save has read them, if the file has it
  stored,       \* the array as it was written last
  whole,        \* the file has been written to its end since the array changed
  sets, saves, failures

program == <<profiles, phase, at, live, applying, running>>
known == <<applied, saved, stored, whole>>
counts == <<sets, saves, failures>>
profilesVars == <<program, file, known, counts>>

Off == [on |-> FALSE, val |-> CHOOSE v \in ParamValues : TRUE]
Nothing == [n \in Names |-> [m \in ModuleSet |-> Off]]
Nowhere == [slot |-> 0, next |-> 0]

\* Reading has taken entries for profiles; it is in step with the quotes, or what
\* it takes for names is what is between them; it may have met its end.
Start == [profiles |-> <<>>, inStep |-> TRUE, over |-> FALSE]

\* A profile has no place for more.
Fitting(params) == SubSeq(params, 1, IF Len(params) < MaxParams THEN Len(params) ELSE MaxParams)

\* Seeded fault: an object that is empty is no profile.
ReadEntryNotEmpty(read, entry) ==
  IF entry.params = <<>> \/ Len(read.profiles) = MaxProfiles THEN read
  ELSE [read EXCEPT !.profiles = Append(@, [entry EXCEPT !.params = Fitting(@)])]

\* One entry is read: its object is taken for the parameters of what is behind its
\* last quote, if that is read as a name.  If it is too long for one, or nothing,
\* the object is taken for more names, and its end for the end of the file.
ReadEntry(read, entry) ==
  LET inStep == read.inStep # (entry.name \in OddQuotes)
      name == Behind[entry.name]
  IN IF read.over \/ Len(read.profiles) = MaxProfiles THEN read
     ELSE IF ~inStep THEN [read EXCEPT !.inStep = FALSE]
     ELSE IF name \in Names /\ Cut[name] = name
     THEN [profiles |-> Append(read.profiles, [name |-> name, params |-> Fitting(entry.params)]),
           inStep |-> TRUE, over |-> FALSE]
     ELSE [read EXCEPT !.over = TRUE]

\* profilesLoad(): what exceeds the array, or a profile, is left out.
LoadedFrom(entries) ==
  LET read[i \in 0..Len(entries)] ==
        IF i = 0 THEN Start ELSE ReadEntry(read[i - 1], entries[i])
  IN read[Len(entries)].profiles

ProfilesInit ==
  /\ file \in FirstFiles
  /\ profiles = LoadedFrom(file)
  /\ phase = "idle" /\ at = Nowhere
  /\ live = [m \in ModuleSet |-> Off]
  /\ applying = <<>> /\ running = TRUE
  /\ applied = "none"
  /\ saved = Nothing
  /\ stored = profiles /\ whole = FALSE
  /\ sets = 0 /\ saves = 0 /\ failures = 0

Locking == running /\ phase = "idle"

\* A module is switched or set by its user.
SetModule(m) ==
  /\ running
  /\ sets < MaxSets /\ sets' = sets + 1
  /\ \E on \in BOOLEAN, v \in ParamValues : live' = [live EXCEPT ![m] = [on |-> on, val |-> v]]
  /\ live' # live
  /\ applied' = "none"
  /\ UNCHANGED <<profiles, phase, at, applying, running, file, saved, stored, whole, saves,
                 failures>>

------------------------------------------------------------------------------
(* Saving and deleting.                                                     *)

Slots(name) == {i \in DOMAIN profiles : profiles[i].name = name}
FirstSlot(name) == CHOOSE i \in Slots(name) : \A j \in Slots(name) : i <= j

\* The slot of a profile with this very name, a new one if there is none.
Slot(name) == IF Slots(name) # {} THEN FirstSlot(name) ELSE Len(profiles) + 1

\* profileSaveCurrent() finds a slot, which gets the cut name and no parameters.
Save(name) ==
  /\ Locking /\ saves < MaxSaves
  /\ Slot(name) <= MaxProfiles
  /\ LET entry == [name |-> Cut[name], params |-> <<>>]
     IN profiles' = IF Slot(name) <= Len(profiles)
                    THEN [profiles EXCEPT ![Slot(name)] = entry]
                    ELSE Append(profiles, entry)
  /\ at' = [slot |-> Slot(name), next |-> 1]
  /\ phase' = "collect"
  /\ saved' = [saved EXCEPT ![Cut[name]] = [m \in ModuleSet |-> Off]]
  /\ applied' = IF applied = Cut[name] THEN "none" ELSE applied
  /\ whole' = FALSE /\ saves' = saves + 1
  /\ UNCHANGED <<live, applying, running, file, stored, sets, failures>>

\* Seeded fault: the parameters take the place of the flag.
WithOver(params, m) ==
  IF live[m].on /\ MaxParams - Len(params) >= Size[m]
  THEN params \o [i \in 1..Size[m] |-> Param(m, "val", Printed(m, live[m].val))] ELSE params

\* What a module adds to a profile: the flag of one that is on, then its
\* parameters if they fit.
With(params, m) ==
  IF ~live[m].on \/ Len(params) >= MaxParams THEN params
  ELSE Append(params, Param(m, "on", 1)) \o
       (IF MaxParams - Len(params) - 1 >= Size[m]
        THEN [i \in 1..Size[m] |-> Param(m, "val", Printed(m, live[m].val))] ELSE <<>>)

\* One module after the other is read; others set them meanwhile.
Collect ==
  /\ running /\ phase = "collect"
  /\ LET m == Modules[at.next]
         entry == profiles[at.slot]
     IN /\ profiles' = [profiles EXCEPT ![at.slot].params = With(@, m)]
        /\ saved' = [saved EXCEPT ![entry.name][m] = live[m]]
  /\ IF at.next = Len(Modules)
     THEN at' = Nowhere /\ phase' = "open"
     ELSE at' = [at EXCEPT !.next = @ + 1] /\ UNCHANGED phase
  /\ UNCHANGED <<live, applying, running, file, applied, stored, whole, counts>>

\* Seeded fault: the profiles move down onto the one before the deleted one.
DeleteShiftsOne(name) ==
  /\ Locking /\ Slots(name) # {}
  /\ LET i == FirstSlot(name)
     IN profiles' = RemoveAt(profiles, IF i = 1 THEN 1 ELSE i - 1)
  /\ phase' = "open" /\ whole' = FALSE
  /\ UNCHANGED <<at, live, applying, running, file, applied, saved, stored, counts>>

\* profileDelete() moves the profiles behind down.
Delete(name) ==
  /\ Locking /\ Slots(name) # {}
  /\ profiles' = RemoveAt(profiles, FirstSlot(name))
  /\ phase' = "open" /\ whole' = FALSE
  /\ UNCHANGED <<at, live, applying, running, file, applied, saved, stored, counts>>

------------------------------------------------------------------------------
(* profilesWriteAll().                                                      *)

\* The file is truncated, ...
OpenFile ==
  /\ running /\ phase = "open"
  /\ file' = <<>> /\ stored' = profiles
  /\ phase' = "write"
  /\ UNCHANGED <<profiles, at, live, applying, running, applied, saved, whole, counts>>

\* ... or cannot be opened: the array is changed, the file is not.
OpenFails ==
  /\ running /\ phase = "open"
  /\ failures < MaxFailures /\ failures' = failures + 1
  /\ phase' = "idle"
  /\ UNCHANGED <<profiles, at, live, applying, running, file, known, sets, saves>>

CloseFile ==
  /\ running /\ phase = "write"
  /\ file' = profiles /\ whole' = TRUE
  /\ phase' = "idle"
  /\ UNCHANGED <<profiles, at, live, applying, running, applied, saved, stored, counts>>

\* What a write that stops anywhere leaves: some entries, of the next one some
\* parameters, of the last of these a value that may be cut.
CutParam(p) == {[p EXCEPT !.val = v] : v \in IF p.kind = "on" THEN {0, 1} ELSE ParamValues}

CutEntries(e) ==
  {[e EXCEPT !.params = <<>>]} \cup
  UNION {{[e EXCEPT !.params = Append(SubSeq(@, 1, k - 1), p)] : p \in CutParam(e.params[k])}
         : k \in DOMAIN e.params}

Beginnings(entries) ==
  UNION {{SubSeq(entries, 1, n)} \cup
         (IF n = Len(entries) THEN {}
          ELSE {Append(SubSeq(entries, 1, n), e) : e \in CutEntries(entries[n + 1])})
         : n \in 0..Len(entries)}

\* No result of fprintf() is looked at: what does not fit on the disk is lost.
WriteFails ==
  /\ running /\ phase = "write"
  /\ failures < MaxFailures /\ failures' = failures + 1
  /\ file' \in Beginnings(profiles)
  /\ phase' = "idle"
  /\ UNCHANGED <<profiles, at, live, applying, running, known, sets, saves>>

------------------------------------------------------------------------------
(* Applying.                                                                *)

\* profileApply() copies the profile, ...
Apply(name) ==
  /\ Locking /\ applying = <<>> /\ Slots(name) # {}
  /\ applying' = profiles[FirstSlot(name)].params
  /\ applied' = name
  /\ UNCHANGED <<profiles, phase, at, live, running, file, saved, stored, whole, counts>>

\* ... and goes through the copy without the lock: applyModuleKV().
ApplyOne ==
  /\ running /\ applying # <<>>
  /\ LET p == Head(applying)
     IN live' = [live EXCEPT ![p.module] =
                   IF p.kind = "on" THEN [@ EXCEPT !.on = p.val = 1] ELSE [@ EXCEPT !.val = p.val]]
  /\ applying' = Tail(applying)
  /\ UNCHANGED <<profiles, phase, at, running, file, known, counts>>

\* Applying or deleting answers 404 for a name that is not there.
Unknown(name) ==
  /\ Locking /\ Slots(name) = {}
  /\ UNCHANGED profilesVars

------------------------------------------------------------------------------
(* The end of the program and its next start.                               *)

Die ==
  /\ running /\ failures < MaxFailures
  /\ failures' = failures + 1 /\ running' = FALSE
  /\ IF phase = "write" THEN file' \in Beginnings(profiles) ELSE UNCHANGED file
  /\ profiles' = <<>> /\ phase' = "idle" /\ at' = Nowhere
  /\ live' = [m \in ModuleSet |-> Off]
  /\ applying' = <<>> /\ applied' = "none"
  /\ whole' = FALSE
  /\ saved' = IF whole THEN saved ELSE Nothing
  /\ UNCHANGED <<stored, sets, saves>>

Restart ==
  /\ ~running /\ running' = TRUE
  /\ profiles' = LoadedFrom(file)
  /\ UNCHANGED <<phase, at, live, applying, file, known, counts>>

ProfilesNext ==
  \/ \E m \in ModuleSet : SetModule(m)
  \/ \E n \in Names : Save(n) \/ Delete(n) \/ Apply(n) \/ Unknown(n)
  \/ Collect
  \/ OpenFile \/ OpenFails \/ CloseFile \/ WriteFails
  \/ ApplyOne \/ Die \/ Restart

ProfilesSpec == ProfilesInit /\ [][ProfilesNext]_profilesVars

------------------------------------------------------------------------------
(* Properties.                                                              *)

\* The variables have the values their declarations promise.
ProfilesTypeOK ==
  /\ Len(profiles) <= MaxProfiles
  /\ \A i \in DOMAIN profiles :
       profiles[i].name \in Names /\ Len(profiles[i].params) <= MaxParams
  /\ phase \in {"idle", "collect", "open", "write"}
  /\ at \in {Nowhere} \cup [slot : 1..MaxProfiles, next : 1..Len(Modules)]
  /\ live \in [ModuleSet -> [on : BOOLEAN, val : ParamValues]]
  /\ running \in BOOLEAN /\ whole \in BOOLEAN

\* No name as far as the i-th has a quote.
UnquotedTo(entries, i) == \A j \in 1..i : Unquoted(entries[j].name)

\* Once the file is written, and nobody holds the lock, a program started now
\* would load just the profiles this one has, whatever was in the file before, if
\* no name has a quote; those before the first that has one in any case.
FileMatches ==
  running /\ phase = "idle" /\ whole =>
    LET loaded == LoadedFrom(file)
    IN /\ \A i \in DOMAIN profiles :
            UnquotedTo(profiles, i) => i \in DOMAIN loaded /\ loaded[i] = profiles[i]
       /\ UnquotedTo(profiles, Len(profiles)) => loaded = profiles

\* No longer name is cut to this one, and none ends in it behind a quote.
Own(n) == \A l \in Names : Cut[l] = n \/ Behind[l] = n => l = n

\* A name that no other one is read or cut to has one profile at most: what is saved
\* under it replaces what was, and a delete leaves nothing of the name.
NameOnce == \A n \in Names : Own(n) => Cardinality(Slots(n)) <= 1

\* Whoever saves or deletes a profile leaves those with other names, and their
\* order, as they are.
OthersKept ==
  \A n \in Names :
    LET others == {e \in ToSet(profiles) \cup ToSet(profiles') : e.name # Cut[n]}
    IN Save(n) \/ Delete(n) \/ (Collect /\ profiles[at.slot].name = Cut[n])
         => Only(profiles, others) = Only(profiles', others)

\* The places that modules take of which these were on.
Room(modules) ==
  SumTo([j \in DOMAIN Modules |-> IF modules[Modules[j]].on THEN 1 + Size[Modules[j]] ELSE 0],
        Len(Modules))

\* The module is as it was, but for a chance, which is a multiple of a tenth of a
\* percent now and at most half a tenth from what it was.
Restored(m, was) ==
  /\ live[m].on = was.on
  /\ IF m \in Chances THEN live[m].val % 10 = 0 /\ live[m].val - was.val \in -5..5
                      ELSE live[m].val = was.val

\* A profile of such a name that is applied, after a restart as well if its file
\* was written, brings back every module that was on when the save read it, with
\* its parameters, if there was room for all of them and nobody set one since.
SavedIsRestored ==
  (/\ running /\ applied # "none" /\ Own(applied) /\ applying = <<>>
   /\ phase = "idle" /\ Slots(applied) # {})
  => (Room(saved[applied]) <= MaxParams =>
        \A m \in ModuleSet : saved[applied][m].on => Restored(m, saved[applied][m]))

\* A kill, or a disk that is full, costs profiles from the end on: the next start
\* has a beginning of the array that was to be written, in which only the last
\* profile may differ from what was saved, as far as no name has a quote.
RestartsWithBeginning ==
  ~running /\ running' =>
    LET n == Len(profiles')
    IN /\ n <= Len(stored)
       /\ \A i \in 1..n : UnquotedTo(stored, i) => profiles'[i].name = stored[i].name
       /\ \A i \in 1..n : i < n /\ UnquotedTo(stored, i) => profiles'[i] = stored[i]

\* Profiles are not lost for others, nor by a kill but from the end on.
Kept == [][OthersKept /\ RestartsWithBeginning]_profilesVars

\* The array and the file agree at every release of the lock, as far as names can be
\* read again, one entry a name.
ProfilesConsistent == ProfilesTypeOK /\ FileMatches /\ NameOnce
==============================================================================
