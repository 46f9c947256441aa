-------------------------------- MODULE Chains --------------------------------
(***************************************************************************)
(* --auto-iptables: what divertStart() and divertStop() do with the rules  *)
(* derived from the filter (iptables_linux.cpp, divert_linux.cpp), for any *)
(* way to compile filters and to derive rules.                             *)
(*                                                                         *)
(* An iptables command is one step, as the program waits for its exit      *)
(* code; it may fail.  Between two commands the operator may insert the    *)
(* mark bypass the program's own message tells to insert, and the program  *)
(* may be killed.  A chain is a sequence of rules, the head decides first. *)
(***************************************************************************)
EXTENDS Rules, Series, FiniteSets, SequencesExt

CONSTANTS
  Compiled(_),   \* filterCompile(): the set of what words are compiled to, at most one
  Derived(_),    \* filterDeriveIptables(): the rules for what was compiled
  Words,         \* the words the filter expression is made of
  MaxWords,      \* bound on the length of the expression
  MaxInstalled,  \* MAX_INSTALLED
  MaxFailures,   \* bound on failing iptables commands
  MaxDeaths,     \* bound on kills of the program
  Packets        \* the packets the bypass is looked at with

ASSUME ChainsAssumption ==
  /\ MaxWords \in Nat /\ MaxFailures \in Nat /\ MaxDeaths \in Nat
  /\ MaxInstalled \in Nat /\ MaxInstalled >= 2 * MaxRules + 2   \* the code has 24 for 8 rules
  /\ \A n \in 0..MaxWords : \A ws \in [1..n -> Words] :
       /\ \A d, e \in Compiled(ws) : d = e
       /\ \A e \in Compiled(ws) :
            /\ Derived(e) \in Seq(Rule)
            /\ Derived(e) # <<>>   \* without a rule divertStart() would fail
            /\ Len(Derived(e)) <= MaxRules

VARIABLES
  words,      \* the filter expression
  pc,         \* where divertStart()/divertStop() stand
  prog,       \* filterProg: a set of at most one tree
  queue,      \* the NFQUEUE is bound
  loops,      \* read loop and clock loop run
  todo,       \* commands iptablesAutoInstall() has still to run
  installed,  \* installed[], oldest first
  chain,      \* the kernel's chains
  before,     \* the chains as they would be without this run
  stuck,      \* commands whose -D failed
  operator,   \* the operator has inserted a bypass
  failures, deaths

chainsVars == <<words, pc, prog, queue, loops, todo, installed, chain, before, stuck,
               operator, failures, deaths>>

ChainName == {"v4", "v6"} \X {"OUTPUT", "INPUT"}

QueueSpec(r) ==
  [target |-> "queue", proto |-> r.proto, dport |-> r.dport, sport |-> r.sport,
   src |-> r.src, dst |-> r.dst]
Bypass == [target |-> "accept"]  \* -m mark: hits what the program injected
Command(family, name, spec) == [at |-> <<family, name>>, spec |-> spec]

\* The commands of iptablesAutoInstall() in their order: of each rule the one for
\* OUTPUT, then the one for INPUT, if the rule is for these chains.
Targets(rules) ==
  Only([k \in 1..2 * Len(rules) |-> <<(k + 1) \div 2, IF k % 2 = 1 THEN "OUTPUT" ELSE "INPUT">>],
       {t \in (DOMAIN rules) \X {"OUTPUT", "INPUT"} : t[2] \in rules[t[1]].chains})

QueueCommands(rules) ==
  [i \in DOMAIN Targets(rules) |->
     LET r == rules[Targets(rules)[i][1]]
     IN Command(r.family, Targets(rules)[i][2], QueueSpec(r))]

BypassCommands(rules) ==
  LET families == Only(<<"v4", "v6">>, {r.family : r \in ToSet(rules)})
  IN [i \in DOMAIN families |-> Command(families[i], "OUTPUT", Bypass)]

\* Seeded fault: the bypass is installed first.
CommandsBypassFirst(rules) == BypassCommands(rules) \o QueueCommands(rules)

\* -I prepends, so what is installed last comes first in its chain.
Commands(rules) == QueueCommands(rules) \o BypassCommands(rules)

Idle == pc \in {"down", "refused"}

ChainsInit ==
  /\ words = <<>> /\ pc = "down" /\ prog = {} /\ queue = FALSE /\ loops = FALSE
  /\ todo = <<>> /\ installed = <<>> /\ stuck = {} /\ operator = FALSE
  /\ failures = 0 /\ deaths = 0
  /\ \E own \in {<<>>, <<Bypass>>} :
       chain = [c \in ChainName |-> IF c = <<"v4", "OUTPUT">> THEN own ELSE <<>>]
  /\ before = chain

\* One more word of the expression the next start will be given.  Bound: once
\* something went wrong it stays as it is.
Type(w) ==
  /\ Idle /\ Len(words) < MaxWords
  /\ failures = 0 /\ deaths = 0 /\ ~operator
  /\ words' = Append(words, w)
  /\ pc' = "down"
  /\ UNCHANGED <<prog, queue, loops, todo, installed, chain, before, stuck, operator,
                 failures, deaths>>

\* divertStart() fails before the threads exist: a syntax error, or something
\* the kernel refuses, whereupon what there was is closed again.
StartRefused ==
  /\ pc = "down"
  /\ pc' = "refused"
  /\ UNCHANGED <<words, prog, queue, loops, todo, installed, chain, before, stuck, operator,
                 failures, deaths>>

\* divertStart() up to the call of iptablesAutoInstall(), which derives the rules.
StartCapture ==
  /\ Idle
  /\ prog' = Compiled(words)
  /\ prog' # {}
  /\ \E e \in prog' : todo' = Commands(Derived(e))
  /\ queue' = TRUE /\ loops' = TRUE
  /\ installed' = <<>> /\ stuck' = {}
  /\ before' = chain
  /\ pc' = "install"
  /\ UNCHANGED <<words, chain, operator, failures, deaths>>

\* recordAndInstall() succeeds.
InstallOk ==
  /\ pc = "install" /\ todo # <<>>
  /\ Len(installed) < MaxInstalled
  /\ chain' = [chain EXCEPT ![Head(todo).at] = <<Head(todo).spec>> \o @]
  /\ installed' = Append(installed, Head(todo))
  /\ todo' = Tail(todo)
  /\ UNCHANGED <<words, pc, prog, queue, loops, before, stuck, operator, failures, deaths>>

\* Seeded fault: the rules already there are not rolled back.
InstallFailsNoRollback ==
  /\ pc = "install" /\ todo # <<>> /\ failures < MaxFailures
  /\ failures' = failures + 1
  /\ todo' = <<>> /\ installed' = <<>>
  /\ pc' = "rollback"
  /\ UNCHANGED <<words, prog, queue, loops, chain, before, stuck, operator, deaths>>

\* recordAndInstall() fails, iptablesAutoInstall() turns to its rollback.
InstallFails ==
  /\ pc = "install" /\ todo # <<>>
  /\ \/ Len(installed) >= MaxInstalled /\ UNCHANGED failures
     \/ failures < MaxFailures /\ failures' = failures + 1
  /\ todo' = <<>>
  /\ pc' = "rollback"
  /\ UNCHANGED <<words, prog, queue, loops, installed, chain, before, stuck, operator, deaths>>

InstallDone ==
  /\ pc = "install" /\ todo = <<>>
  /\ pc' = "up"
  /\ UNCHANGED <<words, prog, queue, loops, todo, installed, chain, before, stuck, operator,
                 failures, deaths>>

\* divertStop() joins the threads and calls iptablesAutoRemove().
StopCapture ==
  /\ pc = "up"
  /\ loops' = FALSE
  /\ pc' = "remove"
  /\ UNCHANGED <<words, prog, queue, todo, installed, chain, before, stuck, operator,
                 failures, deaths>>

\* iptables -D takes out the first rule that is spelled so.
Deleted(rules, spec) ==
  IF spec \in ToSet(rules)
  THEN RemoveAt(rules, CHOOSE i \in DOMAIN rules :
                         rules[i] = spec /\ \A j \in 1..i-1 : rules[j] # spec)
  ELSE rules

Removing == pc \in {"remove", "rollback"} /\ installed # <<>>

RemoveOk ==
  /\ Removing
  /\ chain' = [chain EXCEPT ![Last(installed).at] = Deleted(@, Last(installed).spec)]
  /\ installed' = Front(installed)
  /\ UNCHANGED <<words, pc, prog, queue, loops, todo, before, stuck, operator, failures, deaths>>

\* A rule that cannot be removed is reported and forgotten.
RemoveFails ==
  /\ Removing /\ failures < MaxFailures
  /\ failures' = failures + 1
  /\ stuck' = stuck \cup {Last(installed)}
  /\ installed' = Front(installed)
  /\ UNCHANGED <<words, pc, prog, queue, loops, todo, chain, before, operator, deaths>>

\* The install failed and is rolled back: divertStart() stops its threads.
UnwindThreads ==
  /\ pc = "rollback" /\ installed = <<>>
  /\ loops' = FALSE
  /\ pc' = "unwind"
  /\ UNCHANGED <<words, prog, queue, todo, installed, chain, before, stuck, operator,
                 failures, deaths>>

\* The queue is destroyed, the program freed.
CloseCapture ==
  /\ \/ pc = "remove" /\ installed = <<>> /\ pc' = "down"
     \/ pc = "unwind" /\ pc' = "refused"
  /\ queue' = FALSE /\ prog' = {}
  /\ UNCHANGED <<words, loops, todo, installed, chain, before, stuck, operator, failures, deaths>>

\* sudo iptables -I OUTPUT -m mark --mark ... -j ACCEPT, typed by the operator.
OperatorBypass ==
  /\ ~Idle /\ ~operator
  /\ operator' = TRUE
  /\ chain' = [chain EXCEPT ![<<"v4", "OUTPUT">>] = <<Bypass>> \o @]
  /\ before' = [before EXCEPT ![<<"v4", "OUTPUT">>] = <<Bypass>> \o @]
  /\ UNCHANGED <<words, pc, prog, queue, loops, todo, installed, stuck, failures, deaths>>

\* SIGKILL: the kernel closes queue and threads, the rules stay.
Die ==
  /\ ~Idle /\ deaths < MaxDeaths
  /\ deaths' = deaths + 1
  /\ pc' = "down" /\ prog' = {} /\ queue' = FALSE /\ loops' = FALSE
  /\ todo' = <<>> /\ installed' = <<>> /\ stuck' = {}
  /\ before' = chain
  /\ UNCHANGED <<words, chain, operator, failures>>

ChainsNext ==
  \/ \E w \in Words : Type(w)
  \/ StartRefused \/ StartCapture
  \/ InstallOk \/ InstallFails \/ InstallDone
  \/ StopCapture \/ RemoveOk \/ RemoveFails \/ UnwindThreads \/ CloseCapture
  \/ OperatorBypass \/ Die

ChainsSpec == ChainsInit /\ [][ChainsNext]_chainsVars

-----------------------------------------------------------------------------
(* Properties.                                                              *)

RuleHits(spec, p, marked) ==
  IF spec = Bypass THEN marked
  ELSE Selects(spec, p)

\* What becomes of a packet: the first rule that hits it decides.
Verdict(p, marked) ==
  LET rules == chain[<<IF p.v6 THEN "v6" ELSE "v4", IF p.out THEN "OUTPUT" ELSE "INPUT">>]
      hits == {i \in DOMAIN rules : RuleHits(rules[i], p, marked)}
  IN IF hits = {} THEN "pass"
     ELSE rules[CHOOSE i \in hits : \A j \in hits : i <= j].target

\* The variables have the values their declarations promise.
ChainsTypeOK ==
  /\ words \in Seq(Words) /\ Len(words) <= MaxWords
  /\ pc \in {"down", "refused", "install", "up", "remove", "rollback", "unwind"}
  /\ \A d, e \in prog : d = e
  /\ queue \in BOOLEAN /\ loops \in BOOLEAN /\ operator \in BOOLEAN
  /\ Len(installed) <= MaxInstalled
  /\ DOMAIN chain = ChainName /\ DOMAIN before = ChainName
  /\ failures \in 0..MaxFailures /\ deaths \in 0..MaxDeaths

\* A packet the program injected itself is never queued again on its way out,
\* in every table the rules of this run went into.
NoFeedback ==
  pc = "up" =>
    \A p \in Packets :
      p.out /\ (\E c \in ToSet(installed) : c.at[1] = IF p.v6 THEN "v6" ELSE "v4")
        => Verdict(p, TRUE) # "queue"

\* A capture that ended, or could not start, leaves the chains as they would be
\* without it, unless a removal failed: a partial install is rolled back, and -D
\* never takes a rule of somebody else's in place of its own.
ChainRestored == Idle /\ stuck = {} => chain = before

\* Nothing points at a queue nobody reads: while a rule of this run is in a
\* chain, the queue is bound.
RulesNeedQueue == installed # <<>> => queue

\* installed[] has room for every rule a filter may need.
RoomForEveryRule == Len(installed) + Len(todo) <= MaxInstalled

\* The table of installed rules is sound: it has the room it needs, none of its
\* rules leads to a queue that is gone, and none sends an injected packet round.
ChainsConsistent == ChainsTypeOK /\ RulesNeedQueue /\ RoomForEveryRule /\ NoFeedback
===============================================================================
