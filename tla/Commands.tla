------------------------------ MODULE Commands ------------------------------
(* modules/commands and the admin commands that bind commands.  Modules add    *)
(* commands when they are loaded; a binding is a name for a command and stays  *)
(* when the command's module goes.  The rule that says who may use it is the   *)
(* binding's own or its command's, and is compiled into function pointers,     *)
(* some of which lead into a third module.                                     *)
EXTENDS Naturals, FiniteSets

CONSTANTS Cmd, Owner,      \* commands, and the module each is in
          AdminMod,        \* the module with the commands about bindings
          KeepBound,       \* commands with CMD_KEEP_BOUND
          ExtRule,         \* commands whose rule uses a function of RuleMod
          RuleMod,         \* a module with such a function; no other depends on it
          Bname,           \* names of bindings
          OwnName, Spare,  \* a command's name, and its module's name before it
          NOBINDING

Mod == {Owner[c] : c \in Cmd} \cup {RuleMod, AdminMod}

ASSUME CommandsAssumption ==
    /\ IsFiniteSet(Cmd) /\ KeepBound \subseteq Cmd /\ ExtRule \subseteq Cmd
    /\ OwnName \in [Cmd -> Bname] /\ Spare \in [Cmd -> Bname]
    /\ \A c, d \in KeepBound : c # d => {OwnName[c], Spare[c]} \cap {OwnName[d], Spare[d]} = {}

VARIABLES
    up,          \* loaded modules
    command_list,
    binding_list,
    bind_count,
    bound,       \* command->bindings
    nameless     \* commands to be bound that found their names taken; history only

cmdVars == <<up, command_list, binding_list, bind_count, bound, nameless>>

(* module: binding->module is set.  live: so is binding->cmd.  rule: its own,   *)
(* if any, or a pointer to one that was freed.  comp_rule: 0, an entry of       *)
(* `rules' without or with tokens, or the number of an entry that is gone.      *)
Binding == [cmd : Cmd, module : BOOLEAN, live : BOOLEAN, rule : {"none", "plain", "ext", "freed"},
            comp_rule : {"0", "raw", "tokens", "gone"}]

ASSUME NoBindingAssumption == NOBINDING \notin Binding

Bindings == {n \in Bname : binding_list[n] # NOBINDING}
binding_find_active(n) == n \in Bindings /\ binding_list[n].live

commandsInit ==
    /\ up = {} /\ command_list = {}
    /\ binding_list = [n \in Bname |-> NOBINDING]
    /\ bind_count = [c \in Cmd |-> 0]
    /\ bound = [c \in Cmd |-> {}]
    /\ nameless = {}
-----------------------------------------------------------------------------
(* Rules.                                                                      *)

RuleOf(c) == IF c \in ExtRule THEN "ext" ELSE "plain"
Rule(b) == IF b.rule = "none" THEN RuleOf(b.cmd) ELSE b.rule

command_rule_validate(rule) == rule = "plain" \/ RuleMod \in up
\* With the modules ups.
command_rule_compile(rule, ups) == IF rule = "plain" \/ RuleMod \in ups THEN "tokens" ELSE "raw"

\* No rule stays compiled.
command_rule_unreg(list) ==
    [n \in Bname |-> IF list[n] # NOBINDING /\ list[n].comp_rule = "tokens"
                     THEN [list[n] EXCEPT !.comp_rule = "raw"] ELSE list[n]]

\* A rule is compiled when it is needed, if that is possible by now.
command_rule_executable(n) ==
    IF binding_list[n].comp_rule = "raw"
    THEN [binding_list EXCEPT ![n].comp_rule = command_rule_compile(Rule(binding_list[n]), up)]
    ELSE binding_list
-----------------------------------------------------------------------------
(* Modules.                                                                    *)

\* Bindings of commands that are there now, those in `new'.
Enable(m, new, list) ==
    [n \in Bname |->
       IF n \notin Bindings \/ Owner[list[n].cmd] # m THEN list[n]
       ELSE IF list[n].cmd \notin new THEN [list[n] EXCEPT !.module = TRUE]
       ELSE [list[n] EXCEPT !.module = TRUE, !.live = TRUE,
               !.comp_rule = IF @ = "0" THEN command_rule_compile(Rule(list[n]), up \cup {m}) ELSE @]]

\* The name under which a command that must be bound is bound.
FreeNames(c) ==
    IF OwnName[c] \notin Bindings THEN {OwnName[c]}
    ELSE IF Spare[c] \notin Bindings THEN {Spare[c]} ELSE {}

\* Without a rule of its own.
NewBinding(c, ups) ==
    [cmd |-> c, module |-> TRUE, live |-> TRUE, rule |-> "none", comp_rule |-> command_rule_compile(RuleOf(c), ups)]

Live(list, c) == {n \in Bname : list[n] # NOBINDING /\ list[n].live /\ list[n].cmd = c}

\* mod_init adds the commands in `new' (a library may be another version, which lacks one), and
\* then module_loaded is told.
module_loaded(m, new) ==
    LET enabled == Enable(m, new, binding_list)
        needy == {c \in KeepBound \cap (command_list \cup new) : bind_count[c] + Cardinality(Live(enabled, c) \ bound[c]) = 0}
        added == UNION {FreeNames(c) : c \in needy}
        list == [n \in Bname |->
                   IF n \in added THEN NewBinding(CHOOSE c \in needy : n \in FreeNames(c), up \cup {m}) ELSE enabled[n]]
        fresh(c) == (Live(enabled, c) \ bound[c]) \cup {n \in added : list[n].cmd = c}
    IN /\ m \notin up
       /\ {c \in KeepBound : Owner[c] = m} \subseteq new
       /\ up' = up \cup {m}
       /\ command_list' = command_list \cup new
       /\ binding_list' = list
       /\ bind_count' = [c \in Cmd |-> bind_count[c] + Cardinality(fresh(c))]
       /\ bound' = [c \in Cmd |-> bound[c] \cup fresh(c)]
       /\ nameless' = {c \in needy : FreeNames(c) = {}}

\* Compiled rules that a command handed down go with it.
Disable(m) ==
    [n \in Bname |->
       IF n \notin Bindings \/ ~binding_list[n].module \/ Owner[binding_list[n].cmd] # m THEN binding_list[n]
       ELSE [binding_list[n] EXCEPT !.module = FALSE, !.live = FALSE,
               !.comp_rule = IF binding_list[n].rule = "none" THEN "0" ELSE @]]

\* The module's commands go first, then its MODULE_FINI takes back its rule function.
module_unloaded(m) ==
    /\ m \in up
    /\ up' = up \ {m}
    /\ command_list' = {c \in command_list : Owner[c] # m}
    /\ binding_list' = IF m = RuleMod THEN command_rule_unreg(Disable(m)) ELSE Disable(m)
    /\ bind_count' = [c \in Cmd |-> IF Owner[c] = m THEN 0 ELSE bind_count[c]]
    /\ bound' = [c \in Cmd |-> IF Owner[c] = m THEN {} ELSE bound[c]]
    /\ nameless' = {c \in nameless : Owner[c] # m}

\* MODULE_FINI and MODULE_INIT, with all that depends on this module: the bindings come back from
\* the database, before any command does.  RuleMod is gone, too.
commands_reload ==
    /\ up # {}
    /\ \A n \in Bindings : binding_list[n].rule # "freed"
    /\ up' = {} /\ command_list' = {}
    /\ binding_list' = [n \in Bname |->
          IF n \notin Bindings THEN NOBINDING
          ELSE [binding_list[n] EXCEPT !.module = FALSE, !.live = FALSE,
                  !.comp_rule = IF binding_list[n].rule = "none" THEN "0"
                                ELSE command_rule_compile(binding_list[n].rule, {})]]
    /\ bind_count' = [c \in Cmd |-> 0]
    /\ bound' = [c \in Cmd |-> {}]
    /\ nameless' = {}
-----------------------------------------------------------------------------
(* A command's use, up to its rule, and the admin commands.                    *)

\* The two words of a subcommand are looked for before the first word; whether the rule allows it is
\* the parser's part.
Resolve(word, two) == IF binding_find_active(two) THEN two ELSE word

handle_command(word, two) ==
    LET n == Resolve(word, two) IN
    /\ binding_find_active(n)
    /\ binding_list' = command_rule_executable(n)
    /\ UNCHANGED <<up, command_list, bind_count, bound, nameless>>

binding_add(n, c) ==
    /\ AdminMod \in up
    /\ n \notin Bindings
    /\ c \in command_list
    /\ binding_list' = [binding_list EXCEPT ![n] = NewBinding(c, up)]
    /\ bind_count' = [bind_count EXCEPT ![c] = @ + 1]
    /\ bound' = [bound EXCEPT ![c] = @ \cup {n}]
    /\ UNCHANGED <<up, command_list, nameless>>

binding_del(n) ==
    LET c == binding_list[n].cmd IN
    /\ binding_list' = [binding_list EXCEPT ![n] = NOBINDING]
    /\ IF binding_list[n].live
       THEN /\ bind_count' = [bind_count EXCEPT ![c] = @ - 1]
            /\ bound' = [bound EXCEPT ![c] = @ \ {n}]
       ELSE UNCHANGED <<bind_count, bound>>

cmd_binding_del(n) ==
    /\ AdminMod \in up
    /\ n \in Bindings /\ binding_list[n].rule # "freed"
    /\ ~(binding_list[n].live /\ bind_count[binding_list[n].cmd] = 1 /\ binding_list[n].cmd \in KeepBound)
    /\ binding_del(n)
    /\ UNCHANGED <<up, command_list, nameless>>

\* The old rule is freed before it is known whether the command's own compiles.
binding_set_rule(b, rule) ==
    IF rule # "none" THEN [b EXCEPT !.rule = rule, !.comp_rule = command_rule_compile(rule, up)]
    ELSE IF b.live /\ ~command_rule_validate(RuleOf(b.cmd))
    THEN [b EXCEPT !.rule = IF @ = "none" THEN @ ELSE "freed", !.comp_rule = IF @ = "0" THEN @ ELSE "gone"]
    ELSE [b EXCEPT !.rule = "none", !.comp_rule = IF b.live THEN command_rule_compile(RuleOf(b.cmd), up) ELSE "0"]

cmd_binding_rule(n, rule) ==
    /\ AdminMod \in up
    /\ n \in Bindings /\ binding_list[n].rule # "freed"
    /\ rule # "none" => command_rule_validate(rule)
    /\ binding_list' = [binding_list EXCEPT ![n] = binding_set_rule(@, rule)]
    /\ UNCHANGED <<up, command_list, bind_count, bound, nameless>>

commandsNext ==
    \/ \E m \in Mod :
         \/ \E new \in SUBSET {c \in Cmd : Owner[c] = m} : module_loaded(m, new)
         \/ module_unloaded(m)
    \/ commands_reload
    \/ \E n, two \in Bname : handle_command(n, two)
    \/ \E n \in Bname, c \in Cmd : binding_add(n, c)
    \/ \E n \in Bname : cmd_binding_del(n) \/ \E rule \in {"none", "plain", "ext"} : cmd_binding_rule(n, rule)

commandsSpec == commandsInit /\ [][commandsNext]_cmdVars
-----------------------------------------------------------------------------
(* Properties.                                                                 *)

CommandsTypeOK ==
    /\ up \subseteq Mod /\ command_list \subseteq Cmd
    /\ binding_list \in [Bname -> Binding \cup {NOBINDING}]
    /\ bind_count \in [Cmd -> Nat] /\ bound \in [Cmd -> SUBSET Bname] /\ nameless \subseteq KeepBound

\* A binding leads to a command that is there, which knows of it and counts it.
Linked ==
    /\ \A n \in Bindings :
         LET b == binding_list[n] IN
         /\ b.module = (Owner[b.cmd] \in up)
         /\ b.live => b.cmd \in command_list
    /\ \A c \in Cmd : bound[c] = Live(binding_list, c) /\ bind_count[c] = Cardinality(bound[c])

\* A compiled rule calls only functions that are there.  A live binding has a rule, which can be
\* compiled as soon as its functions are there: unless binding_set_rule lost it.
RulesSound ==
    \A n \in Bindings :
        LET b == binding_list[n] IN
        /\ b.comp_rule = "tokens" /\ Rule(b) = "ext" => RuleMod \in up
        /\ b.live => b.comp_rule # "0"
        /\ b.comp_rule = "gone" => b.rule = "freed" \/ b.cmd \in ExtRule
        /\ b.rule = "freed" => b.cmd \in ExtRule

\* A command that must stay bound is, unless both its names were taken when the last module came.
StayBound == \A c \in KeepBound \cap command_list : bind_count[c] > 0 \/ c \in nameless

\* The tables that commands and bindings are found in (commands.c, command_rule.c).
CommandsSound == CommandsTypeOK /\ Linked /\ RulesSound /\ StayBound
=============================================================================
