----------------------------- MODULE MCModuleSys -----------------------------
(* Three module names and one alias.  A library may come with another          *)
(* dependency list each time it is loaded (it was rebuilt), loops and itself   *)
(* included.  Apart from that, on their own: the commands that modules add,    *)
(* with their bindings, the rules for their use, and modules that ask the web  *)
(* and may be unloaded meanwhile; part says which a behaviour is about.        *)
EXTENDS ModuleSys, Commands, RuleParser, Lookups, TLC

CONSTANTS ma, mb, mc,
          bind, lists, auth, adm, usr, rul, n1, n2, n3

ABC == {ma, mb, mc}
Pairs == {<<n, n>> : n \in ABC} \cup {<<mb, ma>>}
Varied == (ma :> {{}, {ma}, {mb}, {mb, mc}}) @@ (mb :> {{}, {ma}, {mc}})
          @@ (mc :> {{}, {ma}, {ma, mb}})
Lists(l) == Varied[l]

\* "binding add" and a command with a rule from another module, and three names.
CmdOwner == (bind :> adm) @@ (lists :> usr) @@ (auth :> usr)
CmdName == (bind :> n1) @@ (lists :> n3) @@ (auth :> n3)
CmdSpare == (bind :> n2) @@ (lists :> n3) @@ (auth :> n3)

VARIABLE part

allVars == <<part, vars, cmdVars, parserVars, lookupVars>>

AllInit ==
    /\ part \in {"modules", "commands", "rule", "lookups"}
    /\ Init /\ commandsInit /\ parserInit /\ lookupsInit
    /\ part # "modules" => wanted = {}
    /\ part # "lookups" => client = "google"

AllNext ==
    /\ UNCHANGED part
    /\ \/ part = "modules" /\ Next /\ UNCHANGED <<cmdVars, parserVars, lookupVars>>
       \/ part = "commands" /\ commandsNext /\ UNCHANGED <<vars, parserVars, lookupVars>>
       \/ part = "rule" /\ parserNext /\ UNCHANGED <<vars, cmdVars, lookupVars>>
       \/ part = "lookups" /\ lookupsNext /\ UNCHANGED <<vars, cmdVars, parserVars>>

AllSpec == AllInit /\ [][AllNext]_allVars /\ (part = "modules" => Fairness)

\* Every operation on modules comes to its end: the recursion of module_add, the loops of
\* module_reload and module_fini that run until nothing is left.
OperationsEnd == (part = "modules" /\ op # "idle") ~> (op \in {"idle", "left"})

\* Commands, the rules for their use, and what the web answers (commands.c, parser.c, the lookups' modules).
CommandsAndLookupsSound == CommandsSound /\ ParserSound /\ LookupsSound
=============================================================================
