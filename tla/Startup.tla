------------------------------ MODULE Startup -------------------------------
(***************************************************************************)
(* Process start-up as main() runs it (main.py 450-455): ConnectorApp's   *)
(* constructor reads the configuration with loadConfig (main.py 366-374,  *)
(* utils/config_loader.py), startConnection starts the AWS thread         *)
(* (main.py 89-92), and vehicle_app.run() calls on_start, whose           *)
(* recursive_subscribe walks the generated signal tree and subscribes     *)
(* every datapoint whose path starts with a configured filter             *)
(* (main.py 383-402): the SubscriptionRegistry of spec 3.                 *)
(*                                                                         *)
(* Data is abstracted: strings are sequences of one-character strings, so *)
(* that str.startswith and iteration over a str are what Python does; a   *)
(* configuration value is a record [kind |-> "str", s |-> string] or      *)
(* [kind |-> "list", l |-> sequence of strings].  The signal tree is a    *)
(* constant: each node's kind and its __dict__ as a sequence of entries   *)
(* [name, node].                                                          *)
(***************************************************************************)
EXTENDS Naturals, Sequences, FiniteSets

CONSTANTS
    ConfigKeys,     \* the options init_argparse defines
    DefaultValue,   \* ConfigKeys -> the default string of each option
    FileStates,     \* what /mnt/env_var.json may be: [state |-> "missing"],
                    \* [state |-> "badjson"] or [state |-> "ok", content |->
                    \* a JSON object as a function from keys to values]
    ArgvChoices,    \* command lines: functions from keys to strings
    Nodes,          \* objects of the generated signal tree
    Root,           \* the `vehicle` object
    NodeKind,       \* Nodes -> {"model", "datapoint", "other"}
    Dict,           \* Nodes -> Seq([name, node]): the object's __dict__
    NodePath        \* Nodes -> string: attr.get_path() of a datapoint

ASSUME StartupAssumption ==
    /\ "vss_signals" \in ConfigKeys
    /\ DefaultValue \in [ConfigKeys -> [kind : {"str"}, s : Seq(STRING)]]
    /\ Root \in Nodes
    /\ NodeKind \in [Nodes -> {"model", "datapoint", "other"}]
    /\ NodeKind[Root] = "model"
    /\ Dict \in [Nodes -> Seq([name : STRING, node : Nodes])]

Str(s) == [kind |-> "str", s |-> s]

ValuesOf(l) == {l[i] : i \in DOMAIN l}

(* What Python's `for x in v` yields: the elements of a list, the         *)
(* one-character strings of a str.                                        *)
Iterate(v) ==
    IF v.kind = "list" THEN ValuesOf(v.l) ELSE {<<v.s[i]>> : i \in DOMAIN v.s}

StartsWith(p, f) == Len(f) <= Len(p) /\ SubSeq(p, 1, Len(f)) = f

\* Mutant: any() looks at the first filter only.
MatchesFirstOnly(path, v) ==
    \E f \in Iterate(v) : StartsWith(path, f) /\ (v.kind = "list" => f = v.l[1])

(* `any(str(attr.get_path()).startswith(signalNameFilter)                 *)
(*      for signalNameFilter in self.config.vss_signals)`                  *)
Matches(path, v) == \E f \in Iterate(v) : StartsWith(path, f)

(* init_argparse plus parse_args(): every option takes the command-line  *)
(* string when given, else `content.get(key, <default string>)` -- the    *)
(* JSON value as it is, list or str.                                      *)
Namespace(content, argv) ==
    [k \in ConfigKeys |->
        IF k \in DOMAIN argv THEN Str(argv[k])
        ELSE IF k \in DOMAIN content THEN content[k]
        ELSE DefaultValue[k]]

VARIABLES
    stage,          \* where main() is
    file,           \* the state of the configuration file
    argv,           \* the command line
    config,         \* self.config, the parsed namespace
    stack,          \* the recursive_subscribe frames: [node, i]
    registry,       \* DOMAIN self.signals: the subscribed paths
    awsStarted      \* the AWS thread runs

vars == <<stage, file, argv, config, stack, registry, awsStarted>>

Stages == {"init", "loaded", "started", "walking", "running", "crashed"}

Init ==
    /\ stage = "init"
    /\ file \in FileStates
    /\ argv \in ArgvChoices
    /\ config = [k \in ConfigKeys |-> DefaultValue[k]]
    /\ stack = <<>>
    /\ registry = {}
    /\ awsStarted = FALSE

(* ConnectorApp.__init__ -> loadConfig(configFile): open() failing is     *)
(* caught and printed, after which init_argparse(content) reads the local *)
(* `content` that was never bound and raises UnboundLocalError; a file    *)
(* that is not JSON makes json.load raise outside the try.  Either way    *)
(* the exception leaves main() and the process ends before anything      *)
(* starts.  Otherwise the namespace is parsed, signals = {}.              *)
CreateApp ==
    /\ stage = "init"
    /\ IF file.state # "ok"
       THEN /\ stage' = "crashed"
            /\ UNCHANGED config
       ELSE /\ config' = Namespace(file.content, argv)
            /\ stage' = "loaded"
    /\ UNCHANGED <<file, argv, stack, registry, awsStarted>>

(* awsConnection.startConnection(vehicle_app): the AWS thread starts.     *)
StartConnection ==
    /\ stage = "loaded"
    /\ stage' = "started"
    /\ awsStarted' = TRUE
    /\ UNCHANGED <<file, argv, config, stack, registry>>

(* vehicle_app.run() -> on_start -> recursive_subscribe(self.Vehicle).    *)
OnStart ==
    /\ stage = "started"
    /\ stage' = "walking"
    /\ stack' = <<[node |-> Root, i |-> 1]>>
    /\ UNCHANGED <<file, argv, config, registry, awsStarted>>

\* Mutant: every attribute that is not a datapoint is walked into.
WalkStepIntoAny ==
    /\ stage = "walking"
    /\ LET top == stack[Len(stack)]
           rest == SubSeq(stack, 1, Len(stack) - 1)
       IN IF top.i > Len(Dict[top.node])
          THEN /\ stack' = rest
               /\ stage' = IF rest = <<>> THEN "running" ELSE stage
               /\ UNCHANGED registry
          ELSE LET e == Dict[top.node][top.i]
                   next == Append(rest, [node |-> top.node, i |-> top.i + 1])
               IN /\ UNCHANGED stage
                  /\ IF e.name # "parent" /\ NodeKind[e.node] # "datapoint"
                     THEN stack' = Append(next, [node |-> e.node, i |-> 1])
                     ELSE stack' = next
                  /\ registry' =
                        IF /\ e.name # "parent"
                           /\ NodeKind[e.node] = "datapoint"
                           /\ Matches(NodePath[e.node], config["vss_signals"])
                        THEN registry \cup {NodePath[e.node]}
                        ELSE registry
    /\ UNCHANGED <<file, argv, config, awsStarted>>

(* One iteration of `for child in root.__dict__` in the innermost call:  *)
(* "parent" is skipped; a datapoint whose path matches a filter is        *)
(* subscribed and entered in self.signals; a model is walked by a         *)
(* recursive call; anything else is passed over.  Past the last entry the *)
(* call returns, and when the outermost one does on_start is over.        *)
WalkStep ==
    /\ stage = "walking"
    /\ LET top == stack[Len(stack)]
           rest == SubSeq(stack, 1, Len(stack) - 1)
       IN IF top.i > Len(Dict[top.node])
          THEN /\ stack' = rest
               /\ stage' = IF rest = <<>> THEN "running" ELSE stage
               /\ UNCHANGED registry
          ELSE LET e == Dict[top.node][top.i]
                   next == Append(rest, [node |-> top.node, i |-> top.i + 1])
               IN /\ UNCHANGED stage
                  /\ IF e.name # "parent" /\ NodeKind[e.node] = "model"
                     THEN stack' = Append(next, [node |-> e.node, i |-> 1])
                     ELSE stack' = next
                  /\ registry' =
                        IF /\ e.name # "parent"
                           /\ NodeKind[e.node] = "datapoint"
                           /\ Matches(NodePath[e.node], config["vss_signals"])
                        THEN registry \cup {NodePath[e.node]}
                        ELSE registry
    /\ UNCHANGED <<file, argv, config, awsStarted>>

Next == CreateApp \/ StartConnection \/ OnStart \/ WalkStep

(* main() runs its steps one after the other on the event loop. *)
Spec == Init /\ [][Next]_vars /\ WF_vars(Next)

-----------------------------------------------------------------------------
TypeOK ==
    /\ stage \in Stages
    /\ file \in FileStates
    /\ argv \in ArgvChoices
    /\ DOMAIN config = ConfigKeys
    /\ stack \in Seq([node : {n \in Nodes : NodeKind[n] = "model"}, i : Nat])
    /\ registry \subseteq {NodePath[n] : n \in Nodes}
    /\ awsStarted \in BOOLEAN

(* Reference: the datapoints of the schema below n, following the tree's *)
(* child attributes and never the back link to the parent.  Written with *)
(* a depth: DataPointsWithin[d][n] are those at most d models down.  A    *)
(* tree of the finite set Nodes is less than Cardinality(Nodes) deep.     *)
DataPointsWithin[d \in Nat] ==
    [n \in Nodes |->
        IF d = 0 THEN {}
        ELSE UNION {IF NodeKind[e.node] = "datapoint" THEN {e.node}
                    ELSE IF NodeKind[e.node] = "model"
                         THEN DataPointsWithin[d - 1][e.node]
                    ELSE {} : e \in {Dict[n][i] : i \in {j \in DOMAIN Dict[n] :
                                                   Dict[n][j].name # "parent"}}}]

DataPointsUnder(n) == DataPointsWithin[Cardinality(Nodes)][n]

(* The prefixes the operator configured: a list in the file names its     *)
(* elements, a string (on the command line or in the file) names one      *)
(* prefix, and an option left unset names none -- its default reads "No   *)
(* VSS signal filters set".                                                *)
ConfiguredFilters ==
    LET v == config["vss_signals"] IN
    IF "vss_signals" \notin DOMAIN argv /\
       (file.state # "ok" \/ "vss_signals" \notin DOMAIN file.content)
    THEN {}
    ELSE IF v.kind = "list" THEN ValuesOf(v.l) ELSE {v.s}

(* Spec 3: the SubscriptionRegistry is built at startup by filtering the *)
(* signal schema against the configured prefixes.  Once on_start is over, *)
(* the paths recursive_subscribe entered in self.signals are exactly the  *)
(* schema's datapoints that start with a configured prefix.               *)
RegistryMatchesFilters ==
    stage = "running" =>
        registry = {NodePath[d] : d \in {d \in DataPointsUnder(Root) :
                        \E f \in ConfiguredFilters : StartsWith(NodePath[d], f)}}

(* config_loader.py 9-12: when the configuration file cannot be opened,  *)
(* "Argument Parser Take Default Variables" -- start-up goes on with the  *)
(* defaults and the command line instead of ending the process.           *)
MissingFileTakesDefaults ==
    file.state = "missing" => stage # "crashed"

=============================================================================
