------------------------------ MODULE TopoGraph ------------------------------
(***************************************************************************)
(* The compiler of runtime graphs                                          *)
(* (analysis/csrc/infrastructure/process/topo_graph.cpp).  From definitions *)
(* that name their dependencies, often without saying of which device, it  *)
(* makes the processes ProcessControl runs: one for each instance the roots *)
(* need, directly or not, numbered in the order they are completed.        *)
(*                                                                         *)
(* TopoGraphCompiler::Add is recursive; here its calls are the frames of a *)
(* stack.  The instances on the stack are those being visited.             *)
(***************************************************************************)
EXTENDS Integers, FiniteSets, SequencesExt

CONSTANTS
  Tables,           \* registered definitions by the name of their table: an
                    \* instance without scope to what is known of it
  Resolve(_, _, _)  \* what a dependencyResolver returns for an instance of a
                    \* scope, in what it is given of a call

VARIABLES
  job,        \* the call: [table, overlay, roots, chips, reuse, bound, ...]
  stack,      \* the calls of Add under way, the innermost last
  processes,  \* a sequence of [id, dep, comp], a process being at its key
  next,       \* the root to add
  verdict     \* what Build returned: "none" while it runs

buildVars == <<stack, processes, next, verdict>>
graphVars == <<job, buildVars>>

NoScope == ""
Unscoped(id) == [id EXCEPT !.scope = NoScope]

\* Find: the overlay's definition for this scope, its definition for any scope,
\* the registered one.
Registry == Tables[job.table]
Defined(id) ==
  {id, Unscoped(id)} \cap DOMAIN job.overlay # {} \/ Unscoped(id) \in DOMAIN Registry
Definition(id) ==
  IF id \in DOMAIN job.overlay THEN job.overlay[id]
  ELSE IF Unscoped(id) \in DOMAIN job.overlay THEN job.overlay[Unscoped(id)]
  ELSE Registry[Unscoped(id)]

\* ResolveScope: a device's definition runs in the scope named, or in that of the
\* dependent; the others have one scope each.
ScopeOf(id, parent) ==
  LET kind == Definition(id).kind
  IN  IF kind # "device" THEN kind ELSE IF id.scope = NoScope THEN parent ELSE id.scope
Resolves(id, parent) ==
  /\ Defined(id)
  /\ Definition(id).kind = "device" => ScopeOf(id, parent) \in DOMAIN job.chips
  /\ id.scope \in {NoScope, ScopeOf(id, parent)}
Resolved(id, parent) == [id EXCEPT !.scope = ScopeOf(id, parent)]

Supports(d, chip) == d.chips \cap {"all", chip} # {}
RunsOnItsChip(id) ==
  Definition(id).kind = "device" =>
    id.scope \in DOMAIN job.chips /\ Supports(Definition(id), job.chips[id.scope])
Bound(id) == id.scope \in job.bound /\ Definition(id).makes

\* The dependencyResolver of a definition, if it has one.  It is given the context
\* and the roots of the call, and not the overlay.
Resolver(d) == [waits |-> d.waits, alts |-> d.alts]
NoResolver == [waits |-> {}, alts |-> << >>]
View(j) == [table |-> j.table, chips |-> j.chips, roots |-> j.roots,
            parseRoots |-> j.parseRoots, mstx |-> j.mstx]
Dependencies(id) ==
  LET d == Definition(id)
  IN  d.deps \o (IF Resolver(d) = NoResolver THEN << >>
                 ELSE Resolve(Resolver(d), id.scope, View(job)))

\* The elements of a set in some order: the source iterates over a hash table.
Listed(S) == FoldSet(LAMBDA x, s : Append(s, x), << >>, S)

\* ExpandDeviceDependencies: a dependency on a device's node that names no device
\* stands for its instances on the devices that are not reused and support it.
InstanceOn(id, s) == [id EXCEPT !.scope = s]
OnEveryDevice(id) ==                         \* mutant: reuse is not looked at
  {InstanceOn(id, s) : s \in DOMAIN job.chips}
OnEachDevice(id) ==
  {InstanceOn(id, s) : s \in {s \in DOMAIN job.chips \ job.reuse :
     LET i == InstanceOn(id, s)
     IN  Defined(i) => Supports(Definition(i), job.chips[s])}}
Expand(ids) ==
  FlattenSeq([k \in 1..Len(ids) |->
    IF ids[k].stage # "DEVICE_PROCESSING" \/ ids[k].scope # NoScope
    THEN <<ids[k]>> ELSE Listed(OnEachDevice(ids[k]))])

\* A call of Add that goes on: what it has still to compile, and the keys it has.
Frame(id) ==
  LET d == Definition(id)
      device == d.kind = "device"
  IN  [id |-> id,
       deps |-> IF device THEN Dependencies(id) ELSE Expand(Dependencies(id)),
       comps |-> IF device THEN d.comps ELSE Expand(d.comps),
       dep |-> << >>, comp |-> << >>]

Top == stack[Len(stack)]
Visiting == {stack[k].id : k \in 1..Len(stack)}
Ids == {processes[k].id : k \in 1..Len(processes)}
KeyOf(id) == CHOOSE k \in 1..Len(processes) : processes[k].id = id

\* What the innermost call asks for next, Build itself asking for the roots.
Waiting == IF stack = << >> THEN next <= Len(job.roots) ELSE Top.deps \o Top.comps # << >>
Wanted == IF stack = << >> THEN job.roots[next] ELSE Head(Top.deps \o Top.comps)
Parent == IF stack = << >> THEN NoScope ELSE Top.id.scope
Instance == Resolved(Wanted, Parent)

\* A dependency has a key: it is kept unless the call has it already.
ReceivedTwice(f, key) ==                     \* mutant: a key may be in both lists
  IF f.deps # << >>
  THEN [f EXCEPT !.deps = Tail(@), !.dep = IF key \in Range(f.dep) THEN @ ELSE Append(@, key)]
  ELSE [f EXCEPT !.comps = Tail(@),
                 !.comp = IF key \in Range(f.comp) THEN @ ELSE Append(@, key)]
Received(f, key) ==
  IF f.deps # << >>
  THEN [f EXCEPT !.deps = Tail(@), !.dep = IF key \in Range(f.dep) THEN @ ELSE Append(@, key)]
  ELSE [f EXCEPT !.comps = Tail(@),
                 !.comp = IF key \in Range(f.dep) \cup Range(f.comp) THEN @
                          ELSE Append(@, key)]
Deliver(calls, key) ==
  IF calls = << >> THEN stack' = calls /\ next' = next + 1
  ELSE /\ stack' = [calls EXCEPT ![Len(calls)] = Received(@, key)]
       /\ next' = next

\* A call of Build: the collections are finite, the lists are lists of ids, and so is what
\* the resolvers return in the scopes of their kind.  An overlay's definition for
\* one scope is for a scope of its kind.
IsId(e) == e = [stage |-> e.stage, name |-> e.name, scope |-> e.scope]
IdList(s) == s \in Seq(Range(s)) /\ \A e \in Range(s) : IsId(e)
ScopesFor(d, j) == IF d.kind = "device" THEN DOMAIN j.chips ELSE {d.kind}
Shaped(d) ==
  /\ {"kind", "deps", "comps", "waits", "alts"} \subseteq DOMAIN d
  /\ d.kind \in {"device", "profile", "host", "export"}
  /\ IdList(d.deps) /\ IdList(d.comps)
Answers(d, j) ==
  Resolver(d) # NoResolver =>
    \A s \in ScopesFor(d, j) : IdList(Resolve(Resolver(d), s, View(j)))
Scopes(chips) == IsFiniteSet(DOMAIN chips) /\ NoScope \notin DOMAIN chips
Collection(defs) ==
  /\ IsFiniteSet(DOMAIN defs)
  /\ \A i \in DOMAIN defs : IsId(i) /\ Shaped(defs[i])
WellFormed(j) ==
  /\ IdList(j.roots) /\ Scopes(j.chips)
  /\ \A defs \in {Tables[j.table], j.overlay} :
       Collection(defs) /\ \A i \in DOMAIN defs : Answers(defs[i], j)
  /\ \A i \in DOMAIN j.overlay : i.scope \in {NoScope} \cup ScopesFor(j.overlay[i], j)

-----------------------------------------------------------------------------
\* Build begins with an empty graph; it refuses to build for no roots.
Begin(j) ==
  /\ job' = j /\ stack' = << >> /\ processes' = << >> /\ next' = 1
  /\ verdict' = IF j.roots = << >> THEN "false" ELSE "none"

\* Add finds the instance in the graph.
Known ==
  /\ verdict = "none" /\ Waiting /\ Resolves(Wanted, Parent)
  /\ Instance \in Ids
  /\ Deliver(stack, KeyOf(Instance))
  /\ UNCHANGED <<job, processes, verdict>>

\* Add starts on the instance.
Enter ==
  /\ verdict = "none" /\ Waiting /\ Resolves(Wanted, Parent)
  /\ Instance \notin Ids \cup Visiting /\ RunsOnItsChip(Instance)
  /\ stack' = Append(stack, Frame(Instance))
  /\ UNCHANGED <<job, processes, next, verdict>>

\* Add has the keys of every dependency: the instance becomes a process.
Leave ==
  /\ verdict = "none" /\ stack # << >> /\ ~Waiting /\ Bound(Top.id)
  /\ processes' = Append(processes, [id |-> Top.id, dep |-> Top.dep, comp |-> Top.comp])
  /\ Deliver(Front(stack), Len(processes) + 1)
  /\ UNCHANGED <<job, verdict>>

\* Add fails, by a definition that is missing or for another scope or chip, by a
\* cycle, or without a creator, context or inventory; Build then clears the graph.
Fails ==
  \/ Waiting /\ ~Resolves(Wanted, Parent)
  \/ /\ Waiting /\ Resolves(Wanted, Parent)
     /\ Instance \notin Ids
     /\ Instance \in Visiting \/ ~RunsOnItsChip(Instance)
  \/ stack # << >> /\ ~Waiting /\ ~Bound(Top.id)
Fail ==
  /\ verdict = "none" /\ Fails
  /\ verdict' = "false" /\ processes' = << >> /\ stack' = << >>
  /\ UNCHANGED <<job, next>>

Finish ==
  /\ verdict = "none" /\ stack = << >> /\ ~Waiting
  /\ verdict' = "true"
  /\ UNCHANGED <<job, stack, processes, next>>

Compile == Known \/ Enter \/ Leave \/ Fail \/ Finish

-----------------------------------------------------------------------------
\* The keys of a list that ProcessControl can wait for: each once, each of a
\* process completed before this one.
Inputs(p) == Range(p.dep) \cup Range(p.comp)
Distinct(s) == \A i, j \in 1..Len(s) : s[i] = s[j] => i = j
WellFounded(ps) ==
  /\ \A k \in 1..Len(ps) :
       /\ Inputs(ps[k]) \subseteq 1..(k - 1)
       /\ Distinct(ps[k].dep) /\ Distinct(ps[k].comp)
       /\ Range(ps[k].dep) \cap Range(ps[k].comp) = {}
  /\ \A j, k \in 1..Len(ps) : ps[j].id = ps[k].id => j = k

\* A graph that Build returns is never refused by ProcessControl
\* (VerifyDependencies, process_control.cpp:42): no key is missing or listed twice,
\* there is no cycle, and no instance would run as two processes, whatever the
\* definitions, overlays, devices and resolvers are.
Verifiable == verdict = "true" => WellFounded(processes)

\* What the definitions mean, without an order of compilation.  The instances an
\* instance depends on, by the list `ds` of its definition:
Named(i, ds) ==
  UNION {IF Definition(i).kind # "device" /\ d.stage = "DEVICE_PROCESSING" /\ d.scope = NoScope
         THEN {e \in {InstanceOn(d, s) : s \in DOMAIN job.chips} :
                 /\ e.scope \notin job.reuse
                 /\ Defined(e) => Supports(Definition(e), job.chips[e.scope])}
         ELSE {d} : d \in Range(ds)}
DepNames(i) == Named(i, Dependencies(i))
CompNames(i) == Named(i, Definition(i).comps)
Instances(names, scope) ==
  {Resolved(e, scope) : e \in {e \in names : Resolves(e, scope)}}
Needed(i) == Instances(DepNames(i) \cup CompNames(i), i.scope)

\* Everything the roots need, and what of it is left when instances that need
\* nothing of the rest are taken away again and again.
Universe ==
  {i \in {InstanceOn(n, s) : n \in DOMAIN Registry \cup DOMAIN job.overlay,
                            s \in DOMAIN job.chips \cup {"profile", "host", "export"}} :
     Defined(i) /\ i.scope \in ScopesFor(Definition(i), job)}
Closure[S \in SUBSET Universe] ==
  LET T == S \cup UNION {Needed(i) : i \in S} IN IF T = S THEN S ELSE Closure[T]
Core[S \in SUBSET Universe] ==
  LET T == {i \in S : Needed(i) \cap S # {}} IN IF T = S THEN S ELSE Core[T]
Demanded == Closure[Instances(Range(job.roots), NoScope)]
Buildable ==
  /\ job.roots # << >>
  /\ \A r \in Range(job.roots) : Resolves(r, NoScope)
  /\ \A i \in Demanded :
       /\ \A e \in DepNames(i) \cup CompNames(i) : Resolves(e, i.scope)
       /\ RunsOnItsChip(i) /\ Bound(i)
  /\ Core[Demanded] = {}

\* Build succeeds exactly if the roots can be had without a cycle, and then the
\* graph is what they need and nothing else, with exactly the edges the definitions
\* mean: a dependency expanded wrongly, lost to a reused key or compiled for
\* another device would be work missing, or done for nothing.
ExactGraph ==
  verdict # "none" =>
    /\ verdict = "true" <=> Buildable
    /\ verdict = "true" =>
         /\ Ids = Demanded
         /\ \A k \in 1..Len(processes) :
              LET p == processes[k]
                  of(s) == {processes[j].id : j \in Range(s)}
                  deps == Instances(DepNames(p.id), p.id.scope)
              IN  /\ of(p.dep) = deps
                  /\ of(p.comp) = Instances(CompNames(p.id), p.id.scope) \ deps
    /\ verdict = "false" => processes = << >>
=============================================================================
