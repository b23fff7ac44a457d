----------------------------- MODULE CliProofs ------------------------------
(* What any number of CLIs get from a backend that may crash, for every
   cluster, every set of accounts and every command line; what the filter's
   wildcards select, for every pattern and text; and what a filter is read as. *)
EXTENDS Cli, FiniteSetTheorems, FunctionTheorems, SequenceTheorems, NaturalsInduction,
        WellFoundedInduction, TLAPS

-----------------------------------------------------------------------------
(* One answer per query. *)

(* There is a value of each variable for each CLI. *)
Shape ==
    /\ DOMAIN cpc = Clis /\ DOMAIN opts = Clis /\ DOMAIN asked = Clis /\ DOMAIN answer = Clis
    /\ DOMAIN open = Clis /\ DOMAIN up = Clis /\ DOMAIN down = Clis
    /\ DOMAIN hpc = Clis /\ DOMAIN hreq = Clis /\ DOMAIN hout = Clis
    /\ DOMAIN hsel = Clis /\ DOMAIN hnames = Clis /\ DOMAIN huid = Clis

(* The query a CLI sent last. *)
Query(c) == [seq |-> asked[c], filter |-> opts[c].filter, user |-> opts[c].user]

(* Nothing is on its way between a CLI and its handler. *)
Quiet(c) == up[c] = <<>> /\ down[c] = <<>> /\ hpc[c] \in {"none", "backlog", "read"}

(* The query, or its answer, is in one place, or was lost in a crash. *)
InFlight(c) ==
    \/ /\ up[c] = <<Query(c)>> /\ down[c] = <<>> /\ hpc[c] \in {"backlog", "read"}
    \/ /\ up[c] = <<>> /\ down[c] = <<>> /\ hreq[c] = Query(c)
       /\ hpc[c] \in {"refresh", "lock", "build", "getent"}
    \/ /\ up[c] = <<>> /\ down[c] = <<>> /\ hout[c].req = Query(c) /\ hpc[c] = "write"
    \/ /\ up[c] = <<>> /\ hpc[c] \in {"none", "read"}
       /\ \E a : down[c] = <<a>> /\ a.req = Query(c)
    \/ /\ up[c] = <<>> /\ down[c] = <<>> /\ hpc[c] = "none"

InStep(c) ==
    /\ cpc[c] \in {"start", "connect"} => Quiet(c) /\ hpc[c] = "none"
    /\ cpc[c] \in {"send", "render", "sleep"} => Quiet(c)
    /\ cpc[c] = "read" => InFlight(c)
    /\ cpc[c] \in {"send", "read", "sleep"} => open[c]
    /\ cpc[c] = "render" /\ opts[c].watch => open[c]
    /\ cpc[c] \in {"render", "sleep"} => answer[c].req = Query(c)

AllInStep == \A c \in Clis : InStep(c)

(* A step of another CLI or handler. *)
LEMMA Untouched ==
    ASSUME NEW c \in Clis, InStep(c),
           cpc'[c] = cpc[c] /\ opts'[c] = opts[c] /\ asked'[c] = asked[c],
           answer'[c] = answer[c] /\ open'[c] = open[c] /\ up'[c] = up[c] /\ down'[c] = down[c],
           hpc'[c] = hpc[c] /\ hreq'[c] = hreq[c] /\ hout'[c] = hout[c]
    PROVE  InStep(c)'
BY DEF InStep, Quiet, InFlight, Query

(* Every step keeps a value of each variable for each CLI. *)
LEMMA ShapeStep == Shape /\ [Next]_vars => Shape'
<1> SUFFICES ASSUME Shape, [Next]_vars PROVE Shape'
  OBVIOUS
<1>1. ASSUME NEW c \in Clis, Start(c) PROVE Shape'
  BY <1>1 DEF Shape, Start, End, handVars
<1>2. ASSUME NEW c \in Clis, Interrupt(c) \/ CliStep(c) PROVE Shape'
  BY <1>2 DEF Shape, Interrupt, CliStep, ConnectBackend, ConnectFails, SendQuery, ReadAnswer,
     ReadEnd, Render, Wake, End, handVars
<1>3. ASSUME NEW c \in Clis, HandlerStep(c) PROVE Shape'
  BY <1>3 DEF Shape, HandlerStep, Accept, ReadLine, ReadEof, Refresh, LockRows, CacheHit,
     CacheMiss, Getent, BuildAnswer, WriteAnswer, Goto, cliVars
<1>4. CASE Boot \/ BootStep
  BY <1>4 DEF Shape, Boot, BootStep, ClearPath, Bind, SetPermissions, cliVars, handVars
<1>5. CASE Crash
  BY <1>5 DEF Shape, Crash, cliVars
<1>6. CASE UNCHANGED vars
  BY <1>6 DEF Shape, vars, cliVars, handVars
<1> QED
  BY <1>1, <1>2, <1>3, <1>4, <1>5, <1>6 DEF Next

(* A CLI that ends has no claim to an answer. *)
LEMMA EndInStep ==
    ASSUME Shape, AllInStep, NEW c \in Clis, NEW how \in Gone, End(c, how),
           UNCHANGED <<up, hpc, hreq, hout>>
    PROVE  AllInStep'
<1> SUFFICES ASSUME NEW d \in Clis PROVE InStep(d)'
  BY DEF AllInStep
<1>1. CASE d = c
  BY <1>1 DEF Shape, End, InStep, Gone
<1>2. CASE d # c
  BY <1>2, Untouched DEF Shape, AllInStep, End
<1> QED
  BY <1>1, <1>2

(* A step of a CLI keeps it in step with the thread that serves it. *)
LEMMA CliInStep ==
    ASSUME Shape, AllInStep, NEW c \in Clis, Start(c) \/ Interrupt(c) \/ CliStep(c)
    PROVE  AllInStep'
<1>0. InStep(c) /\ {"ok", "failed", "killed"} = Gone
  BY DEF AllInStep, Gone
<1>1. ASSUME NEW how \in Gone, End(c, how), UNCHANGED <<up, hpc, hreq, hout>> PROVE AllInStep'
  BY <1>1, EndInStep
<1>2. ASSUME NEW d \in Clis, d # c, ~(\E how \in Gone : End(c, how)) PROVE InStep(d)'
  <2>1. InStep(d)
    BY DEF AllInStep
  <2> QED
    BY <1>0, <1>2, <2>1, Untouched DEF Shape, Start, Interrupt, CliStep, ConnectBackend,
       ConnectFails, SendQuery, ReadAnswer, ReadEnd, Render, Wake, handVars
<1>3. CASE \E how \in Gone : End(c, how)
  <2>1. UNCHANGED <<up, hpc, hreq, hout>>
    BY <1>3 DEF Start, Interrupt, CliStep, ConnectBackend, ConnectFails, SendQuery, ReadAnswer,
       ReadEnd, Render, Wake, handVars, End, Gone, Shape
  <2> QED
    BY <1>1, <1>3, <2>1
<1>4. CASE ~\E how \in Gone : End(c, how)
  <2>1. InStep(c)'
    <3>1. CASE Start(c)
      BY <1>0, <1>4, <3>1 DEF Start, InStep, Quiet, Shape, handVars
    <3>2. CASE ConnectBackend(c)
      BY <1>0, <3>2 DEF ConnectBackend, InStep, Quiet, Shape
    <3>3. CASE SendQuery(c)
      <4>1. /\ Quiet(c) /\ hpc[c] \in {"backlog", "read"} /\ open[c]
        BY <1>0, <1>4, <3>3 DEF SendQuery, InStep, Quiet
      <4>2. /\ cpc'[c] = "read" /\ asked'[c] = asked[c] + 1 /\ opts' = opts /\ down' = down
            /\ open' = open /\ hpc' = hpc
            /\ up'[c] = Append(up[c], [seq |-> asked[c] + 1, filter |-> opts[c].filter,
                                       user |-> opts[c].user])
        BY <1>0, <1>4, <3>3 DEF SendQuery, Shape, handVars
      <4>3. up'[c] = <<Query(c)'>>
        BY <4>1, <4>2 DEF Quiet, Query
      <4> QED
        BY <4>1, <4>2, <4>3 DEF InStep, InFlight, Quiet
    <3>4. CASE ReadAnswer(c)
      <4>1. InFlight(c) /\ down[c] # <<>> /\ open[c]
        BY <1>0, <3>4 DEF ReadAnswer, InStep
      <4>2. PICK a : down[c] = <<a>> /\ a.req = Query(c)
        BY <4>1 DEF InFlight
      <4>3. up[c] = <<>> /\ hpc[c] \in {"none", "read"}
        BY <4>1 DEF InFlight
      <4>4. Head(down[c]) = a /\ Tail(down[c]) = <<>>
        BY <4>2
      <4>5. /\ cpc'[c] = "render" /\ answer'[c] = a /\ down'[c] = <<>> /\ opts' = opts
            /\ asked' = asked /\ up' = up /\ hpc' = hpc /\ (opts[c].watch => open' = open)
        BY <3>4, <4>4 DEF ReadAnswer, Shape, handVars
      <4>6. Query(c)' = Query(c)
        BY <4>5 DEF Query
      <4> QED
        BY <4>1, <4>2, <4>3, <4>5, <4>6 DEF InStep, Quiet
    <3>5. CASE Render(c)
      BY <1>0, <1>4, <3>5 DEF Render, InStep, Quiet, Query, Shape, handVars, Gone
    <3>6. CASE Wake(c)
      BY <1>0, <3>6 DEF Wake, InStep, Quiet, Shape, handVars
    <3> QED
      BY <1>4, <3>1, <3>2, <3>3, <3>4, <3>5, <3>6 DEF CliStep, Interrupt, ConnectFails, ReadEnd, Gone
  <2> QED
    BY <1>2, <1>4, <2>1 DEF AllInStep
<1> QED
  BY <1>3, <1>4

(* A step of a handler leaves the lines of the other connections alone. *)
LEMMA HandlerElsewhere ==
    ASSUME Shape, AllInStep, NEW c \in Clis, HandlerStep(c), NEW d \in Clis, d # c
    PROVE  InStep(d)'
<1>1. InStep(d)
  BY DEF AllInStep
<1> QED
  BY <1>1, Untouched DEF Shape, HandlerStep, Accept, ReadLine, ReadEof, Refresh, LockRows, CacheHit,
     CacheMiss, Getent, BuildAnswer, WriteAnswer, Goto, cliVars

(* A step of the thread that serves a CLI keeps the CLI in step. *)
LEMMA HandlerInStep ==
    ASSUME Shape, AllInStep, NEW c \in Clis, HandlerStep(c)
    PROVE  AllInStep'
<1>0. InStep(c)
  BY DEF AllInStep
<1>1. /\ UNCHANGED <<cpc, opts, asked, answer, open>>
      /\ Query(c)' = Query(c)
  BY DEF HandlerStep, Accept, ReadLine, ReadEof, Refresh, LockRows, CacheHit,
     CacheMiss, Getent, BuildAnswer, WriteAnswer, cliVars, Query
<1>2. InStep(c)'
  <2>1. CASE Accept(c)
    BY <1>0, <1>1, <2>1 DEF Accept, InStep, InFlight, Quiet, Goto, Shape
  <2>2. CASE ReadLine(c)
    <3>1. CASE cpc[c] = "read"
      <4>1. up[c] = <<Query(c)>> /\ down[c] = <<>>
        BY <1>0, <2>2, <3>1 DEF ReadLine, InStep, InFlight
      <4>2. Head(up[c]) = Query(c) /\ Tail(up[c]) = <<>>
        BY <4>1
      <4>3. hreq'[c] = Query(c)' /\ up'[c] = <<>> /\ down'[c] = <<>> /\ hpc'[c] = "refresh"
        BY <1>1, <2>2, <4>1, <4>2 DEF ReadLine, Goto, Shape
      <4> QED
        BY <1>0, <1>1, <3>1, <4>3 DEF InStep, InFlight
    <3>2. CASE cpc[c] # "read"
      BY <1>0, <1>1, <2>2, <3>2 DEF ReadLine, InStep, Quiet
    <3> QED
      BY <3>1, <3>2
  <2>3. CASE ReadEof(c)
    BY <1>0, <1>1, <2>3 DEF ReadEof, InStep, InFlight, Quiet, Goto, Shape
  <2>4. CASE Refresh(c) \/ LockRows(c) \/ CacheHit(c) \/ CacheMiss(c) \/ Getent(c)
    <3>1. /\ hpc[c] \in {"refresh", "lock", "build", "getent"}
          /\ hpc'[c] \in {"refresh", "lock", "build", "getent"}
          /\ UNCHANGED <<up, down, hreq>>
      BY <2>4 DEF Refresh, LockRows, CacheHit, CacheMiss, Getent, Goto, Shape
    <3> QED
      BY <1>0, <1>1, <3>1 DEF InStep, InFlight, Quiet
  <2>5. CASE BuildAnswer(c)
    <3>1. /\ hpc[c] = "build" /\ hpc'[c] = "write" /\ UNCHANGED <<up, down>>
          /\ hout'[c].req = hreq[c]
      BY <2>5 DEF BuildAnswer, Goto, Shape
    <3> QED
      BY <1>0, <1>1, <3>1 DEF InStep, InFlight, Quiet
  <2>6. CASE WriteAnswer(c)
    <3>1. CASE open[c] /\ cpc[c] = "read"
      <4>1. up[c] = <<>> /\ down[c] = <<>> /\ hout[c].req = Query(c)
        BY <1>0, <2>6, <3>1 DEF WriteAnswer, InStep, InFlight
      <4>2. down'[c] = <<hout[c]>> /\ up' = up /\ hpc'[c] = "read"
        BY <2>6, <3>1, <4>1 DEF WriteAnswer, Goto, Shape
      <4> QED
        BY <1>0, <1>1, <3>1, <4>1, <4>2 DEF InStep, InFlight
    <3>2. CASE ~(open[c] /\ cpc[c] = "read")
      BY <1>0, <1>1, <2>6, <3>2 DEF WriteAnswer, InStep, Quiet, Goto, Shape
    <3> QED
      BY <3>1, <3>2
  <2> QED
    BY <2>1, <2>2, <2>3, <2>4, <2>5, <2>6 DEF HandlerStep
<1> QED
  BY <1>2, HandlerElsewhere DEF AllInStep

(* Lines already written stay; everything else on its way is lost. *)
LEMMA CrashInStep == Shape /\ AllInStep /\ Crash => AllInStep'
<1> SUFFICES ASSUME AllInStep, Crash, NEW c \in Clis PROVE InStep(c)'
  BY DEF AllInStep
<1>1. InStep(c)
  BY DEF AllInStep
<1>2. /\ UNCHANGED <<cpc, opts, asked, answer, open, down>>
      /\ hpc'[c] = "none" /\ up'[c] = <<>> /\ Query(c)' = Query(c)
  BY DEF Crash, cliVars, Query
<1> QED
  BY <1>1, <1>2 DEF InStep, InFlight, Quiet

(* Every step keeps every CLI in step: each is of one CLI, or a crash. *)
LEMMA StepInStep == Shape /\ AllInStep /\ [Next]_vars => AllInStep'
<1> SUFFICES ASSUME Shape, AllInStep, [Next]_vars PROVE AllInStep'
  OBVIOUS
<1>1. CASE Boot \/ BootStep \/ UNCHANGED vars
  <2>1. UNCHANGED <<cpc, opts, asked, answer, open, up, down, hpc, hreq, hout>>
    BY <1>1 DEF Boot, BootStep, ClearPath, Bind, SetPermissions, vars, cliVars, handVars
  <2> QED
    BY <2>1, Untouched DEF AllInStep
<1> QED
  BY <1>1, CliInStep, HandlerInStep, CrashInStep DEF Next

(* At first no CLI has asked anything and nobody serves one. *)
LEMMA InitInStep == Init => Shape /\ AllInStep
BY DEF Init, Shape, AllInStep, InStep, Quiet

(* What a CLI prints answers the query it sent last: query_stream reads one
   line per query, and handle_client writes one line per line it reads, however
   many CLIs there are and whoever is interrupted or crashes. *)
THEOREM AnswersInStep == Spec => []AnswerInStep
<1>1. AllInStep => AnswerInStep
  BY DEF AllInStep, InStep, AnswerInStep, Query
<1> QED
  BY <1>1, InitInStep, ShapeStep, StepInStep, PTL DEF Spec

-----------------------------------------------------------------------------
(* The names of users. *)

Shown(text) == text \notin {"", "?"}

(* A handler that builds an answer holds the mutex of the rows; the uid it asks
   getent about has no name yet. *)
Locked ==
    /\ \A c \in Clis : hpc[c] \in {"build", "getent"} => lock = c
    /\ \A c \in Clis : hpc[c] = "getent" => huid[c] \in Uids /\ names[huid[c]] = None

(* Names are not blank, and none is "?". *)
Named ==
    /\ DOMAIN names = Uids /\ \A u \in Uids : names[u] # None => Shown(names[u])
    /\ \A c \in Clis : \A u \in DOMAIN hnames[c] : Shown(hnames[c][u])

(* The rows a handler selects are there, and stay as they are. *)
Selected ==
    /\ DOMAIN rows = Nodes /\ \A n \in Nodes : rows[n] \in Snapshots \cup {Absent, NoSnapshot}
    /\ \A c \in Clis : hpc[c] \in {"build", "getent"} =>
           \A n \in hsel[c] : n \in Nodes /\ rows[n] # Absent

(* The least-number principle: build_query_response names the least uid first. *)
LEMMA LeastNatural ==
    ASSUME NEW T \in SUBSET Nat, T # {}
    PROVE  \E x \in T : \A y \in T : x <= y
<1> DEFINE R == {ss \in Nat \X Nat : ss[1] < ss[2]}
<1>1. IsWellFoundedOn(R, Nat)
  BY NatLessThanWellFounded, Zenon DEF OpToRel
<1>2. \A x, y \in Nat : y < x => <<y, x>> \in R
  OBVIOUS
<1> HIDE DEF R
<1>3. PICK x \in T : \A y \in T : ~(<<y, x>> \in R)
  BY <1>1, WFMin, Zenon
<1>4. \A y \in T : ~(y < x)
  BY <1>2, <1>3
<1> QED
  BY <1>4

(* Who owns a process of a row is known to getent or to nobody. *)
LEMMA UidsAreKnown ==
    ASSUME Selected, NEW c \in Clis, hpc[c] \in {"build", "getent"}
    PROVE  UidsOf(rows, hsel[c]) \subseteq Uids
<1> SUFFICES ASSUME NEW u \in UidsOf(rows, hsel[c]) PROVE u \in Uids
  OBVIOUS
<1>1. PICK n \in hsel[c] : /\ rows[n] # NoSnapshot
                           /\ u \in {p.uid : p \in UNION {rows[n][g] : g \in DOMAIN rows[n]}}
  BY DEF UidsOf
<1>2. u # UnknownUid
  BY DEF UidsOf
<1>3. rows[n] \in Snapshots
  BY <1>1 DEF Selected
<1>4. PICK g \in DOMAIN rows[n] : \E p \in rows[n][g] : u = p.uid
  BY <1>1
<1> QED
  BY <1>2, <1>3, <1>4, CliAssumption

(* The uid a handler names next is one that it has not named yet. *)
LEMMA NextUidIsUnnamed ==
    ASSUME Selected, NEW c \in Clis, hpc[c] = "build", Unnamed(c) # {}
    PROVE  NextUid(c) \in Unnamed(c) /\ NextUid(c) \in Uids
<1>1. Unnamed(c) \subseteq Uids
  BY UidsAreKnown DEF Unnamed
<1>2. Unnamed(c) \in SUBSET Nat
  BY <1>1, CliAssumption
<1>3. \E u \in Unnamed(c) : \A v \in Unnamed(c) : u <= v
  BY <1>2, LeastNatural
<1> QED
  BY <1>1, <1>3 DEF NextUid

NamesInv == Locked /\ Named /\ Selected

(* Steps that touch neither rows nor names, and start no handler building. *)
LEMMA NamesUntouched ==
    ASSUME NamesInv, UNCHANGED <<lock, rows, names, hsel, hnames, huid>>,
           \A c \in Clis : hpc'[c] = hpc[c] \/ hpc'[c] \notin {"build", "getent"}
    PROVE  NamesInv'
<1>1. Locked'
  BY DEF NamesInv, Locked
<1>2. Named'
  BY DEF NamesInv, Named
<1>3. Selected'
  BY DEF NamesInv, Selected
<1> QED
  BY <1>1, <1>2, <1>3 DEF NamesInv

(* A step of a handler keeps the invariant about names. *)
LEMMA HandlerNames ==
    ASSUME Shape, NamesInv, NEW c \in Clis, HandlerStep(c)
    PROVE  NamesInv'
<1>0. /\ \A d \in Clis : hpc[d] \in {"build", "getent"} => lock = d
      /\ \A d \in Clis : hpc[d] = "getent" => huid[d] \in Uids /\ names[huid[d]] = None
      /\ None \notin Clis
  BY CliAssumption DEF NamesInv, Locked
<1>1. CASE Accept(c) \/ ReadLine(c) \/ ReadEof(c) \/ WriteAnswer(c)
  BY <1>1, NamesUntouched DEF Accept, ReadLine, ReadEof, WriteAnswer, Goto, Shape
<1>2. CASE Refresh(c)
  <2>1. /\ \A d \in Clis : hpc'[d] \notin {"build", "getent"}
        /\ UNCHANGED <<names, hnames>>
    BY <1>0, <1>2 DEF Refresh, Goto, Shape
  <2>2. /\ DOMAIN rows' = Nodes
        /\ \A n \in Nodes : rows'[n] \in Snapshots \cup {Absent, NoSnapshot}
    BY <1>2 DEF Refresh, NamesInv, Selected
  <2>3. Named'
    BY <2>1 DEF NamesInv, Named
  <2> QED
    BY <2>1, <2>2, <2>3 DEF NamesInv, Locked, Selected
<1>3. CASE LockRows(c)
  <2>1. /\ \A d \in Clis : d # c => hpc'[d] \notin {"build", "getent"}
        /\ hpc'[c] = "build" /\ lock' = c /\ UNCHANGED <<names, hnames, rows>>
        /\ \A n \in hsel'[c] : n \in Nodes /\ rows[n] # Absent
    BY <1>0, <1>3 DEF LockRows, Goto, Shape
  <2>2. Named'
    BY <2>1 DEF NamesInv, Named
  <2> QED
    BY <2>1, <2>2 DEF NamesInv, Locked, Selected
<1>4. CASE CacheHit(c)
  <2>1. NextUid(c) \in Uids /\ names[NextUid(c)] # None
    BY <1>4, NextUidIsUnnamed DEF CacheHit, NamesInv
  <2>2. Shown(names[NextUid(c)])
    BY <2>1 DEF NamesInv, Named
  <2>3. PICK u, v : /\ Shown(v) /\ hnames'[c] = Learn(hnames[c], u, v)
                    /\ \A d \in Clis : d # c => hnames'[d] = hnames[d]
    BY <1>4, <2>2 DEF CacheHit, Shape
  <2>4. \A w \in DOMAIN hnames'[c] : Shown(hnames'[c][w])
    BY <2>3 DEF NamesInv, Named, Learn
  <2>5. UNCHANGED <<lock, rows, names, hsel, hpc, huid>>
    BY <1>4 DEF CacheHit
  <2>6. Named'
    BY <2>3, <2>4, <2>5 DEF NamesInv, Named
  <2>7. Locked'
    BY <2>5 DEF NamesInv, Locked
  <2>8. Selected'
    BY <2>5 DEF NamesInv, Selected
  <2> QED
    BY <2>6, <2>7, <2>8 DEF NamesInv
<1>5. CASE CacheMiss(c)
  <2>1. NextUid(c) \in Uids
    BY <1>5, NextUidIsUnnamed DEF CacheMiss, NamesInv
  <2>2. /\ hpc[c] = "build" /\ hpc'[c] = "getent" /\ huid'[c] \in Uids /\ names[huid'[c]] = None
        /\ UNCHANGED <<lock, rows, names, hsel, hnames>>
        /\ \A d \in Clis : d # c => hpc'[d] = hpc[d] /\ huid'[d] = huid[d]
    BY <1>5, <2>1 DEF CacheMiss, Goto, Shape
  <2>3. Named'
    BY <2>2 DEF NamesInv, Named
  <2>4. Locked'
    BY <2>2 DEF NamesInv, Locked
  <2>5. Selected'
    BY <2>2 DEF NamesInv, Selected
  <2> QED
    BY <2>3, <2>4, <2>5 DEF NamesInv
<1>6. CASE Getent(c)
  <2>0. PICK found \in BOOLEAN :
            /\ names' = [names EXCEPT ![huid[c]] = resolve_username(huid[c], found)]
            /\ hnames' = [hnames EXCEPT ![c] = Learn(@, huid[c], resolve_username(huid[c], found))]
    BY <1>6 DEF Getent
  <2>1. PICK name :
            /\ name = resolve_username(huid[c], found)
            /\ names' = [names EXCEPT ![huid[c]] = name]
            /\ hnames' = [hnames EXCEPT ![c] = Learn(@, huid[c], name)]
    BY <2>0
  <2>2. huid[c] \in Uids
    BY <1>0, <1>6 DEF Getent
  <2>3. Shown(name)
    BY <2>1, <2>2, CliAssumption DEF Shown, resolve_username
  <2>4. /\ hpc[c] = "getent" /\ hpc'[c] = "build" /\ UNCHANGED <<lock, rows, hsel>>
        /\ \A d \in Clis : d # c => hpc'[d] = hpc[d] /\ hpc[d] \notin {"build", "getent"}
    BY <1>0, <1>6 DEF Getent, Goto, Shape
  <2>5. hnames'[c] = Learn(hnames[c], huid[c], name) /\ \A d \in Clis : d # c => hnames'[d] = hnames[d]
    BY <2>1 DEF Shape
  <2>6. \A w \in DOMAIN hnames'[c] : Shown(hnames'[c][w])
    BY <2>3, <2>5 DEF NamesInv, Named, Learn
  <2>7. DOMAIN names' = Uids /\ \A u \in Uids : names'[u] # None => Shown(names'[u])
    BY <2>1, <2>2, <2>3 DEF NamesInv, Named
  <2>8. Named'
    BY <2>5, <2>6, <2>7 DEF NamesInv, Named
  <2>9. Locked'
    BY <2>4 DEF NamesInv, Locked
  <2>10. Selected'
    BY <2>4 DEF NamesInv, Selected
  <2> QED
    BY <2>8, <2>9, <2>10 DEF NamesInv
<1>7. CASE BuildAnswer(c)
  <2>1. /\ UNCHANGED <<rows, names>> /\ \A d \in Clis : hpc'[d] \notin {"build", "getent"}
        /\ hnames'[c] = <<>> /\ \A d \in Clis : d # c => hnames'[d] = hnames[d]
    BY <1>0, <1>7 DEF BuildAnswer, Goto, Shape
  <2>2. Named'
    BY <2>1 DEF NamesInv, Named
  <2>3. Locked' /\ Selected'
    BY <2>1 DEF NamesInv, Locked, Selected
  <2> QED
    BY <2>2, <2>3 DEF NamesInv
<1> QED
  BY <1>1, <1>2, <1>3, <1>4, <1>5, <1>6, <1>7 DEF HandlerStep

(* A crash takes the names, the rows and the handlers along. *)
LEMMA CrashNames == NamesInv /\ Crash => NamesInv'
BY DEF Crash, NamesInv, Locked, Named, Selected

(* The invariant about names holds at first. *)
LEMMA InitNames == Init => NamesInv
BY DEF Init, NamesInv, Locked, Named, Selected

(* Every step keeps the invariant about names. *)
LEMMA StepNames == Shape /\ NamesInv /\ [Next]_vars => NamesInv'
<1> SUFFICES ASSUME Shape, NamesInv, [Next]_vars PROVE NamesInv'
  OBVIOUS
<1>1. CASE Boot \/ BootStep \/ UNCHANGED vars
  BY <1>1, NamesUntouched DEF Boot, BootStep, ClearPath, Bind, SetPermissions, vars, handVars
<1>2. ASSUME NEW c \in Clis, Start(c) \/ Interrupt(c) \/ CliStep(c) PROVE NamesInv'
  BY <1>2, NamesUntouched DEF Start, Interrupt, CliStep, ConnectBackend, ConnectFails, SendQuery,
     ReadAnswer, ReadEnd, Render, Wake, handVars, Shape
<1> QED
  BY <1>1, <1>2, HandlerNames, CrashNames DEF Next

(* As long as a backend runs, a uid keeps the name it was first shown by.  The
   cache of username_for_uid does not see to it: the mutex of the rows does. *)
THEOREM NamesStable == Spec => NameStable
<1>1. Shape /\ NamesInv /\ [Next]_vars
        => [\A u \in Uids : names[u] # None => names'[u] = names[u] \/ bpc' = "down"]_vars
  <2> SUFFICES ASSUME NamesInv, Next, NEW u \in Uids, names[u] # None
               PROVE  names'[u] = names[u] \/ bpc' = "down"
    OBVIOUS
  <2>1. ASSUME NEW c \in Clis, Getent(c) PROVE names'[u] = names[u]
    <3>1. names[huid[c]] = None /\ DOMAIN names = Uids
      BY <2>1 DEF Getent, NamesInv, Locked, Named
    <3> QED
      BY <2>1, <3>1 DEF Getent
  <2>2. CASE Boot \/ BootStep \/ Crash
    BY <2>2 DEF Boot, BootStep, ClearPath, Bind, SetPermissions, Crash, handVars
  <2>3. ASSUME NEW c \in Clis, Start(c) \/ Interrupt(c) \/ CliStep(c) PROVE names' = names
    BY <2>3 DEF Start, Interrupt, CliStep, ConnectBackend, ConnectFails, SendQuery, ReadAnswer,
       ReadEnd, Render, Wake, handVars
  <2>4. ASSUME NEW c \in Clis, HandlerStep(c), ~Getent(c) PROVE names' = names
    BY <2>4 DEF HandlerStep, Accept, ReadLine, ReadEof, Refresh, LockRows, CacheHit, CacheMiss,
       BuildAnswer, WriteAnswer
  <2> QED
    BY <2>1, <2>2, <2>3, <2>4 DEF Next
<1> QED
  BY <1>1, InitInStep, InitNames, ShapeStep, StepNames, PTL DEF Spec, NameStable

-----------------------------------------------------------------------------
(* The two filters by user. *)

(* What the CLI calls the owner of a process is what the backend called them. *)
Recognised(view) ==
    \A g \in DOMAIN view.gres : \A p \in view.gres[g] : display_username(p) = p.username

(* When every uid has its name, no name in a view is one display_username replaces. *)
LEMMA ViewRecognised ==
    ASSUME NamesInv, NEW c \in Clis, hpc[c] = "build", Unnamed(c) = {}, NEW n \in hsel[c]
    PROVE  Recognised(node_view_from_entry(n, rows[n], hnames[c]))
<1> DEFINE view == node_view_from_entry(n, rows[n], hnames[c])
<1> SUFFICES ASSUME NEW g \in DOMAIN view.gres, NEW q \in view.gres[g]
             PROVE  display_username(q) = q.username
  BY DEF Recognised
<1>1. rows[n] # NoSnapshot
  BY DEF node_view_from_entry
<1>2. g \in DOMAIN rows[n]
  BY <1>1 DEF node_view_from_entry
<1>3. PICK p \in rows[n][g] : q = [pid |-> p.pid, uid |-> p.uid,
                                   username |-> username_for_uid(p.uid, hnames[c])]
  BY <1>1, <1>2 DEF node_view_from_entry
<1>4. UnknownUid # 0
  BY CliAssumption
<1>5. CASE p.uid = UnknownUid
  BY <1>3, <1>4, <1>5 DEF display_username, username_for_uid
<1>6. CASE p.uid # UnknownUid
  <2>1. p.uid \in UidsOf(rows, hsel[c])
    BY <1>1, <1>2, <1>6 DEF UidsOf
  <2>2. p.uid \in DOMAIN hnames[c]
    BY <2>1 DEF Unnamed
  <2>3. Shown(hnames[c][p.uid])
    BY <2>2 DEF NamesInv, Named
  <2> QED
    BY <1>3, <1>6, <2>3 DEF display_username, username_for_uid, Shown
<1> QED
  BY <1>5, <1>6

(* The form of a node view: a stale node has no devices. *)
IsView(view) ==
    /\ view = [id |-> view.id, stale |-> view.stale, gres |-> view.gres]
    /\ view.gres = [g \in DOMAIN view.gres |-> view.gres[g]]
    /\ view.stale => DOMAIN view.gres = {}

Views(vs) == \A v \in vs : IsView(v) /\ Recognised(v)

(* What is left of a node view for a user. *)
Own(view, name) == [g \in DOMAIN view.gres |-> {p \in view.gres[g] : p.username = name}]
OwnRows(view, name) == [g \in {h \in DOMAIN view.gres : Own(view, name)[h] # {}} |-> Own(view, name)[g]]
Line(view, rws) == [id |-> view.id, stale |-> view.stale, rows |-> rws]

(* node_view_from_entry makes a view, whatever the row and the names. *)
LEMMA ViewForm ==
    ASSUME NEW n, NEW row, NEW known
    PROVE  IsView(node_view_from_entry(n, row, known))
<1>1. CASE row = NoSnapshot
  BY <1>1 DEF node_view_from_entry, IsView
<1>2. CASE row # NoSnapshot
  BY <1>2 DEF node_view_from_entry, IsView
<1> QED
  BY <1>1, <1>2

(* The devices of a node the CLI shows, and what it shows of them. *)
Visible(view, user) == {g \in DOMAIN view.gres : should_render_gres(view.gres[g], user)}
Rendered(view, user) == [g \in Visible(view, user) |-> visible_processes(view.gres[g], user)]

(* A node is in the table if a device of it is shown or it is stale. *)
LEMMA TableLines ==
    ASSUME NEW vs, NEW user, NEW t
    PROVE  t \in render_table(vs, user)
             <=> \E v \in vs : (Visible(v, user) # {} \/ v.stale) /\ t = Line(v, Rendered(v, user))
BY DEF render_table, Visible, Rendered, Line

(* The table without a user lists every device as the backend sent it. *)
LEMMA WholeTable ==
    ASSUME NEW vs, Views(vs), NEW t
    PROVE  t \in render_table({apply_user_filter(v, NoUser) : v \in vs}, NoUser)
             <=> \E v \in vs : (DOMAIN v.gres # {} \/ v.stale) /\ t = Line(v, v.gres)
<1>1. {apply_user_filter(v, NoUser) : v \in vs} = vs
  BY DEF apply_user_filter
<1>2. \A ps : visible_processes(ps, NoUser) = ps /\ should_render_gres(ps, NoUser)
  BY DEF visible_processes, should_render_gres, Blank, NoUser
<1>3. ASSUME NEW v \in vs
      PROVE  Visible(v, NoUser) = DOMAIN v.gres /\ Rendered(v, NoUser) = v.gres
  <2>1. v.gres = [g \in DOMAIN v.gres |-> v.gres[g]]
    BY DEF Views, IsView
  <2>2. Visible(v, NoUser) = DOMAIN v.gres
    BY <1>2 DEF Visible
  <2> QED
    BY <1>2, <2>1, <2>2 DEF Rendered
<1> QED
  BY <1>1, <1>3, TableLines

(* The table for a user lists what is left, and a device only if anything is. *)
LEMMA OwnTable ==
    ASSUME NEW vs, Views(vs), NEW name, name # "", NEW t
    PROVE  LET user == [name |-> name, pad |-> FALSE]
           IN t \in render_table({apply_user_filter(v, user) : v \in vs}, user)
                <=> \E v \in vs : (DOMAIN OwnRows(v, name) # {} \/ v.stale) /\ t = Line(v, OwnRows(v, name))
<1> DEFINE user == [name |-> name, pad |-> FALSE]
<1> DEFINE Left(v) == [id |-> v.id, stale |-> v.stale, gres |-> Own(v, name)]
<1>1. user # NoUser /\ ~Blank(user) /\ normalized_user_filter(user).name = name
  BY DEF NoUser, Blank, normalized_user_filter
<1>2. ASSUME NEW v \in vs PROVE apply_user_filter(v, user) = Left(v)
  <2>1. v = [id |-> v.id, stale |-> v.stale, gres |-> v.gres]
    BY DEF Views, IsView
  <2>2. \A p : [name |-> p.username, pad |-> FALSE] = user <=> p.username = name
    OBVIOUS
  <2>3. apply_user_filter(v, user) = [v EXCEPT !.gres = Own(v, name)]
    BY <1>1, <2>2 DEF apply_user_filter, Own
  <2> QED
    BY <2>1, <2>3
<1>3. ASSUME NEW v \in vs, NEW g \in DOMAIN v.gres
      PROVE  /\ visible_processes(Own(v, name)[g], user) = Own(v, name)[g]
             /\ should_render_gres(Own(v, name)[g], user) <=> Own(v, name)[g] # {}
  <2>1. \A p \in Own(v, name)[g] : display_username(p) = name
    BY DEF Views, Recognised, Own
  <2>2. visible_processes(Own(v, name)[g], user) = Own(v, name)[g]
    BY <1>1, <2>1 DEF visible_processes
  <2> QED
    BY <1>1, <2>2 DEF should_render_gres
<1>4. ASSUME NEW v \in vs
      PROVE  /\ Visible(Left(v), user) = DOMAIN OwnRows(v, name)
             /\ Rendered(Left(v), user) = OwnRows(v, name)
  <2>1. DOMAIN Left(v).gres = DOMAIN v.gres /\ Left(v).gres = Own(v, name)
    BY DEF Own
  <2>2. Visible(Left(v), user) = {h \in DOMAIN v.gres : Own(v, name)[h] # {}}
    BY <1>3, <2>1 DEF Visible
  <2> QED
    BY <1>3, <2>1, <2>2 DEF OwnRows, Rendered
<1>5. {apply_user_filter(v, user) : v \in vs} = {Left(v) : v \in vs}
  BY <1>2
<1>6. \A v \in vs : \A rws : Line(Left(v), rws) = Line(v, rws) /\ Left(v).stale = v.stale
  BY DEF Line
<1> HIDE DEF user, Left
<1>7. t \in render_table({Left(v) : v \in vs}, user)
        <=> \E v \in vs : (DOMAIN OwnRows(v, name) # {} \/ v.stale) /\ t = Line(v, OwnRows(v, name))
  <2>1. t \in render_table({Left(v) : v \in vs}, user)
          <=> \E v \in vs : /\ Visible(Left(v), user) # {} \/ Left(v).stale
                            /\ t = Line(Left(v), Rendered(Left(v), user))
    <3> DEFINE lefts == {Left(v) : v \in vs}
    <3>1. \A w : w \in lefts <=> \E v \in vs : w = Left(v)
      OBVIOUS
    <3> HIDE DEF lefts
    <3>2. t \in render_table(lefts, user)
            <=> \E w \in lefts : (Visible(w, user) # {} \/ w.stale) /\ t = Line(w, Rendered(w, user))
      <4>1. PICK ls, us : ls = lefts /\ us = user
        OBVIOUS
      <4>2. t \in render_table(ls, us)
              <=> \E w \in ls : (Visible(w, us) # {} \/ w.stale) /\ t = Line(w, Rendered(w, us))
        BY ONLY TableLines
      <4> QED
        BY <4>1, <4>2
    <3>3. t \in render_table(lefts, user)
            <=> \E v \in vs : /\ Visible(Left(v), user) # {} \/ Left(v).stale
                              /\ t = Line(Left(v), Rendered(Left(v), user))
      BY <3>1, <3>2, Zenon
    <3> QED
      BY <3>3 DEF lefts
  <2> QED
    BY <1>4, <1>6, <2>1
<1> QED
  BY <1>5, <1>7 DEF user

(* The processes a table lists, taken apart by line. *)
LEMMA ListedLines ==
    ASSUME NEW table, NEW x
    PROVE  x \in Listed(table)
             <=> \E t \in table : \E g \in DOMAIN t.rows : \E p \in t.rows[g] :
                     x = [id |-> t.id, gres |-> g, pid |-> p.pid, user |-> display_username(p)]
BY DEF Listed

(* The tables with and without a user, made of the same node views. *)
IsWhole(whole, vs) ==
    \A t : t \in whole <=> \E v \in vs : (DOMAIN v.gres # {} \/ v.stale) /\ t = Line(v, v.gres)
IsOwn(own, vs, name) ==
    \A t : t \in own <=> \E v \in vs : /\ DOMAIN OwnRows(v, name) # {} \/ v.stale
                                      /\ t = Line(v, OwnRows(v, name))

(* The table for a user lists what the whole table lists under that name. *)
LEMMA TablesAgree ==
    ASSUME NEW vs, Views(vs), NEW name, NEW whole, NEW own, IsWhole(whole, vs), IsOwn(own, vs, name)
    PROVE  /\ Listed(own) = {x \in Listed(whole) : x.user = name}
           /\ {t \in own : t.stale} = {t \in whole : t.stale}
           /\ \A t \in own : \A g \in DOMAIN t.rows : t.rows[g] # {}
<1>1. \A v \in vs : \A g \in DOMAIN OwnRows(v, name) :
          /\ g \in DOMAIN v.gres /\ OwnRows(v, name)[g] # {}
          /\ OwnRows(v, name)[g] = {p \in v.gres[g] : p.username = name}
  BY DEF OwnRows, Own
<1>2. \A v \in vs : \A g \in DOMAIN v.gres : \A p \in v.gres[g] :
          /\ display_username(p) = p.username
          /\ p.username = name => g \in DOMAIN OwnRows(v, name)
  BY DEF Views, Recognised, OwnRows, Own
<1>3. \A v, rws : Line(v, rws).id = v.id /\ Line(v, rws).stale = v.stale /\ Line(v, rws).rows = rws
  BY DEF Line
<1>4. ASSUME NEW x \in Listed(own) PROVE x \in Listed(whole) /\ x.user = name
  <2>1. PICK t \in own : \E g \in DOMAIN t.rows : \E p \in t.rows[g] :
              x = [id |-> t.id, gres |-> g, pid |-> p.pid, user |-> display_username(p)]
    BY <1>4, ListedLines
  <2>2. PICK v \in vs : t = Line(v, OwnRows(v, name))
    BY DEF IsOwn
  <2>g. PICK g \in DOMAIN OwnRows(v, name) : \E p \in OwnRows(v, name)[g] :
              x = [id |-> v.id, gres |-> g, pid |-> p.pid, user |-> display_username(p)]
    BY <1>3, <2>1, <2>2
  <2>3. PICK p \in OwnRows(v, name)[g] :
              x = [id |-> v.id, gres |-> g, pid |-> p.pid, user |-> display_username(p)]
    BY <2>g
  <2>4. g \in DOMAIN v.gres /\ p \in v.gres[g] /\ p.username = name
    BY <1>1, <2>3
  <2>5. Line(v, v.gres) \in whole
    BY <2>4 DEF IsWhole
  <2>6. display_username(p) = name
    BY <1>2, <2>4
  <2>7. x.user = name
    BY <2>3, <2>6
  <2> QED
    BY <1>3, <2>3, <2>4, <2>5, <2>7, ListedLines
<1>5. ASSUME NEW x \in Listed(whole), x.user = name PROVE x \in Listed(own)
  <2>1. PICK t \in whole : \E g \in DOMAIN t.rows : \E p \in t.rows[g] :
              x = [id |-> t.id, gres |-> g, pid |-> p.pid, user |-> display_username(p)]
    BY <1>5, ListedLines
  <2>2. PICK v \in vs : t = Line(v, v.gres)
    BY DEF IsWhole
  <2>g. PICK g \in DOMAIN v.gres : \E p \in v.gres[g] :
              x = [id |-> v.id, gres |-> g, pid |-> p.pid, user |-> display_username(p)]
    BY <1>3, <2>1, <2>2
  <2>3. PICK p \in v.gres[g] :
              x = [id |-> v.id, gres |-> g, pid |-> p.pid, user |-> display_username(p)]
    BY <2>g
  <2>4. p.username = name
    BY <1>2, <1>5, <2>3
  <2>5. g \in DOMAIN OwnRows(v, name)
    BY <1>2, <2>3, <2>4
  <2>6. p \in OwnRows(v, name)[g]
    BY <1>1, <2>3, <2>4, <2>5
  <2>7. Line(v, OwnRows(v, name)) \in own
    BY <2>5 DEF IsOwn
  <2> QED
    BY <1>3, <2>3, <2>5, <2>6, <2>7, ListedLines
<1>6. ASSUME NEW v \in vs, v.stale PROVE OwnRows(v, name) = v.gres
  BY <1>6 DEF Views, IsView, OwnRows, Own
<1>7. {t \in own : t.stale} = {t \in whole : t.stale}
  <2>1. \A t \in own : t.stale => t \in whole
    BY <1>3, <1>6 DEF IsWhole, IsOwn
  <2>2. \A t \in whole : t.stale => t \in own
    BY <1>3, <1>6 DEF IsWhole, IsOwn
  <2> QED
    BY <2>1, <2>2
<1>8. \A t \in own : \A g \in DOMAIN t.rows : t.rows[g] # {}
  BY <1>1, <1>3 DEF IsOwn
<1> QED
  BY <1>4, <1>5, <1>7, <1>8

(* For a user typed without blanks, -user shows exactly what the table without
   it shows under that name: apply_user_filter in the backend and the filter of
   the CLI agree for every cluster, whatever is in the cache of names. *)
THEOREM UserFiltersAgree == Spec => []UserFilterAgrees
<1>1. NamesInv => UserFilterAgrees
  <2> SUFFICES ASSUME NamesInv, NEW c \in Clis, hpc[c] = "build", Unnamed(c) = {},
                      NEW name \in ShownNames
               PROVE  LET user == [name |-> name, pad |-> FALSE]
                          whole == render_table(build_query_response(rows, hsel[c], NoUser, hnames[c]), NoUser)
                          own == render_table(build_query_response(rows, hsel[c], user, hnames[c]), user)
                      IN /\ Listed(own) = {x \in Listed(whole) : x.user = name}
                         /\ {t \in own : t.stale} = {t \in whole : t.stale}
                         /\ \A t \in own : \A g \in DOMAIN t.rows : t.rows[g] # {}
    BY DEF UserFilterAgrees
  <2> DEFINE user == [name |-> name, pad |-> FALSE]
             vs == {node_view_from_entry(n, rows[n], hnames[c]) : n \in hsel[c]}
             whole == render_table(build_query_response(rows, hsel[c], NoUser, hnames[c]), NoUser)
             own == render_table(build_query_response(rows, hsel[c], user, hnames[c]), user)
  <2>1. name # ""
    BY CliAssumption DEF ShownNames
  <2>2. Views(vs)
    BY ViewForm, ViewRecognised DEF Views
  <2>3. /\ build_query_response(rows, hsel[c], NoUser, hnames[c]) = {apply_user_filter(v, NoUser) : v \in vs}
        /\ build_query_response(rows, hsel[c], user, hnames[c]) = {apply_user_filter(v, user) : v \in vs}
    BY DEF build_query_response
  <2> HIDE DEF vs
  <2>4. IsWhole(whole, vs)
    BY <2>2, <2>3, WholeTable DEF IsWhole
  <2>5. IsOwn(own, vs, name)
    BY <2>1, <2>2, <2>3, OwnTable DEF IsOwn
  <2> HIDE DEF user, whole, own
  <2>6. /\ Listed(own) = {x \in Listed(whole) : x.user = name}
        /\ {t \in own : t.stale} = {t \in whole : t.stale}
        /\ \A t \in own : \A g \in DOMAIN t.rows : t.rows[g] # {}
    BY <2>2, <2>4, <2>5, TablesAgree
  <2> QED
    BY <2>6 DEF own, whole, user
<1> QED
  BY <1>1, InitInStep, InitNames, ShapeStep, StepNames, PTL DEF Spec

-----------------------------------------------------------------------------
(* Induction over the numbers up to N, and functions defined by recursion. *)

(* Induction over 0..N for the members of a set. *)
LEMMA UpTo ==
    ASSUME NEW N \in Nat, NEW G, 0 \in G, \A n \in 1..N : n - 1 \in G => n \in G
    PROVE  \A n \in 0..N : n \in G
<1> DEFINE T == {n \in 0..N : n \notin G}
<1> SUFFICES ASSUME T # {} PROVE FALSE
  OBVIOUS
<1>0. T \in SUBSET Nat
  OBVIOUS
<1>1. PICK n \in T : \A m \in T : n <= m
  <2> HIDE DEF T
  <2> QED
    BY <1>0, LeastNatural
<1>2. n # 0 /\ n - 1 \notin T /\ n - 1 \in 0..N
  BY <1>1
<1> QED
  BY <1>1, <1>2

(* f begins with first, and each step gives the next value from the last. *)
Iterates(f, N, first, step) == f[0] = first /\ \A i \in 1..N : f[i] = step[i][f[i - 1]]

(* Such a function exists for any first value and any steps: a recursive
   definition of this form defines something. *)
LEMMA Iteration ==
    ASSUME NEW N, N \in Nat, NEW S, NEW first, first \in S, NEW step, step \in [1..N -> [S -> S]]
    PROVE  \E f \in [0..N -> S] : Iterates(f, N, first, step)
<1> DEFINE Ok(n, f) == f[0] = first /\ \A i \in 1..n : f[i] = step[i][f[i - 1]]
<1> DEFINE G == {n \in 0..N : \E f \in [0..n -> S] : Ok(n, f)}
<1>1. 0 \in G
  <2>1. [i \in 0..0 |-> first] \in [0..0 -> S] /\ Ok(0, [i \in 0..0 |-> first])
    OBVIOUS
  <2> HIDE DEF Ok
  <2>2. \E f \in [0..0 -> S] : Ok(0, f)
    BY <2>1
  <2> QED
    BY <2>2
<1>2. ASSUME NEW n \in 1..N, n - 1 \in G PROVE n \in G
  <2>1. PICK f \in [0..(n - 1) -> S] : Ok(n - 1, f)
    BY <1>2
  <2> DEFINE g == [i \in 0..n |-> IF i = n THEN step[n][f[n - 1]] ELSE f[i]]
  <2>2. step[n][f[n - 1]] \in S
    OBVIOUS
  <2>3. g \in [0..n -> S]
    BY <2>2
  <2>4. Ok(n, g)
    BY <2>1
  <2> HIDE DEF Ok, g
  <2>5. \E h \in [0..n -> S] : Ok(n, h)
    BY <2>3, <2>4
  <2> QED
    BY <2>5
<1> HIDE DEF G
<1>3. \A n \in 0..N : n \in G
  BY <1>1, <1>2, UpTo
<1>4. N \in G
  BY <1>3
<1> QED
  BY <1>4 DEF G, Iterates

-----------------------------------------------------------------------------
(* Cutting a text at its separators. *)

(* How many separators are before position i. *)
Rank(seps, i) == Cardinality({j \in seps : j < i})

(* Each separator has its own number of separators before it, in the order of
   the separators; every number below how many there are is one of these. *)
LEMMA Ranks ==
    ASSUME NEW L \in Nat, NEW seps \in SUBSET (1..L)
    PROVE  /\ IsFiniteSet(seps) /\ Cardinality(seps) \in Nat
           /\ \A i \in seps : Rank(seps, i) \in 0..(Cardinality(seps) - 1)
           /\ \A i, j \in seps : i < j <=> Rank(seps, i) < Rank(seps, j)
           /\ \A k \in 1..Cardinality(seps) : \E i \in seps : Rank(seps, i) = k - 1
<1> DEFINE m == Cardinality(seps)
<1> DEFINE Low(i) == {j \in seps : j < i}
<1>1. IsFiniteSet(seps) /\ m \in Nat
  <2>1. IsFiniteSet(1..L)
    BY FS_Interval
  <2> QED
    BY <2>1, FS_Subset, FS_CardinalityType
<1>2. \A i \in seps : /\ IsFiniteSet(Low(i)) /\ Cardinality(Low(i)) \in Nat
                      /\ Cardinality(Low(i)) <= m /\ Cardinality(Low(i)) # m
  <2> TAKE i \in seps
  <2>1. Low(i) \in SUBSET seps /\ i \notin Low(i)
    OBVIOUS
  <2> HIDE DEF Low
  <2> QED
    BY <1>1, <2>1, FS_Subset, FS_CardinalityType
<1>3. ASSUME NEW i \in seps, NEW j \in seps, i < j PROVE Cardinality(Low(i)) < Cardinality(Low(j))
  <2>1. Low(i) \in SUBSET Low(j) /\ i \in Low(j) /\ i \notin Low(i)
    <3>1. /\ \A x \in seps : x < i => x < j
          /\ ~(i < i)
      BY <1>3
    <3> QED
      BY <1>3, <3>1, Zenon
  <2>2. IsFiniteSet(Low(j))
    BY <1>2
  <2>3. Cardinality(Low(i)) \in Nat /\ Cardinality(Low(j)) \in Nat
    BY <1>2
  <2> HIDE DEF Low
  <2>4. Cardinality(Low(i)) <= Cardinality(Low(j)) /\ Cardinality(Low(i)) # Cardinality(Low(j))
    BY <2>1, <2>2, FS_Subset
  <2> QED
    BY <2>3, <2>4
<1> DEFINE r == [i \in seps |-> Cardinality(Low(i))]
<1>4. \A i \in seps : r[i] \in 0..(m - 1)
  BY <1>1, <1>2
<1>5. \A i, j \in seps : i # j => r[i] # r[j]
  <2> TAKE i, j \in seps
  <2>1. i < j \/ j < i \/ i = j
    OBVIOUS
  <2>2. r[i] \in Nat /\ r[j] \in Nat
    BY <1>2
  <2> QED
    BY <1>3, <2>1, <2>2
<1>6. r \in Injection(seps, 0..(m - 1))
  BY <1>4, <1>5 DEF Injection, IsInjective
<1>7. IsFiniteSet(0..(m - 1)) /\ Cardinality(0..(m - 1)) = m
  BY <1>1, FS_Interval
<1>8. r \in Surjection(seps, 0..(m - 1))
  <2> HIDE DEF r, m
  <2> QED
    BY <1>6, <1>7, FS_Injection DEF m
<1>9. \A k \in 1..m : \E i \in seps : r[i] = k - 1
  <2> TAKE k \in 1..m
  <2>1. k - 1 \in 0..(m - 1)
    BY <1>1
  <2> HIDE DEF r, m
  <2> QED
    BY <1>8, <2>1 DEF Surjection
<1>10. \A i, j \in seps : i < j <=> r[i] < r[j]
  <2> TAKE i, j \in seps
  <2>1. i < j \/ j < i \/ i = j
    OBVIOUS
  <2>2. r[i] \in Nat /\ r[j] \in Nat
    BY <1>2
  <2> QED
    BY <1>3, <2>1, <2>2
<1>11. \A i \in seps : r[i] = Rank(seps, i)
  BY DEF Rank
<1> HIDE DEF r
<1> QED
  BY <1>1, <1>4, <1>9, <1>10, <1>11

(* The bars are the separators in their order, between 0 and Len(s) + 1. *)
LEMMA Bars ==
    ASSUME NEW s, Len(s) \in Nat, NEW seps \in SUBSET (1..Len(s))
    PROVE  /\ Cardinality(seps) \in Nat
           /\ Bar(s, seps, 0) = 0 /\ Bar(s, seps, Cardinality(seps) + 1) = Len(s) + 1
           /\ \A k \in 1..Cardinality(seps) : Bar(s, seps, k) \in seps
           /\ \A k \in 0..Cardinality(seps) : /\ Bar(s, seps, k) \in 0..Len(s)
                                              /\ Bar(s, seps, k + 1) \in 1..(Len(s) + 1)
                                              /\ Bar(s, seps, k) < Bar(s, seps, k + 1)
           /\ \A k \in 0..Cardinality(seps) : \A i \in seps :
                  ~(Bar(s, seps, k) < i /\ i < Bar(s, seps, k + 1))
<1> DEFINE m == Cardinality(seps)
           b(k) == Bar(s, seps, k)
<1>1. /\ m \in Nat
      /\ \A i \in seps : Rank(seps, i) \in 0..(m - 1)
      /\ \A i, j \in seps : i < j <=> Rank(seps, i) < Rank(seps, j)
      /\ \A k \in 1..m : \E i \in seps : Rank(seps, i) = k - 1
  BY Ranks
<1>2. b(0) = 0 /\ b(m + 1) = Len(s) + 1
  BY <1>1 DEF Bar
<1>3. \A k \in 1..m : b(k) \in seps /\ Rank(seps, b(k)) = k - 1
  <2> TAKE k \in 1..m
  <2>0. k # 0 /\ ~(k > m)
    BY <1>1
  <2>1. b(k) = CHOOSE i \in seps : Rank(seps, i) = k - 1
    BY <2>0, Zenon DEF Bar, Rank
  <2>2. \E i \in seps : Rank(seps, i) = k - 1
    BY <1>1
  <2> HIDE DEF b
  <2> QED
    BY <2>1, <2>2
<1>0. seps \subseteq 1..Len(s)
  OBVIOUS
<1> HIDE DEF b, m
<1>4. ASSUME NEW k \in 0..m PROVE b(k) \in 0..Len(s) /\ b(k + 1) \in 1..(Len(s) + 1) /\ b(k) < b(k + 1)
  <2>1. k = 0 \/ k \in 1..m
    BY <1>1
  <2>2. k = m \/ k + 1 \in 1..m
    BY <1>1
  <2>3. k \in 1..m => b(k) \in 1..Len(s) /\ b(k) \in seps /\ Rank(seps, b(k)) = k - 1
    BY <1>0, <1>3
  <2>4. k + 1 \in 1..m =>
            b(k + 1) \in 1..Len(s) /\ b(k + 1) \in seps /\ Rank(seps, b(k + 1)) = k
    <3>1. k + 1 \in 1..m => b(k + 1) \in seps /\ Rank(seps, b(k + 1)) = (k + 1) - 1
      BY <1>3
    <3>2. (k + 1) - 1 = k
      BY <1>1
    <3> QED
      BY <1>0, <3>1, <3>2, Zenon
  <2>5. k \in 1..m /\ k + 1 \in 1..m => b(k) < b(k + 1)
    <3>1. k - 1 < k
      OBVIOUS
    <3> QED
      BY <1>1, <2>3, <2>4, <3>1
  <2>6. k = 0 => b(k) = 0
    BY <1>2
  <2>7. k = m => b(k + 1) = Len(s) + 1
    BY <1>2
  <2> QED
    BY <2>1, <2>2, <2>3, <2>4, <2>5, <2>6, <2>7
<1>5. ASSUME NEW k \in 0..m, NEW i \in seps, b(k) < i, i < b(k + 1) PROVE FALSE
  <2>1. k = 0 \/ (k \in 1..m /\ k - 1 < Rank(seps, i))
    <3>1. CASE k \in 1..m
      <4>1. b(k) \in seps /\ Rank(seps, b(k)) = k - 1
        BY <1>3, <3>1
      <4>2. Rank(seps, b(k)) < Rank(seps, i)
        BY <1>1, <1>5, <4>1
      <4> QED
        BY <3>1, <4>1, <4>2
    <3> QED
      BY <1>1, <3>1
  <2>2. k = m \/ (k + 1 \in 1..m /\ Rank(seps, i) < k)
    <3>1. CASE k + 1 \in 1..m
      <4>1. b(k + 1) \in seps /\ Rank(seps, b(k + 1)) = k
        BY <1>3, <3>1
      <4>2. Rank(seps, i) < Rank(seps, b(k + 1))
        BY <1>1, <1>5, <4>1
      <4> QED
        BY <3>1, <4>1, <4>2
    <3> QED
      BY <1>1, <3>1
  <2>3. Rank(seps, i) \in 0..(m - 1)
    BY <1>1
  <2> QED
    BY <1>1, <2>1, <2>2, <2>3
<1> QED
  BY <1>1, <1>2, <1>3, <1>4, <1>5 DEF b, m
-----------------------------------------------------------------------------
(* Looking for a literal part. *)

(* part is in text after its first i characters. *)
LitAt(part, text, i) ==
    i + Len(part) <= Len(text) /\ \A x \in 1..Len(part) : text[i + x] = part[x]

(* What drop leaves of a text begins with part where part is in the text. *)
LEMMA PrefixAt ==
    ASSUME NEW C, NEW part \in Seq(C), NEW s \in Seq(C), NEW i \in 0..Len(s)
    PROVE  /\ Drop(i, s) \in Seq(C) /\ Len(Drop(i, s)) = Len(s) - i
           /\ \A x \in 1..(Len(s) - i) : Drop(i, s)[x] = s[i + x]
           /\ IsPrefix(part, Drop(i, s)) <=> LitAt(part, s, i)
<1> DEFINE d == Drop(i, s)
<1>1. /\ d \in Seq(C) /\ Len(d) = Len(s) - i
      /\ \A x \in 1..(Len(s) - i) : d[x] = s[i + x]
  BY DEF Drop
<1> HIDE DEF d
<1>2. SubSeq(part, 1, Len(part)) = part
  OBVIOUS
<1>3. ASSUME Len(part) <= Len(d)
      PROVE  /\ Len(SubSeq(d, 1, Len(part))) = Len(part)
             /\ SubSeq(d, 1, Len(part)) \in Seq(C)
             /\ \A x \in 1..Len(part) : SubSeq(d, 1, Len(part))[x] = d[x]
  BY <1>1, <1>3
<1>4. ASSUME Len(part) <= Len(d)
      PROVE  part = SubSeq(d, 1, Len(part)) <=> \A x \in 1..Len(part) : d[x] = part[x]
  <2> DEFINE e == SubSeq(d, 1, Len(part))
  <2>1. e \in Seq(C) /\ Len(e) = Len(part) /\ \A x \in 1..Len(part) : e[x] = d[x]
    BY <1>3, <1>4
  <2> HIDE DEF e
  <2>2. part = e <=> \A x \in 1..Len(part) : part[x] = e[x]
    BY <2>1, SeqEqual
  <2> QED
    BY <2>1, <2>2 DEF e
<1>5. Len(part) <= Len(d) <=> i + Len(part) <= Len(s)
  BY <1>1
<1>6. Len(part) <= Len(d) => \A x \in 1..Len(part) : d[x] = s[i + x]
  BY <1>1
<1>7. IsPrefix(part, d) <=> LitAt(part, s, i)
  BY <1>2, <1>4, <1>5, <1>6 DEF IsPrefix, LitAt
<1> QED
  BY <1>1, <1>7 DEF d

(* str::find: the first place, if there is one. *)
LEMMA FindTextFirst ==
    ASSUME NEW C, NEW part \in Seq(C), NEW s \in Seq(C)
    PROVE  /\ FindText(part, s) \in Nat
           /\ FindText(part, s) = 0 => \A i \in 0..Len(s) : ~LitAt(part, s, i)
           /\ FindText(part, s) # 0 =>
                  /\ FindText(part, s) - 1 \in 0..Len(s) /\ LitAt(part, s, FindText(part, s) - 1)
                  /\ \A i \in 0..(FindText(part, s) - 2) : ~LitAt(part, s, i)
<1> DEFINE Here(i) == IsPrefix(part, SubSeq(s, i + 1, Len(s)))
           Places == 0..(Len(s) - Len(part))
           First(i) == Here(i) /\ \A j \in 0..(i - 1) : ~Here(j)
<1>1. \A i \in 0..Len(s) : Here(i) <=> LitAt(part, s, i)
  BY PrefixAt DEF Drop
<1>2. Places \subseteq 0..Len(s) /\ \A i \in 0..Len(s) : LitAt(part, s, i) => i \in Places
  BY DEF LitAt
<1>3. FindText(part, s) = IF \E i \in Places : Here(i) THEN 1 + CHOOSE i \in Places : First(i) ELSE 0
  BY Zenon DEF FindText
<1> HIDE DEF Here, Places
<1>4. CASE ~\E i \in Places : Here(i)
  BY <1>1, <1>2, <1>3, <1>4
<1>5. CASE \E i \in Places : Here(i)
  <2> DEFINE T == {i \in Places : Here(i)}
  <2>0. Places \subseteq Nat
    BY <1>2
  <2>1. T \in SUBSET Nat /\ T # {}
    BY <1>5, <2>0, Zenon
  <2>2. PICK i \in T : \A j \in T : i <= j
    <3> HIDE DEF T
    <3> QED
      BY <2>1, LeastNatural
  <2>3. \A j \in 0..(i - 1) : ~Here(j)
    BY <1>2, <2>2 DEF Places
  <2>4. \E h \in Places : First(h)
    BY <2>2, <2>3
  <2> DEFINE h == CHOOSE h \in Places : First(h)
  <2>5. h \in Places /\ First(h)
    <3> HIDE DEF First
    <3> QED
      BY <2>4
  <2>6. FindText(part, s) = 1 + h
    BY <1>3, <1>5
  <2> HIDE DEF h
  <2>7. h \in 0..Len(s) /\ LitAt(part, s, h)
    BY <1>1, <1>2, <2>5
  <2>8. \A j \in 0..(h - 1) : ~LitAt(part, s, j)
    BY <1>1, <2>5, <2>7
  <2>9. (1 + h) - 1 = h /\ (1 + h) - 2 = h - 1 /\ 1 + h \in Nat /\ 1 + h # 0
    BY <2>7
  <2> QED
    BY <2>6, <2>7, <2>8, <2>9
<1> QED
  BY <1>4, <1>5

(* One part: it is found, at the first place there is, if it is there at all. *)
LEMMA AfterPartFirst ==
    ASSUME NEW C, NEW text \in Seq(C), NEW parts, NEW k \in Nat \ {0}, parts[k] \in Seq(C),
           NEW from \in 1..(Len(text) + 1)
    PROVE  LET r == AfterPart(parts, k, text, from)
               n == Len(parts[k])
           IN  /\ r \in 0..(Len(text) + 1)
               /\ r # 0 => /\ from <= r - n /\ LitAt(parts[k], text, r - n - 1)
                           /\ k = 1 => r - n = from
               /\ \A j \in (from - 1)..Len(text) :
                      LitAt(parts[k], text, j) /\ (k = 1 => j = from - 1)
                          => r # 0 /\ r - n - 1 <= j
<1> DEFINE r == AfterPart(parts, k, text, from)
           part == parts[k]
           n == Len(part)
           c == from - 1
           rest == Drop(c, text)
           find == FindText(part, rest)
           pos == IF k = 1 /\ ~IsPrefix(part, rest) THEN 0 ELSE find
<1>0. n \in Nat /\ c \in 0..Len(text) /\ part \in Seq(C)
  OBVIOUS
<1>1. r = IF pos = 0 THEN 0 ELSE from + pos + n - 1
  BY DEF AfterPart
<1>2. /\ rest \in Seq(C) /\ Len(rest) = Len(text) - c
      /\ \A x \in 1..(Len(text) - c) : rest[x] = text[c + x]
      /\ IsPrefix(part, rest) <=> LitAt(part, text, c)
  BY <1>0, PrefixAt
<1> HIDE DEF rest, part, n, c
<1>3. \A i \in 0..Len(rest) : LitAt(part, rest, i) <=> LitAt(part, text, c + i)
  <2> TAKE i \in 0..Len(rest)
  <2>1. i + n <= Len(rest) <=> (c + i) + n <= Len(text)
    BY <1>0, <1>2
  <2>2. i + n <= Len(rest) => \A x \in 1..n : rest[i + x] = text[(c + i) + x]
    <3> SUFFICES ASSUME i + n <= Len(rest), NEW x \in 1..n PROVE rest[i + x] = text[(c + i) + x]
      OBVIOUS
    <3>1. i + x \in 1..(Len(text) - c) /\ c + (i + x) = (c + i) + x
      BY <1>0, <1>2
    <3> QED
      BY <1>2, <3>1
  <2> QED
    BY <2>1, <2>2 DEF LitAt, n
<1>4. /\ find \in Nat
      /\ find = 0 => \A i \in 0..Len(rest) : ~LitAt(part, rest, i)
      /\ find # 0 => /\ find - 1 \in 0..Len(rest) /\ LitAt(part, rest, find - 1)
                     /\ \A i \in 0..(find - 2) : ~LitAt(part, rest, i)
  BY <1>0, <1>2, FindTextFirst
<1> HIDE DEF find, r
<1>5. r \in 0..(Len(text) + 1)
  <2>1. find # 0 => (find - 1) + n <= Len(rest)
    BY <1>4 DEF LitAt, n
  <2>2. find # 0 => from + find + n - 1 \in 0..(Len(text) + 1)
    BY <1>0, <1>2, <1>4, <2>1 DEF c
  <2> QED
    BY <1>1, <2>2
<1>6. ASSUME r # 0
      PROVE  from <= r - n /\ LitAt(part, text, r - n - 1) /\ (k = 1 => r - n = from)
  <2>1. find # 0 /\ pos = find /\ r = from + find + n - 1
    BY <1>1, <1>6
  <2>2. r - n = from + find - 1 /\ r - n - 1 = c + (find - 1) /\ from <= r - n
    BY <1>0, <1>4, <2>1 DEF c
  <2>3. LitAt(part, text, c + (find - 1))
    BY <1>3, <1>4, <2>1
  <2>4. k = 1 => find = 1
    <3> SUFFICES ASSUME k = 1 PROVE find = 1
      OBVIOUS
    <3>1. LitAt(part, text, c + 0)
      BY <1>0, <1>1, <1>2, <1>6
    <3>2. LitAt(part, rest, 0)
      BY <1>0, <1>2, <1>3, <3>1
    <3> QED
      BY <1>4, <2>1, <3>2
  <2> QED
    BY <2>2, <2>3, <2>4
<1>7. ASSUME NEW j \in (from - 1)..Len(text), LitAt(part, text, j), k = 1 => j = from - 1
      PROVE  r # 0 /\ r - n - 1 <= j
  <2>1. j - c \in 0..Len(rest) /\ c + (j - c) = j
    BY <1>0, <1>2 DEF c
  <2>2. LitAt(part, rest, j - c)
    BY <1>3, <1>7, <2>1
  <2>3. find # 0 /\ find - 1 <= j - c
    BY <1>4, <2>1, <2>2
  <2>4. k = 1 => IsPrefix(part, rest)
    BY <1>2, <1>7 DEF c
  <2>5. r = from + find + n - 1
    BY <1>1, <2>3, <2>4
  <2> QED
    BY <1>0, <1>4, <2>1, <2>3, <2>5 DEF c
<1> QED
  BY <1>5, <1>6, <1>7 DEF r, n, part, c
-----------------------------------------------------------------------------
(* The two recursive functions. *)

(* Rests is what its definition says: the search begins at the first character,
   and goes on from each part that was found. *)
LEMMA RestsStep ==
    ASSUME NEW C, NEW text \in Seq(C), NEW parts, NEW M \in Nat, Len(parts) = M,
           \A k \in 1..M : parts[k] \in Seq(C)
    PROVE  /\ Rests(parts, text) \in [0..M -> 0..(Len(text) + 1)]
           /\ Rests(parts, text)[0] = 1
           /\ \A k \in 1..M : Rests(parts, text)[k] =
                  IF Rests(parts, text)[k - 1] = 0 THEN 0
                  ELSE AfterPart(parts, k, text, Rests(parts, text)[k - 1])
<1> DEFINE S == 0..(Len(text) + 1)
           Def(f) == [k \in 0..Len(parts) |->
                         IF k = 0 THEN 1
                         ELSE IF f[k - 1] = 0 THEN 0 ELSE AfterPart(parts, k, text, f[k - 1])]
           P(f) == f = Def(f)
           step == [k \in 1..M |-> [v \in S |-> IF v = 0 THEN 0 ELSE AfterPart(parts, k, text, v)]]
<1>1. \A k \in 1..M : \A v \in S : v # 0 => AfterPart(parts, k, text, v) \in S
  <2> TAKE k \in 1..M
  <2> TAKE v \in S
  <2> HAVE v # 0
  <2>1. v \in 1..(Len(text) + 1) /\ k \in Nat \ {0} /\ parts[k] \in Seq(C)
    OBVIOUS
  <2> QED
    BY <2>1, AfterPartFirst
<1>2. step \in [1..M -> [S -> S]] /\ 1 \in S
  <2>1. 0 \in S /\ 1 \in S
    OBVIOUS
  <2> HIDE DEF S
  <2> QED
    BY <1>1, <2>1
<1>3. PICK f \in [0..M -> S] : f[0] = 1 /\ \A k \in 1..M : f[k] = step[k][f[k - 1]]
  <2> HIDE DEF S, step, P, Def
  <2>1. \E f \in [0..M -> S] : Iterates(f, M, 1, step)
    BY <1>2, Iteration, Zenon
  <2> QED
    BY <2>1 DEF Iterates
<1>4. \A k \in 1..M : k - 1 \in 0..M
  OBVIOUS
<1>5. \A k \in 1..M : f[k] = IF f[k - 1] = 0 THEN 0 ELSE AfterPart(parts, k, text, f[k - 1])
  <2> HIDE DEF S
  <2> QED
    BY <1>3, <1>4
<1>6. P(f)
  <2>1. \A k \in 0..M : k = 0 \/ k \in 1..M
    OBVIOUS
  <2>2. \A k \in 0..M : f[k] = IF k = 0 THEN 1
                               ELSE IF f[k - 1] = 0 THEN 0 ELSE AfterPart(parts, k, text, f[k - 1])
    <3> TAKE k \in 0..M
    <3>1. CASE k = 0
      BY <1>3, <3>1
    <3>2. CASE k \in 1..M
      BY <1>5, <3>2
    <3> QED
      BY <2>1, <3>1, <3>2
  <2> HIDE DEF S
  <2> QED
    BY <2>2
<1>7. Rests(parts, text) = CHOOSE g : P(g)
  BY DEF Rests
<1>8. P(Rests(parts, text))
  <2> HIDE DEF P
  <2> QED
    BY <1>6, <1>7
<1> DEFINE R == Rests(parts, text)
<1>9. /\ DOMAIN R = 0..M /\ R[0] = 1
      /\ \A k \in 1..M : R[k] = IF R[k - 1] = 0 THEN 0 ELSE AfterPart(parts, k, text, R[k - 1])
  <2>1. R = Def(R)
    BY <1>8
  <2> HIDE DEF R
  <2>2. DOMAIN R = 0..M
    BY <2>1
  <2>3. 0 \in 0..M /\ \A k \in 1..M : k \in 0..M /\ k # 0
    OBVIOUS
  <2>4. \A k \in 0..M : R[k] = IF k = 0 THEN 1
                               ELSE IF R[k - 1] = 0 THEN 0 ELSE AfterPart(parts, k, text, R[k - 1])
    BY <2>1
  <2> QED
    BY <2>2, <2>3, <2>4
<1> HIDE DEF R
<1>10. \A k \in 0..M : R[k] \in S
  <2> DEFINE G == {k \in 0..M : R[k] \in S}
  <2>1. 0 \in G
    BY <1>2, <1>9
  <2>2. ASSUME NEW k \in 1..M, k - 1 \in G PROVE k \in G
    <3>1. R[k - 1] \in S /\ k \in 0..M
      BY <2>2
    <3>2. 0 \in S
      OBVIOUS
    <3> HIDE DEF S
    <3>3. R[k] \in S
      BY <1>1, <1>9, <3>1, <3>2
    <3> QED
      BY <3>1, <3>3
  <2> HIDE DEF G
  <2>3. \A k \in 0..M : k \in G
    BY <2>1, <2>2, UpTo
  <2> QED
    BY <2>3 DEF G
<1>11. R \in [0..M -> S]
  <2>1. R = [k \in 0..M |-> R[k]]
    <3>1. R = Def(R)
      BY <1>8 DEF R
    <3> QED
      BY <3>1
  <2> HIDE DEF S
  <2> QED
    BY <1>10, <2>1
<1> QED
  BY <1>9, <1>11 DEF R

(* How many characters of the text the next one of the pattern may take one to. *)
OneOn(pattern, text, i, at) ==
    IF pattern[i] = "*" THEN {j \in 0..Len(text) : \E h \in at : h <= j}
    ELSE {j \in 1..Len(text) : j - 1 \in at /\ pattern[i] = text[j]}

(* Reached is what its definition says. *)
LEMMA ReachedStep ==
    ASSUME NEW pattern, NEW text, Len(pattern) \in Nat, Len(text) \in Nat
    PROVE  /\ Reached(pattern, text)[0] = {0}
           /\ \A i \in 0..Len(pattern) : Reached(pattern, text)[i] \subseteq 0..Len(text)
           /\ \A i \in 1..Len(pattern) :
                  Reached(pattern, text)[i] = OneOn(pattern, text, i, Reached(pattern, text)[i - 1])
<1> DEFINE S == SUBSET (0..Len(text))
           M == Len(pattern)
           Def(f) == [i \in 0..Len(pattern) |->
                         IF i = 0 THEN {0}
                         ELSE IF pattern[i] = "*" THEN {j \in 0..Len(text) : \E h \in f[i - 1] : h <= j}
                         ELSE {j \in 1..Len(text) : j - 1 \in f[i - 1] /\ pattern[i] = text[j]}]
           P(f) == f = Def(f)
           step == [i \in 1..M |-> [v \in S |-> OneOn(pattern, text, i, v)]]
<1>1. \A i \in 1..M : \A v : OneOn(pattern, text, i, v) \in S
  BY DEF OneOn
<1>2. step \in [1..M -> [S -> S]] /\ {0} \in S
  <2>1. {0} \in S
    OBVIOUS
  <2> HIDE DEF S, M
  <2> QED
    BY <1>1, <2>1
<1>3. PICK f \in [0..M -> S] : f[0] = {0} /\ \A i \in 1..M : f[i] = step[i][f[i - 1]]
  <2>1. M \in Nat
    OBVIOUS
  <2> HIDE DEF S, step, M, P, Def
  <2>2. \E f \in [0..M -> S] : Iterates(f, M, {0}, step)
    BY <1>2, <2>1, Iteration, Zenon
  <2> QED
    BY <2>2 DEF Iterates
<1>4. \A i \in 1..M : i - 1 \in 0..M
  OBVIOUS
<1>5. \A i \in 1..M : f[i] = OneOn(pattern, text, i, f[i - 1])
  <2> HIDE DEF S, M
  <2> QED
    BY <1>3, <1>4
<1>6. P(f)
  <2>1. \A i \in 0..M : i = 0 \/ i \in 1..M
    OBVIOUS
  <2>2. \A i \in 0..M : f[i] = IF i = 0 THEN {0} ELSE OneOn(pattern, text, i, f[i - 1])
    <3> TAKE i \in 0..M
    <3>1. CASE i = 0
      BY <1>3, <3>1
    <3>2. CASE i \in 1..M
      BY <1>5, <3>2
    <3> QED
      BY <2>1, <3>1, <3>2
  <2>3. f = [i \in 0..M |-> IF i = 0 THEN {0} ELSE OneOn(pattern, text, i, f[i - 1])]
    <3> HIDE DEF S, M
    <3> QED
      BY <2>2
  <2> QED
    BY <2>3, Zenon DEF OneOn
<1>7. Reached(pattern, text) = CHOOSE g : P(g)
  BY DEF Reached
<1>8. P(Reached(pattern, text))
  <2> HIDE DEF P
  <2> QED
    BY <1>6, <1>7
<1> DEFINE R == Reached(pattern, text)
<1>9. R = [i \in 0..M |-> IF i = 0 THEN {0} ELSE OneOn(pattern, text, i, R[i - 1])]
  BY <1>8, Zenon DEF OneOn
<1> HIDE DEF R
<1>10. R[0] = {0} /\ \A i \in 1..M : R[i] = OneOn(pattern, text, i, R[i - 1])
  <2>1. 0 \in 0..M /\ \A i \in 1..M : i \in 0..M /\ i # 0
    OBVIOUS
  <2>2. \A i \in 0..M : R[i] = IF i = 0 THEN {0} ELSE OneOn(pattern, text, i, R[i - 1])
    BY <1>9
  <2> QED
    BY <2>1, <2>2
<1>11. \A i \in 0..M : R[i] \subseteq 0..Len(text)
  <2> TAKE i \in 0..M
  <2>1. i = 0 \/ i \in 1..M
    OBVIOUS
  <2> QED
    BY <1>1, <1>10, <2>1
<1> QED
  BY <1>10, <1>11 DEF R
-----------------------------------------------------------------------------
(* The parts of a pattern between its stars. *)

(* Where ch is in s. *)
At(ch, s) == {i \in DOMAIN s : s[i] = ch}

(* parts, in C, are what is between the bars of s at the positions seps, none
   of which is the character ch. *)
Between(parts, C, ch, s, seps) ==
    /\ Cardinality(seps) \in Nat /\ Len(parts) = Cardinality(seps) + 1
    /\ \A k \in 1..(Cardinality(seps) + 1) :
           /\ parts[k] \in Seq(C)
           /\ Bar(s, seps, k - 1) \in 0..Len(s) /\ Bar(s, seps, k) \in 1..(Len(s) + 1)
           /\ Bar(s, seps, k - 1) + Len(parts[k]) = Bar(s, seps, k) - 1
           /\ \A x \in 1..Len(parts[k]) :
                  parts[k][x] = s[Bar(s, seps, k - 1) + x] /\ s[Bar(s, seps, k - 1) + x] # ch

(* SplitOn cuts a text into the parts between the characters it splits on. *)
LEMMA Parts ==
    ASSUME NEW C, NEW s, s \in Seq(C), NEW ch
    PROVE  Between(SplitOn(ch, s), C, ch, s, At(ch, s))
<1> DEFINE seps == At(ch, s)
           m == Cardinality(seps)
           b(k) == Bar(s, seps, k)
           part(k) == SubSeq(s, b(k - 1) + 1, b(k) - 1)
<1>0. seps \in SUBSET (1..Len(s)) /\ Len(s) \in Nat
  BY DEF At
<1> HIDE DEF seps
<1>1. /\ m \in Nat
      /\ \A k \in 0..m : b(k) \in 0..Len(s) /\ b(k + 1) \in 1..(Len(s) + 1) /\ b(k) < b(k + 1)
      /\ \A k \in 0..m : \A i \in seps : ~(b(k) < i /\ i < b(k + 1))
  BY <1>0, Bars
<1> HIDE DEF b, m
<1>2. SplitOn(ch, s) = [k \in 1..(m + 1) |-> part(k)]
  BY DEF SplitOn, Cut, seps, At, b, m
<1>3. Len(SplitOn(ch, s)) = m + 1
  <2>1. m + 1 \in Nat
    BY <1>1
  <2> HIDE DEF part
  <2> QED
    BY <1>2, <2>1
<1>4. ASSUME NEW k \in 1..(m + 1)
      PROVE  /\ part(k) \in Seq(C)
             /\ b(k - 1) \in 0..Len(s) /\ b(k) \in 1..(Len(s) + 1)
             /\ b(k - 1) + Len(part(k)) = b(k) - 1
             /\ \A x \in 1..Len(part(k)) :
                    part(k)[x] = s[b(k - 1) + x] /\ s[b(k - 1) + x] # ch
  <2>1. k - 1 \in 0..m /\ (k - 1) + 1 = k
    BY <1>1
  <2>2. b(k - 1) \in 0..Len(s) /\ b(k) \in 1..(Len(s) + 1) /\ b(k - 1) < b(k)
    BY <1>1, <2>1
  <2>3. \A i \in seps : ~(b(k - 1) < i /\ i < b(k))
    BY <1>1, <2>1
  <2> DEFINE lo == b(k - 1)
             hi == b(k)
  <2> HIDE DEF lo, hi
  <2>4. lo \in 0..Len(s) /\ hi \in 1..(Len(s) + 1) /\ lo < hi
    BY <2>2 DEF lo, hi
  <2>5. /\ SubSeq(s, lo + 1, hi - 1) \in Seq(C)
        /\ Len(SubSeq(s, lo + 1, hi - 1)) = hi - 1 - lo
        /\ \A x \in 1..(hi - 1 - lo) : SubSeq(s, lo + 1, hi - 1)[x] = s[lo + x]
    BY <1>0, <2>4
  <2>6. \A x \in 1..(hi - 1 - lo) : s[lo + x] # ch
    <3> TAKE x \in 1..(hi - 1 - lo)
    <3>1. lo + x \in 1..Len(s) /\ lo < lo + x /\ lo + x < hi
      BY <1>0, <2>4
    <3>2. lo + x \notin seps
      BY <2>3, <3>1 DEF lo, hi
    <3> QED
      BY <3>1, <3>2 DEF seps, At
  <2>7. lo + (hi - 1 - lo) = hi - 1
    BY <1>0, <2>4
  <2> QED
    BY <2>2, <2>5, <2>6, <2>7 DEF lo, hi
<1>5. \A k \in 1..(m + 1) : SplitOn(ch, s)[k] = part(k)
  <2> HIDE DEF part
  <2> QED
    BY <1>2
<1> HIDE DEF part
<1> QED
  BY <1>1, <1>3, <1>4, <1>5 DEF b, m, seps, Between

(* A literal part of a pattern stands for itself. *)
LEMMA LiteralStep ==
    ASSUME NEW C, NEW p \in Seq(C), NEW t \in Seq(C), NEW part \in Seq(C), NEW a \in 0..Len(p),
           a + Len(part) <= Len(p),
           \A x \in 1..Len(part) : part[x] = p[a + x] /\ p[a + x] # "*"
    PROVE  /\ \A i \in Reached(p, t)[a] :
                  LitAt(part, t, i) => i + Len(part) \in Reached(p, t)[a + Len(part)]
           /\ \A j \in Reached(p, t)[a + Len(part)] :
                  j - Len(part) \in Reached(p, t)[a] /\ LitAt(part, t, j - Len(part))
<1> DEFINE R == Reached(p, t)
           n == Len(part)
           Back(k, j) == j - k \in R[a] /\ \A x \in 1..k : t[(j - k) + x] = p[a + x]
           G == {k \in 0..n : \A j \in 0..Len(t) : j \in R[a + k] <=> Back(k, j)}
<1>0. n \in Nat /\ Len(p) \in Nat /\ Len(t) \in Nat
  OBVIOUS
<1>1. /\ \A i \in 0..Len(p) : R[i] \subseteq 0..Len(t)
      /\ \A i \in 1..Len(p) : R[i] = OneOn(p, t, i, R[i - 1])
  BY <1>0, ReachedStep
<1> HIDE DEF R, n
<1>2. 0 \in G
  <2>1. a + 0 = a /\ 0 \in 0..n
    BY <1>0
  <2>2. \A j \in 0..Len(t) : j - 0 = j
    BY <1>0
  <2>3. \A x \in 1..0 : FALSE
    OBVIOUS
  <2> QED
    BY <2>1, <2>2, <2>3
<1>3. ASSUME NEW k \in 1..n, k - 1 \in G PROVE k \in G
  <2>1. a + k \in 1..Len(p) /\ (a + k) - 1 = a + (k - 1) /\ k \in 0..n
    BY <1>0 DEF n
  <2>2. p[a + k] # "*"
    BY DEF n
  <2>3. R[a + k] = {j \in 1..Len(t) : j - 1 \in R[a + (k - 1)] /\ p[a + k] = t[j]}
    BY <1>1, <2>1, <2>2 DEF OneOn
  <2>4. ASSUME NEW j \in 0..Len(t) PROVE j \in R[a + k] <=> Back(k, j)
    <3>1. CASE j = 0
      <4>1. j \notin R[a + k]
        BY <2>3, <3>1
      <4>2. j - k \notin 0..Len(t)
        BY <1>0, <3>1
      <4> QED
        BY <1>1, <4>1, <4>2
    <3>2. CASE j \in 1..Len(t)
      <4>1. j - 1 \in 0..Len(t) /\ (j - 1) - (k - 1) = j - k /\ (j - k) + k = j
        BY <1>0, <3>2
      <4>2. j - 1 \in R[a + (k - 1)] <=> Back(k - 1, j - 1)
        BY <1>3, <4>1
      <4>3. (\A x \in 1..k : t[(j - k) + x] = p[a + x])
                <=> (\A x \in 1..(k - 1) : t[(j - k) + x] = p[a + x]) /\ t[j] = p[a + k]
        <5>1. \A x \in 1..k : x = k \/ x \in 1..(k - 1)
          BY <1>0
        <5>2. k \in 1..k /\ \A x \in 1..(k - 1) : x \in 1..k
          BY <1>0
        <5> QED
          BY <4>1, <5>1, <5>2
      <4> QED
        BY <2>3, <3>2, <4>1, <4>2, <4>3
    <3>3. j = 0 \/ j \in 1..Len(t)
      OBVIOUS
    <3> QED
      BY <3>1, <3>2, <3>3
  <2> QED
    BY <2>1, <2>4
<1> HIDE DEF G, Back
<1>4. \A k \in 0..n : k \in G
  BY <1>0, <1>2, <1>3, UpTo
<1>5. \A j \in 0..Len(t) : j \in R[a + n] <=> Back(n, j)
  BY <1>0, <1>4 DEF G
<1>6. ASSUME NEW i \in R[a], LitAt(part, t, i) PROVE i + n \in R[a + n]
  <2>1. i \in 0..Len(t) /\ i + n \in 0..Len(t) /\ (i + n) - n = i
    BY <1>0, <1>1, <1>6 DEF LitAt, n
  <2>2. Back(n, i + n)
    BY <1>6, <2>1 DEF Back, LitAt, n
  <2> QED
    BY <1>5, <2>1, <2>2
<1>7. ASSUME NEW j \in R[a + n] PROVE j - n \in R[a] /\ LitAt(part, t, j - n)
  <2>1. a + n \in 0..Len(p)
    BY <1>0 DEF n
  <2>2. j \in 0..Len(t)
    BY <1>1, <2>1
  <2>3. Back(n, j)
    BY <1>5, <2>2
  <2>4. (j - n) + n <= Len(t)
    BY <1>0, <2>2
  <2> QED
    BY <2>3, <2>4 DEF Back, LitAt, n
<1> QED
  BY <1>6, <1>7 DEF R, n

(* After a star, what may be reached is whatever is not before what may be
   reached without it. *)
LEMMA StarStep ==
    ASSUME NEW C, NEW p \in Seq(C), NEW t \in Seq(C), NEW i \in 1..Len(p), p[i] = "*"
    PROVE  Reached(p, t)[i] = {j \in 0..Len(t) : \E h \in Reached(p, t)[i - 1] : h <= j}
<1>1. Reached(p, t)[i] = OneOn(p, t, i, Reached(p, t)[i - 1])
  BY ReachedStep
<1> QED
  BY <1>1 DEF OneOn

(* rest is the place after the least of what may be reached, 0 if there is none. *)
LeastReached(rest, reached) ==
    /\ rest # 0 => rest - 1 \in reached
    /\ \A j \in reached : rest # 0 /\ rest - 1 <= j

(* One part is found in the least place it can be. *)
LEMMA PartStep ==
    ASSUME NEW C, NEW p \in Seq(C), NEW t \in Seq(C),
           NEW k \in 1..(Cardinality(At("*", p)) + 1),
           LeastReached(Rests(SplitOn("*", p), t)[k - 1],
                        Reached(p, t)[Bar(p, At("*", p), k - 1)])
    PROVE  /\ LeastReached(Rests(SplitOn("*", p), t)[k],
                           Reached(p, t)[Bar(p, At("*", p), k) - 1])
           /\ Rests(SplitOn("*", p), t)[k] # 0 =>
                  LitAt(SplitOn("*", p)[k], t,
                        Rests(SplitOn("*", p), t)[k] - 1 - Len(SplitOn("*", p)[k]))
<1> DEFINE seps == At("*", p)
           m == Cardinality(seps)
           parts == SplitOn("*", p)
           f == Rests(parts, t)
           R == Reached(p, t)
           a == Bar(p, seps, k - 1)
           z == Bar(p, seps, k)
           part == parts[k]
           n == Len(part)
           r == f[k]
           from == f[k - 1]
<1>1. /\ m \in Nat /\ Len(parts) = m + 1
      /\ \A h \in 1..(m + 1) : parts[h] \in Seq(C)
      /\ a \in 0..Len(p) /\ z \in 1..(Len(p) + 1) /\ a + n = z - 1
      /\ \A x \in 1..n : part[x] = p[a + x] /\ p[a + x] # "*"
  <2>1. Between(parts, C, "*", p, seps)
    BY Parts, Zenon
  <2>2. k \in 1..(m + 1)
    OBVIOUS
  <2> HIDE DEF parts, seps
  <2> QED
    BY <2>1, <2>2 DEF Between
<1>2. /\ f \in [0..(m + 1) -> 0..(Len(t) + 1)] /\ f[0] = 1
      /\ \A h \in 1..(m + 1) : f[h] = IF f[h - 1] = 0 THEN 0 ELSE AfterPart(parts, h, t, f[h - 1])
  <2> DEFINE M == m + 1
  <2>1. M \in Nat /\ Len(parts) = M /\ \A h \in 1..M : parts[h] \in Seq(C)
    BY <1>1
  <2> HIDE DEF M, m, parts
  <2>2. /\ Rests(parts, t) \in [0..M -> 0..(Len(t) + 1)]
        /\ Rests(parts, t)[0] = 1
        /\ \A h \in 1..M : Rests(parts, t)[h] =
               IF Rests(parts, t)[h - 1] = 0 THEN 0
               ELSE AfterPart(parts, h, t, Rests(parts, t)[h - 1])
    BY <2>1, RestsStep
  <2> QED
    BY <2>2 DEF M
<1>3. k \in Nat \ {0} /\ k - 1 \in 0..(m + 1) /\ k \in 0..(m + 1) /\ n \in Nat /\ part \in Seq(C)
      /\ Len(t) \in Nat /\ Len(p) \in Nat /\ a + n \in 0..Len(p) /\ k \in 1..(m + 1)
  BY <1>1
<1>4. k = 1 => a = 0
  BY <1>3 DEF Bar
<1>5. k # 1 => a \in 1..Len(p) /\ p[a] = "*"
  <2> SUFFICES ASSUME k # 1 PROVE a \in 1..Len(p) /\ p[a] = "*"
    OBVIOUS
  <2>1. k - 1 \in 1..m
    BY <1>1
  <2>2. seps \in SUBSET (1..Len(p)) /\ \A i \in seps : p[i] = "*"
    BY DEF At
  <2>3. a \in seps
    <3> HIDE DEF seps
    <3> QED
      BY <1>3, <2>1, <2>2, Bars
  <2> QED
    BY <2>2, <2>3
<1>6. /\ \A i \in R[a] : LitAt(part, t, i) => i + n \in R[a + n]
      /\ \A j \in R[a + n] : j - n \in R[a] /\ LitAt(part, t, j - n)
  <2>1. a + n <= Len(p)
    BY <1>1, <1>3
  <2> HIDE DEF a, part
  <2> QED
    BY <1>1, <1>3, <2>1, LiteralStep
<1>7. R[0] = {0} /\ \A i \in 0..Len(p) : R[i] \subseteq 0..Len(t)
  BY <1>3, ReachedStep
<1>8. \A i \in R[a] : \A j \in 0..Len(t) : i <= j /\ (k = 1 => i = j) => j \in R[a]
  <2>1. CASE k = 1
    BY <2>1
  <2>2. CASE k # 1
    <3>1. R[a] = {j \in 0..Len(t) : \E h \in R[a - 1] : h <= j}
      BY <1>5, <2>2, StarStep
    <3>2. a - 1 \in 0..Len(p)
      BY <1>5, <2>2
    <3>3. R[a - 1] \subseteq 0..Len(t)
      BY <1>7, <3>2
    <3> HIDE DEF R, a
    <3> SUFFICES ASSUME NEW i \in R[a], NEW j \in 0..Len(t), i <= j PROVE j \in R[a]
      OBVIOUS
    <3>4. PICK h \in R[a - 1] : h <= i
      BY <3>1
    <3>5. h <= j
      BY <3>1, <3>3, <3>4
    <3> QED
      BY <3>1, <3>5
  <2> QED
    BY <2>1, <2>2
<1>9. LeastReached(from, R[a])
  OBVIOUS
<1>10. from \in 0..(Len(t) + 1) /\ r \in 0..(Len(t) + 1)
  <2> HIDE DEF f, m
  <2> QED
    BY <1>2, <1>3
<1>11. r = IF from = 0 THEN 0 ELSE AfterPart(parts, k, t, from)
  <2> HIDE DEF f, m
  <2> QED
    BY <1>2, <1>3
<1>12. k = 1 => from = 1
  BY <1>2
<1> HIDE DEF from, r, f, R, a, part, m
<1>13. from # 0 =>
          /\ r # 0 => /\ from <= r - n /\ LitAt(part, t, r - n - 1)
                      /\ k = 1 => r - n = from
          /\ \A j \in (from - 1)..Len(t) :
                 LitAt(part, t, j) /\ (k = 1 => j = from - 1) => r # 0 /\ r - n - 1 <= j
  <2> SUFFICES ASSUME from # 0
               PROVE  /\ r # 0 => /\ from <= r - n /\ LitAt(part, t, r - n - 1)
                                  /\ k = 1 => r - n = from
                      /\ \A j \in (from - 1)..Len(t) :
                             LitAt(part, t, j) /\ (k = 1 => j = from - 1) => r # 0 /\ r - n - 1 <= j
    OBVIOUS
  <2>1. from \in 1..(Len(t) + 1) /\ r = AfterPart(parts, k, t, from) /\ part = parts[k]
    BY <1>10, <1>11 DEF part
  <2> HIDE DEF parts
  <2> QED
    BY <1>3, <2>1, AfterPartFirst
<1>14. ASSUME r # 0 PROVE r - 1 \in R[a + n] /\ LitAt(part, t, r - 1 - n)
  <2>1. from # 0
    BY <1>11, <1>14
  <2>2. from <= r - n /\ LitAt(part, t, r - n - 1) /\ (k = 1 => r - n = from)
    BY <1>13, <1>14, <2>1
  <2>3. from - 1 \in R[a]
    BY <1>9, <2>1 DEF LeastReached
  <2> DEFINE i == r - n - 1
  <2>4. i \in 0..Len(t) /\ from - 1 <= i /\ (k = 1 => from - 1 = i) /\ i + n = r - 1 /\ i = r - 1 - n
    BY <1>3, <1>10, <1>14, <2>1, <2>2
  <2>5. LitAt(part, t, i)
    BY <2>2
  <2> HIDE DEF i
  <2>6. i \in R[a]
    BY <1>8, <2>3, <2>4
  <2> QED
    BY <1>6, <2>4, <2>5, <2>6
<1>15. ASSUME NEW h \in R[a + n] PROVE r # 0 /\ r - 1 <= h
  <2>1. h - n \in R[a] /\ LitAt(part, t, h - n)
    BY <1>6
  <2>2. from # 0 /\ from - 1 <= h - n
    BY <1>9, <2>1 DEF LeastReached
  <2>3. h - n \in 0..Len(t)
    BY <1>1, <1>7, <2>1
  <2>4. h \in 0..Len(t)
    BY <1>3, <1>7
  <2>5. k = 1 => h - n = from - 1
    BY <1>4, <1>7, <1>12, <2>1
  <2>6. h - n \in (from - 1)..Len(t)
    BY <1>3, <1>10, <2>2, <2>3
  <2>7. r # 0 /\ r - n - 1 <= h - n
    BY <1>13, <2>1, <2>2, <2>5, <2>6
  <2> QED
    BY <1>3, <1>10, <2>4, <2>7
<1>16. LeastReached(r, R[a + n])
  BY <1>14, <1>15 DEF LeastReached
<1> QED
  BY <1>1, <1>14, <1>16 DEF r, f, R, a, part

(* After each part, the search is at the least place that may be reached. *)
LEMMA LeastRests ==
    ASSUME NEW C, NEW p \in Seq(C), NEW t \in Seq(C)
    PROVE  \A k \in 0..Cardinality(At("*", p)) :
               LeastReached(Rests(SplitOn("*", p), t)[k], Reached(p, t)[Bar(p, At("*", p), k)])
<1> DEFINE seps == At("*", p)
           m == Cardinality(seps)
           f == Rests(SplitOn("*", p), t)
           R == Reached(p, t)
           G == {k \in 0..m : LeastReached(f[k], R[Bar(p, seps, k)])}
<1>1. Between(SplitOn("*", p), C, "*", p, seps)
  BY Parts, Zenon
<1>2. seps \in SUBSET (1..Len(p)) /\ (\A i \in seps : p[i] = "*") /\ Len(p) \in Nat /\ Len(t) \in Nat
  BY DEF At
<1>3. m \in Nat /\ Bar(p, seps, 0) = 0 /\ \A k \in 1..m : Bar(p, seps, k) \in seps
  <2> HIDE DEF seps
  <2> QED
    BY <1>2, Bars
<1>4. R[0] = {0} /\ \A i \in 0..Len(p) : R[i] \subseteq 0..Len(t)
  BY <1>2, ReachedStep
<1>5. f[0] = 1
  <2> DEFINE parts == SplitOn("*", p)
             M == m + 1
  <2>1. M \in Nat /\ Len(parts) = M /\ \A h \in 1..M : parts[h] \in Seq(C)
    BY <1>1 DEF Between
  <2> HIDE DEF M, m, parts
  <2>2. Rests(parts, t)[0] = 1
    BY <2>1, RestsStep
  <2> QED
    BY <2>2 DEF parts
<1>6. 0 \in G
  BY <1>3, <1>4, <1>5 DEF LeastReached
<1>7. ASSUME NEW k \in 1..m, k - 1 \in G PROVE k \in G
  <2> DEFINE z == Bar(p, seps, k)
  <2>1. k \in 1..(m + 1) /\ k \in 0..m
    BY <1>3
  <2>2. LeastReached(f[k - 1], R[Bar(p, seps, k - 1)])
    BY <1>7
  <2>3. LeastReached(f[k], R[z - 1])
    BY <2>1, <2>2, PartStep
  <2>4. z \in 1..Len(p) /\ p[z] = "*"
    BY <1>2, <1>3
  <2> HIDE DEF z
  <2>5. R[z] = {j \in 0..Len(t) : \E h \in R[z - 1] : h <= j}
    BY <2>4, StarStep
  <2>6. R[z - 1] \subseteq 0..Len(t)
    BY <1>2, <1>4, <2>4
  <2>7. f[k] # 0 => f[k] - 1 \in R[z - 1]
    BY <2>3 DEF LeastReached
  <2> HIDE DEF f, R
  <2>8. f[k] # 0 => f[k] - 1 \in R[z]
    BY <1>2, <2>5, <2>6, <2>7
  <2>9. ASSUME NEW j \in R[z] PROVE f[k] # 0 /\ f[k] - 1 <= j
    <3>1. PICK h \in R[z - 1] : h <= j
      BY <2>5
    <3>2. f[k] # 0 /\ f[k] - 1 <= h
      BY <2>3 DEF LeastReached
    <3>3. j \in 0..Len(t) /\ h \in 0..Len(t) /\ f[k] - 1 \in 0..Len(t)
      BY <2>5, <2>6, <2>7, <3>2
    <3> DEFINE e == f[k] - 1
    <3> HIDE DEF e
    <3>4. e <= h /\ e \in 0..Len(t)
      BY <3>2, <3>3 DEF e
    <3>5. e <= j
      BY <1>2, <3>1, <3>3, <3>4
    <3> QED
      BY <3>2, <3>5 DEF e
  <2>10. LeastReached(f[k], R[z])
    BY <2>8, <2>9 DEF LeastReached
  <2> QED
    BY <2>1, <2>10 DEF z
<1> HIDE DEF G
<1>8. \A k \in 0..m : k \in G
  BY <1>3, <1>6, <1>7, UpTo
<1> QED
  BY <1>8 DEF G

(* wildcard_match, for a pattern with a star and a text of any length over any
   characters: it accepts only what the pattern stands for, and all of it when
   the pattern ends with a star or its last part occurs once in the text. *)
THEOREM WildcardMatchesGlob ==
    ASSUME NEW C, NEW p \in Seq(C), NEW t \in Seq(C), Contains(p, "*")
    PROVE  /\ wildcard_match(p, t) => Glob(p, t)
           /\ /\ Glob(p, t)
              /\ Last(p) = "*" \/ Cardinality(Occurrences(Last(SplitOn("*", p)), t)) = 1
              => wildcard_match(p, t)
<1> DEFINE seps == At("*", p)
           m == Cardinality(seps)
           parts == SplitOn("*", p)
           f == Rests(parts, t)
           R == Reached(p, t)
           part == parts[m + 1]
           n == Len(part)
           r == f[m + 1]
<1>1. Between(parts, C, "*", p, seps)
  BY Parts, Zenon
<1>2. /\ m \in Nat /\ Len(parts) = m + 1 /\ m + 1 \in 1..(m + 1) /\ (m + 1) - 1 = m
      /\ part \in Seq(C) /\ n \in Nat /\ Bar(p, seps, m) + n = Bar(p, seps, m + 1) - 1
      /\ Bar(p, seps, m) \in 0..Len(p)
      /\ \A x \in 1..n : part[x] = p[Bar(p, seps, m) + x] /\ p[Bar(p, seps, m) + x] # "*"
  <2>1. m \in Nat /\ Len(parts) = m + 1 /\ m + 1 \in 1..(m + 1) /\ (m + 1) - 1 = m
    BY <1>1 DEF Between
  <2> DEFINE K == m + 1
  <2> HIDE DEF parts, seps, K
  <2>2. /\ parts[K] \in Seq(C) /\ Bar(p, seps, K - 1) + Len(parts[K]) = Bar(p, seps, K) - 1
        /\ Bar(p, seps, K - 1) \in 0..Len(p)
        /\ \A x \in 1..Len(parts[K]) :
               parts[K][x] = p[Bar(p, seps, K - 1) + x] /\ p[Bar(p, seps, K - 1) + x] # "*"
    <3>1. K \in 1..(m + 1)
      BY <2>1 DEF K
    <3> QED
      BY <1>1, <3>1 DEF Between
  <2>3. K - 1 = m
    BY <2>1 DEF K
  <2>4. Len(parts[K]) \in Nat
    BY <2>2
  <2> QED
    BY <2>1, <2>2, <2>3, <2>4 DEF K
<1>3. Len(p) \in Nat \ {0} /\ Len(t) \in Nat
  BY DEF Contains
<1>4. Bar(p, seps, m + 1) = Len(p) + 1
  BY <1>2 DEF Bar
<1>5. LeastReached(r, R[Len(p)]) /\ (r # 0 => LitAt(part, t, r - 1 - n))
  <2>1. LeastReached(f[(m + 1) - 1], R[Bar(p, seps, (m + 1) - 1)])
    BY <1>2, LeastRests
  <2>2. Bar(p, seps, m + 1) - 1 = Len(p)
    BY <1>3, <1>4
  <2> QED
    BY <1>2, <2>1, <2>2, PartStep
<1>6. wildcard_match(p, t) <=> r # 0 /\ (Last(p) = "*" \/ r = Len(t) + 1)
  BY <1>2 DEF wildcard_match
<1>7. Glob(p, t) <=> Len(t) \in R[Len(p)]
  BY DEF Glob
<1>8. \A i \in 0..Len(p) : R[i] \subseteq 0..Len(t)
  BY <1>3, ReachedStep
<1>9. r # 0 => r - 1 \in R[Len(p)]
  BY <1>5 DEF LeastReached
<1>10. Len(p) \in 0..Len(p) /\ Len(p) \in 1..Len(p)
  BY <1>3
<1>11. Last(p) = p[Len(p)] /\ Last(parts) = part
  BY <1>2 DEF Last
<1>12. \A j \in R[Len(p)] : j - n \in Nat /\ LitAt(part, t, j - n)
  <2> DEFINE a == Bar(p, seps, m)
  <2>1. a \in 0..Len(p) /\ a + Len(part) = Len(p) /\ a + Len(part) <= Len(p)
    BY <1>2, <1>3, <1>4
  <2>2. \A x \in 1..Len(part) : part[x] = p[a + x] /\ p[a + x] # "*"
    BY <1>2
  <2> HIDE DEF a, part
  <2>3. \A j \in Reached(p, t)[a + Len(part)] :
            j - Len(part) \in Reached(p, t)[a] /\ LitAt(part, t, j - Len(part))
    BY <1>2, <2>1, <2>2, LiteralStep
  <2>4. R[a] \subseteq Nat
    BY <1>3, <1>8, <2>1
  <2> QED
    BY <2>1, <2>3, <2>4
<1>13. Last(p) = "*" =>
           Reached(p, t)[Len(p)] = {j \in 0..Len(t) : \E h \in Reached(p, t)[Len(p) - 1] : h <= j}
  <2> SUFFICES ASSUME p[Len(p)] = "*"
               PROVE  Reached(p, t)[Len(p)] =
                          {j \in 0..Len(t) : \E h \in Reached(p, t)[Len(p) - 1] : h <= j}
    BY <1>11
  <2> DEFINE i == Len(p)
  <2>1. i \in 1..Len(p) /\ p[i] = "*"
    BY <1>10
  <2> HIDE DEF i
  <2>2. Reached(p, t)[i] = {j \in 0..Len(t) : \E h \in Reached(p, t)[i - 1] : h <= j}
    BY <2>1, StarStep
  <2> QED
    BY <2>2 DEF i
<1>14. r \in 0..(Len(t) + 1)
  <2> DEFINE M == m + 1
  <2>1. M \in Nat /\ Len(parts) = M /\ \A h \in 1..M : parts[h] \in Seq(C)
    BY <1>1 DEF Between
  <2>2. M \in 0..M
    BY <2>1
  <2> HIDE DEF M, m, parts
  <2>3. Rests(parts, t) \in [0..M -> 0..(Len(t) + 1)]
    BY <2>1, RestsStep
  <2>4. Rests(parts, t)[M] \in 0..(Len(t) + 1)
    BY <2>2, <2>3
  <2> QED
    BY <2>4 DEF M
<1> HIDE DEF r, f, R, part, m
<1>15. CASE Last(p) = "*"
  <2>1. R[Len(p)] = {j \in 0..Len(t) : \E h \in R[Len(p) - 1] : h <= j}
    BY <1>15, <1>13 DEF R
  <2>2. R[Len(p) - 1] \subseteq 0..Len(t) /\ R[Len(p)] \subseteq 0..Len(t)
    BY <1>3, <1>8, <1>10
  <2>3. (\E j \in R[Len(p)] : TRUE) => Len(t) \in R[Len(p)]
    BY <1>3, <2>1, <2>2
  <2>4. Len(t) \in R[Len(p)] <=> r # 0
    BY <1>5, <1>9, <2>3 DEF LeastReached
  <2> QED
    BY <1>6, <1>7, <1>15, <2>4
<1>16. CASE Last(p) # "*"
  <2>1. r = Len(t) + 1 => r - 1 = Len(t)
    BY <1>3
  <2>2. ASSUME Glob(p, t), Cardinality(Occurrences(part, t)) = 1 PROVE r # 0 /\ r = Len(t) + 1
    <3>1. Len(t) \in R[Len(p)]
      BY <1>7, <2>2
    <3>2. r # 0 /\ LitAt(part, t, r - 1 - n) /\ LitAt(part, t, Len(t) - n)
      BY <1>5, <1>12, <3>1 DEF LeastReached
    <3>3. r - 1 \in 0..Len(t)
      BY <1>8, <1>9, <1>10, <3>2
    <3> DEFINE Occ == Occurrences(part, t)
    <3>4. \A i \in Nat : LitAt(part, t, i) => i \in Occ
      <4> TAKE i \in Nat
      <4> HAVE LitAt(part, t, i)
      <4>1. i \in 0..(Len(t) - n) /\ i \in 0..Len(t)
        BY <1>2, <1>3 DEF LitAt
      <4>2. IsPrefix(part, Drop(i, t))
        BY <1>2, <4>1, PrefixAt
      <4> QED
        BY <4>1, <4>2 DEF Occurrences
    <3>5. Len(t) - n \in Nat /\ r - 1 - n \in Nat
      BY <1>9, <1>12, <3>1, <3>2
    <3>6. Len(t) - n \in Occ /\ r - 1 - n \in Occ
      BY <3>2, <3>4, <3>5
    <3>7. Occ \in SUBSET (0..(Len(t) - n))
      BY DEF Occurrences
    <3>8. IsFiniteSet(Occ)
      <4>1. IsFiniteSet(0..(Len(t) - n))
        BY <1>2, <1>3, FS_Interval
      <4> QED
        BY <3>7, <4>1, FS_Subset
    <3>9. PICK o : Occ = {o}
      <4> HIDE DEF Occ
      <4> QED
        BY <2>2, <3>8, FS_Singleton DEF Occ
    <3>10. Len(t) - n = r - 1 - n
      BY <3>6, <3>9
    <3> QED
      BY <1>2, <1>3, <1>14, <3>2, <3>10
  <2> QED
    BY <1>6, <1>7, <1>9, <1>11, <1>16, <2>1, <2>2
<1> QED
  BY <1>15, <1>16

(* The wildcards of the node filter select what they stand for: wildcard_match
   agrees with the reference for every set of characters and every bound. *)
THEOREM WildcardsAreGlobs == Spec => []WildcardIsGlob
<1>1. ASSUME NEW S, NEW n \in Nat, NEW s \in BoundedSeq(S, n) PROVE s \in Seq(S)
  BY DEF BoundedSeq, SeqOf
<1>2. GlobAgrees
  <2> SUFFICES ASSUME NEW p \in Patterns, NEW t \in BoundedSeq(PatternChars, MaxText)
               PROVE  /\ wildcard_match(p, t) => Glob(p, t)
                      /\ /\ Glob(p, t)
                         /\ Last(p) = "*" \/ Cardinality(Occurrences(Last(SplitOn("*", p)), t)) = 1
                         => wildcard_match(p, t)
    BY DEF GlobAgrees
  <2> DEFINE C == PatternChars \cup {"*"}
  <2>1. p \in Seq(C) /\ Contains(p, "*")
    BY <1>1, NodeFilterAssumption DEF Patterns
  <2>2. t \in Seq(C)
    <3>1. t \in Seq(PatternChars)
      BY <1>1, NodeFilterAssumption
    <3> QED
      BY <3>1
  <2> HIDE DEF C
  <2> QED
    BY <2>1, <2>2, WildcardMatchesGlob
<1>3. WildcardIsGlob
  BY <1>2 DEF WildcardIsGlob
<1> QED
  BY <1>3, PTL

-----------------------------------------------------------------------------
(* Texts that are put together and taken apart. *)

(* u and v with the character ch between them. *)
Joined(u, ch, v) == u \o <<ch>> \o v

(* s, in C, is u, ch and v one after the other. *)
IsJoin(s, C, u, ch, v) ==
    /\ s \in Seq(C) /\ Len(s) = Len(u) + 1 + Len(v)
    /\ \A i \in 1..Len(u) : s[i] = u[i]
    /\ s[Len(u) + 1] = ch
    /\ \A i \in 1..Len(v) : s[Len(u) + 1 + i] = v[i]

(* Two texts with a character between them, character by character. *)
LEMMA JoinedText ==
    ASSUME NEW C, NEW u, u \in Seq(C), NEW v, v \in Seq(C), NEW ch, ch \in C
    PROVE  IsJoin(Joined(u, ch, v), C, u, ch, v)
<1> DEFINE w == u \o <<ch>>
<1>1. /\ w \in Seq(C) /\ Len(w) = Len(u) + 1 /\ w[Len(u) + 1] = ch
      /\ \A i \in 1..Len(u) : w[i] = u[i]
  OBVIOUS
<1> HIDE DEF w
<1>2. w \o v \in Seq(C) /\ Len(w \o v) = Len(w) + Len(v)
      /\ (\A i \in 1..Len(w) : (w \o v)[i] = w[i])
      /\ (\A i \in 1..Len(v) : (w \o v)[Len(w) + i] = v[i])
  BY <1>1
<1>3. Joined(u, ch, v) = w \o v
  BY DEF Joined, w
<1> QED
  BY <1>1, <1>2, <1>3 DEF IsJoin

(* Two texts of the same length and the same characters are equal. *)
LEMMA SameText ==
    ASSUME NEW C, NEW s \in Seq(C), NEW r \in Seq(C), Len(s) = Len(r),
           \A i \in 1..Len(s) : s[i] = r[i]
    PROVE  s = r
BY SeqEqual

(* A stretch of a text. *)
LEMMA Stretch ==
    ASSUME NEW C, NEW s \in Seq(C), NEW v \in Seq(C), NEW a \in Nat, a + Len(v) <= Len(s),
           \A i \in 1..Len(v) : s[a + i] = v[i]
    PROVE  SubSeq(s, a + 1, a + Len(v)) = v
<1> DEFINE r == SubSeq(s, a + 1, a + Len(v))
<1>1. r \in Seq(C) /\ Len(r) = Len(v) /\ \A i \in 1..Len(v) : r[i] = s[a + i]
  OBVIOUS
<1> HIDE DEF r
<1>2. r = v
  BY <1>1, SameText
<1> QED
  BY <1>2 DEF r

(* What is before and after the character between two texts. *)
LEMMA TakeApart ==
    ASSUME NEW C, NEW u \in Seq(C), NEW v \in Seq(C), NEW ch \in C
    PROVE  /\ SubSeq(Joined(u, ch, v), 1, Len(u)) = u
           /\ SubSeq(Joined(u, ch, v), Len(u) + 2, Len(Joined(u, ch, v))) = v
           /\ Drop(Len(u) + 1, Joined(u, ch, v)) = v
<1> DEFINE s == Joined(u, ch, v)
<1>1. /\ s \in Seq(C) /\ Len(s) = Len(u) + 1 + Len(v)
      /\ \A i \in 1..Len(u) : s[i] = u[i]
      /\ s[Len(u) + 1] = ch
      /\ \A i \in 1..Len(v) : s[Len(u) + 1 + i] = v[i]
  <2>1. IsJoin(s, C, u, ch, v)
    BY JoinedText, Zenon
  <2> HIDE DEF s
  <2> QED
    BY <2>1 DEF IsJoin
<1> HIDE DEF s
<1>2. SubSeq(s, 0 + 1, 0 + Len(u)) = u
  <2>1. 0 \in Nat /\ 0 + Len(u) <= Len(s) /\ \A i \in 1..Len(u) : s[0 + i] = u[i]
    BY <1>1
  <2> QED
    BY <1>1, <2>1, Stretch
<1>3. SubSeq(s, Len(u) + 1 + 1, Len(u) + 1 + Len(v)) = v
  <2>1. Len(u) + 1 \in Nat /\ Len(u) + 1 + Len(v) <= Len(s)
    BY <1>1
  <2> QED
    BY <1>1, <2>1, Stretch
<1>4. 0 + 1 = 1 /\ 0 + Len(u) = Len(u) /\ Len(u) + 1 + 1 = Len(u) + 2
  OBVIOUS
<1> QED
  BY <1>1, <1>2, <1>3, <1>4 DEF s, Drop

(* str::find of a character: the first place it is in. *)
LEMMA FindCharFirst ==
    ASSUME NEW s, NEW ch, NEW i \in DOMAIN s, DOMAIN s \subseteq Nat \ {0},
           s[i] = ch, \A j \in 1..(i - 1) : s[j] # ch
    PROVE  FindChar(ch, s) = i
<1> DEFINE First(h) == s[h] = ch /\ \A j \in 1..(h - 1) : s[j] # ch
<1>1. FindChar(ch, s) = CHOOSE h \in DOMAIN s : First(h)
  BY DEF FindChar
<1>2. \A h \in DOMAIN s : First(h) => h = i
  <2> SUFFICES ASSUME NEW h \in DOMAIN s, First(h) PROVE h = i
    OBVIOUS
  <2>1. h \in Nat \ {0} /\ i \in Nat \ {0}
    OBVIOUS
  <2>2. ~(h < i) /\ ~(i < h)
    BY <2>1
  <2> QED
    BY <2>1, <2>2
<1>3. First(i)
  OBVIOUS
<1> HIDE DEF First
<1> QED
  BY <1>1, <1>2, <1>3

(* A character that is not there is not found. *)
LEMMA FindCharNone ==
    ASSUME NEW s, NEW ch, \A i \in DOMAIN s : s[i] # ch
    PROVE  FindChar(ch, s) = 0
BY DEF FindChar

(* ch is not in the text s. *)
Free(s, ch) == \A i \in 1..Len(s) : s[i] # ch

(* The character between two texts is found, unless the first one has it too. *)
LEMMA FindCharJoined ==
    ASSUME NEW C, NEW u \in Seq(C), NEW v \in Seq(C), NEW ch \in C, Free(u, ch)
    PROVE  FindChar(ch, Joined(u, ch, v)) = Len(u) + 1
<1> DEFINE s == Joined(u, ch, v)
           i == Len(u) + 1
<1>1. s \in Seq(C) /\ Len(s) = Len(u) + 1 + Len(v) /\ s[i] = ch /\ \A j \in 1..Len(u) : s[j] = u[j]
  <2>1. IsJoin(s, C, u, ch, v)
    BY JoinedText, Zenon
  <2> HIDE DEF s
  <2> QED
    BY <2>1 DEF IsJoin
<1> HIDE DEF s
<1>2. i \in DOMAIN s /\ DOMAIN s \subseteq Nat \ {0} /\ i - 1 = Len(u)
  BY <1>1
<1>3. \A j \in 1..(i - 1) : s[j] # ch
  BY <1>1, <1>2 DEF Free
<1> HIDE DEF i
<1>4. FindChar(ch, s) = i
  BY <1>1, <1>2, <1>3, FindCharFirst
<1> QED
  BY <1>4 DEF s, i

-----------------------------------------------------------------------------
(* Splitting and trimming. *)

(* Without a separator there is one part. *)
LEMMA CutNone ==
    ASSUME NEW C, NEW s \in Seq(C)
    PROVE  ToSet(Cut(s, {})) = {s}
<1>1. Cardinality({}) = 0
  BY FS_EmptySet
<1>2. Bar(s, {}, 0) = 0 /\ Bar(s, {}, 1) = Len(s) + 1
  BY <1>1 DEF Bar
<1>3. Cut(s, {}) = [k \in 1..1 |-> SubSeq(s, Bar(s, {}, k - 1) + 1, Bar(s, {}, k) - 1)]
  BY <1>1 DEF Cut
<1>4. DOMAIN Cut(s, {}) = {1}
  BY <1>3
<1>5. SubSeq(s, 0 + 1, (Len(s) + 1) - 1) = s
  OBVIOUS
<1>6. Cut(s, {})[1] = s
  <2>1. Cut(s, {})[1] = SubSeq(s, Bar(s, {}, 0) + 1, Bar(s, {}, 1) - 1)
    BY <1>3
  <2> QED
    BY <1>2, <1>5, <2>1
<1> QED
  BY <1>4, <1>6 DEF ToSet

(* With one separator there are the text before it and the text after it. *)
LEMMA CutOne ==
    ASSUME NEW C, NEW u \in Seq(C), NEW v \in Seq(C), NEW ch \in C
    PROVE  ToSet(Cut(Joined(u, ch, v), {Len(u) + 1})) = {u, v}
<1> DEFINE s == Joined(u, ch, v)
           i == Len(u) + 1
           seps == {i}
<1>0. i \in Nat /\ s \in Seq(C) /\ Len(s) = Len(u) + 1 + Len(v)
  <2>1. IsJoin(s, C, u, ch, v)
    BY JoinedText, Zenon
  <2> HIDE DEF s
  <2> QED
    BY <2>1 DEF IsJoin
<1>1. Cardinality(seps) = 1
  BY FS_Singleton
<1>2. SubSeq(s, 1, Len(u)) = u /\ SubSeq(s, Len(u) + 2, Len(s)) = v
  BY TakeApart
<1>3. i - 1 = Len(u) /\ i + 1 = Len(u) + 2 /\ 0 + 1 = 1 /\ (Len(s) + 1) - 1 = Len(s)
  BY <1>0
<1> HIDE DEF s, i
<1>4. {j \in seps : j < i} = {}
  BY <1>0
<1>5. Bar(s, seps, 1) = i
  <2>1. Cardinality({j \in seps : j < i}) = 0
    BY <1>4, FS_EmptySet
  <2>2. \A h \in seps : h = i
    OBVIOUS
  <2>3. Bar(s, seps, 1) = CHOOSE h \in seps : Cardinality({j \in seps : j < h}) = 1 - 1
    <3>1. 1 # 0 /\ ~(1 > Cardinality(seps))
      BY <1>1
    <3> QED
      BY <3>1, Zenon DEF Bar
  <2>4. \E h \in seps : Cardinality({j \in seps : j < h}) = 1 - 1
    BY <2>1
  <2> HIDE DEF seps
  <2>5. Bar(s, seps, 1) \in seps
    BY <2>3, <2>4
  <2> QED
    BY <2>2, <2>5
<1>6. Bar(s, seps, 0) = 0 /\ Bar(s, seps, 2) = Len(s) + 1
  BY <1>1 DEF Bar
<1> DEFINE c == Cut(s, seps)
<1>7. c = [k \in 1..2 |-> SubSeq(s, Bar(s, seps, k - 1) + 1, Bar(s, seps, k) - 1)]
  BY <1>1 DEF Cut
<1> HIDE DEF c, seps
<1>8. DOMAIN c = {1, 2}
  BY <1>7
<1>12. \A k \in 1..2 : c[k] = SubSeq(s, Bar(s, seps, k - 1) + 1, Bar(s, seps, k) - 1)
  BY <1>7
<1>13. 1 \in 1..2 /\ 2 \in 1..2 /\ 1 - 1 = 0 /\ 2 - 1 = 1
  OBVIOUS
<1>9. c[1] = u
  <2>1. c[1] = SubSeq(s, Bar(s, seps, 0) + 1, Bar(s, seps, 1) - 1)
    BY <1>12, <1>13
  <2> QED
    BY <1>2, <1>3, <1>5, <1>6, <2>1
<1>10. c[2] = v
  <2>1. c[2] = SubSeq(s, Bar(s, seps, 1) + 1, Bar(s, seps, 2) - 1)
    BY <1>12, <1>13
  <2> QED
    BY <1>2, <1>3, <1>5, <1>6, <2>1
<1>11. ToSet(c) = {u, v}
  BY <1>8, <1>9, <1>10 DEF ToSet
<1> QED
  BY <1>11 DEF c, s, seps, i

(* str::split of a text without the character: the text. *)
LEMMA SplitFree ==
    ASSUME NEW C, NEW s \in Seq(C), NEW ch, Free(s, ch)
    PROVE  ToSet(SplitOn(ch, s)) = {s}
<1>1. {i \in DOMAIN s : s[i] = ch} = {}
  BY DEF Free
<1> QED
  BY <1>1, CutNone DEF SplitOn

(* str::split of a text with the character once: what is before and after it. *)
LEMMA SplitJoined ==
    ASSUME NEW C, NEW u \in Seq(C), NEW v \in Seq(C), NEW ch \in C, Free(u, ch), Free(v, ch)
    PROVE  ToSet(SplitOn(ch, Joined(u, ch, v))) = {u, v}
<1> DEFINE s == Joined(u, ch, v)
<1>1. /\ s \in Seq(C) /\ Len(s) = Len(u) + 1 + Len(v)
      /\ \A i \in 1..Len(u) : s[i] = u[i]
      /\ s[Len(u) + 1] = ch
      /\ \A i \in 1..Len(v) : s[Len(u) + 1 + i] = v[i]
  <2>1. IsJoin(s, C, u, ch, v)
    BY JoinedText, Zenon
  <2> HIDE DEF s
  <2> QED
    BY <2>1 DEF IsJoin
<1> HIDE DEF s
<1>2. {i \in DOMAIN s : s[i] = ch} = {Len(u) + 1}
  <2>1. \A i \in DOMAIN s : i \in 1..Len(u) \/ i = Len(u) + 1
                            \/ (i - (Len(u) + 1) \in 1..Len(v) /\ i = Len(u) + 1 + (i - (Len(u) + 1)))
    BY <1>1
  <2>2. ASSUME NEW i \in DOMAIN s, s[i] = ch PROVE i = Len(u) + 1
    <3>1. CASE i \in 1..Len(u)
      BY <1>1, <2>2, <3>1 DEF Free
    <3>2. CASE i - (Len(u) + 1) \in 1..Len(v) /\ i = Len(u) + 1 + (i - (Len(u) + 1))
      <4> DEFINE j == i - (Len(u) + 1)
      <4>1. j \in 1..Len(v) /\ s[Len(u) + 1 + j] = ch
        BY <2>2, <3>2
      <4> HIDE DEF j
      <4> QED
        BY <1>1, <4>1 DEF Free
    <3> QED
      BY <2>1, <3>1, <3>2
  <2>3. Len(u) + 1 \in DOMAIN s
    BY <1>1
  <2> QED
    BY <1>1, <2>2, <2>3
<1> QED
  BY <1>2, CutOne DEF SplitOn, s

(* str::trim of a text that neither begins nor ends with a blank, alone or
   after a blank. *)
LEMMA TrimText ==
    ASSUME NEW C, NEW s \in Seq(C), s # <<>>, s[1] # Space, s[Len(s)] # Space, Space \in C
    PROVE  Trim(s) = s /\ Trim(<<Space>> \o s) = s
<1> DEFINE Ink(w) == {i \in DOMAIN w : w[i] # Space}
<1>0. Len(s) \in Nat \ {0}
  OBVIOUS
<1>1. ASSUME NEW w \in Seq(C), NEW a \in Nat, NEW z \in Nat, a \in Ink(w), z \in Ink(w),
             \A i \in Ink(w) : a <= i /\ i <= z
      PROVE  Trim(w) = SubSeq(w, a, z)
  <2>0. Ink(w) \subseteq Nat
    OBVIOUS
  <2>1. Trim(w) = SubSeq(w, CHOOSE i \in Ink(w) : \A j \in Ink(w) : i <= j,
                            CHOOSE i \in Ink(w) : \A j \in Ink(w) : j <= i)
    <3>1. Ink(w) # {}
      BY <1>1
    <3> QED
      BY <3>1, Zenon DEF Trim
  <2> HIDE DEF Ink
  <2>2. (CHOOSE i \in Ink(w) : \A j \in Ink(w) : i <= j) = a
    <3>1. \A i \in Ink(w) : (\A j \in Ink(w) : i <= j) => i = a
      BY <1>1, <2>0
    <3>2. \A j \in Ink(w) : a <= j
      BY <1>1
    <3> QED
      BY <1>1, <3>1, <3>2
  <2>3. (CHOOSE i \in Ink(w) : \A j \in Ink(w) : j <= i) = z
    <3>1. \A i \in Ink(w) : (\A j \in Ink(w) : j <= i) => i = z
      BY <1>1, <2>0
    <3>2. \A j \in Ink(w) : j <= z
      BY <1>1
    <3> QED
      BY <1>1, <3>1, <3>2
  <2> QED
    BY <2>1, <2>2, <2>3
<1>2. Trim(s) = s
  <2>1. /\ 1 \in Nat /\ Len(s) \in Nat /\ 1 \in Ink(s) /\ Len(s) \in Ink(s)
        /\ \A i \in Ink(s) : 1 <= i /\ i <= Len(s)
    BY <1>0
  <2>2. Trim(s) = SubSeq(s, 1, Len(s))
    <3> HIDE DEF Ink
    <3> QED
      BY <1>1, <2>1
  <2> QED
    BY <2>2
<1>3. Trim(<<Space>> \o s) = s
  <2> DEFINE w == <<Space>> \o s
             z == Len(s) + 1
  <2>1. /\ w \in Seq(C) /\ Len(w) = Len(s) + 1 /\ w[1] = Space
        /\ \A i \in 1..Len(s) : w[1 + i] = s[i]
    OBVIOUS
  <2> HIDE DEF w
  <2>2. w[2] = s[1] /\ w[z] = s[Len(s)]
    <3>1. 1 \in 1..Len(s) /\ Len(s) \in 1..Len(s) /\ 1 + 1 = 2 /\ 1 + Len(s) = z
      BY <1>0
    <3> QED
      BY <2>1, <3>1
  <2>3. /\ 2 \in Nat /\ z \in Nat /\ 2 \in Ink(w) /\ z \in Ink(w)
        /\ \A i \in Ink(w) : 2 <= i /\ i <= z
    BY <1>0, <2>1, <2>2
  <2>4. Trim(w) = SubSeq(w, 2, z)
    <3> HIDE DEF Ink, z
    <3> QED
      BY <1>1, <2>1, <2>3
  <2>5. SubSeq(w, 1 + 1, 1 + Len(s)) = s
    <3>1. 1 \in Nat /\ 1 + Len(s) <= Len(w)
      BY <1>0, <2>1
    <3> QED
      BY <2>1, <3>1, Stretch
  <2>6. 1 + 1 = 2 /\ 1 + Len(s) = z
    BY <1>0
  <2> QED
    BY <2>4, <2>5, <2>6 DEF w
<1> QED
  BY <1>2, <1>3

-----------------------------------------------------------------------------
(* Brackets and numbers. *)

(* The depth after the i-th character, from the depth before it. *)
DepthOn(raw, i, d) ==
    CASE raw[i] = "[" -> d + 1
      [] raw[i] = "]" /\ d > 0 -> d - 1
      [] OTHER -> d

(* Depths is what its definition says. *)
LEMMA DepthsStep ==
    ASSUME NEW raw, Len(raw) \in Nat
    PROVE  /\ Depths(raw)[0] = 0
           /\ \A i \in 1..Len(raw) : Depths(raw)[i] = DepthOn(raw, i, Depths(raw)[i - 1])
<1> DEFINE M == Len(raw)
           Def(f) == [i \in 0..Len(raw) |->
                         IF i = 0 THEN 0
                         ELSE CASE raw[i] = "[" -> f[i - 1] + 1
                                [] raw[i] = "]" /\ f[i - 1] > 0 -> f[i - 1] - 1
                                [] OTHER -> f[i - 1]]
           P(f) == f = Def(f)
           step == [i \in 1..M |-> [d \in Nat |-> DepthOn(raw, i, d)]]
<1>1. \A i \in 1..M : \A d \in Nat : DepthOn(raw, i, d) \in Nat
  BY DEF DepthOn
<1>2. step \in [1..M -> [Nat -> Nat]] /\ 0 \in Nat /\ M \in Nat
  BY <1>1
<1>3. PICK f \in [0..M -> Nat] : f[0] = 0 /\ \A i \in 1..M : f[i] = step[i][f[i - 1]]
  <2> HIDE DEF step, M, P, Def
  <2>1. \E f \in [0..M -> Nat] : Iterates(f, M, 0, step)
    BY <1>2, Iteration, Zenon
  <2> QED
    BY <2>1 DEF Iterates
<1>4. \A i \in 1..M : i - 1 \in 0..M
  OBVIOUS
<1>5. \A i \in 1..M : f[i] = DepthOn(raw, i, f[i - 1])
  <2> HIDE DEF M
  <2> QED
    BY <1>3, <1>4
<1>6. P(f)
  <2>1. \A i \in 0..M : i = 0 \/ i \in 1..M
    OBVIOUS
  <2>2. \A i \in 0..M : f[i] = IF i = 0 THEN 0 ELSE DepthOn(raw, i, f[i - 1])
    <3> TAKE i \in 0..M
    <3>1. CASE i = 0
      BY <1>3, <3>1
    <3>2. CASE i \in 1..M
      BY <1>5, <3>2
    <3> QED
      BY <2>1, <3>1, <3>2
  <2>3. f = [i \in 0..M |-> IF i = 0 THEN 0 ELSE DepthOn(raw, i, f[i - 1])]
    <3> HIDE DEF M
    <3> QED
      BY <2>2
  <2> QED
    BY <2>3, Zenon DEF DepthOn
<1>7. Depths(raw) = CHOOSE g : P(g)
  BY DEF Depths
<1>8. P(Depths(raw))
  <2> HIDE DEF P
  <2> QED
    BY <1>6, <1>7
<1> DEFINE R == Depths(raw)
<1>9. R = [i \in 0..M |-> IF i = 0 THEN 0 ELSE DepthOn(raw, i, R[i - 1])]
  BY <1>8, Zenon DEF DepthOn
<1> HIDE DEF R
<1>10. 0 \in 0..M /\ \A i \in 1..M : i \in 0..M /\ i # 0
  OBVIOUS
<1>11. \A i \in 0..M : R[i] = IF i = 0 THEN 0 ELSE DepthOn(raw, i, R[i - 1])
  BY <1>9
<1> QED
  BY <1>10, <1>11 DEF R

(* The brackets of raw are at o1 and c1 and at o2 and c2; where o = c there is
   none. *)
BracketsAt(raw, o1, c1, o2, c2) ==
    /\ 1 <= o1 /\ o1 <= c1 /\ c1 < o2 /\ o2 <= c2
    /\ \A i \in 1..Len(raw) : /\ raw[i] = "[" <=> (o1 < c1 /\ i = o1) \/ (o2 < c2 /\ i = o2)
                              /\ raw[i] = "]" <=> (o1 < c1 /\ i = c1) \/ (o2 < c2 /\ i = c2)

(* The depth is one inside the brackets and nothing outside. *)
LEMMA DepthOfBrackets ==
    ASSUME NEW raw, Len(raw) \in Nat,
           NEW o1 \in Nat, NEW c1 \in Nat, NEW o2 \in Nat, NEW c2 \in Nat,
           BracketsAt(raw, o1, c1, o2, c2)
    PROVE  \A i \in 0..Len(raw) :
               Depths(raw)[i] = IF (o1 <= i /\ i < c1) \/ (o2 <= i /\ i < c2) THEN 1 ELSE 0
<1> DEFINE D(i) == IF (o1 <= i /\ i < c1) \/ (o2 <= i /\ i < c2) THEN 1 ELSE 0
           R == Depths(raw)
           G == {i \in 0..Len(raw) : R[i] = D(i)}
<1>1. R[0] = 0 /\ \A i \in 1..Len(raw) : R[i] = DepthOn(raw, i, R[i - 1])
  BY DepthsStep
<1> HIDE DEF R
<1>2. 0 \in G
  BY <1>1 DEF BracketsAt
<1>3. ASSUME NEW i \in 1..Len(raw), i - 1 \in G PROVE i \in G
  <2>1. R[i] = DepthOn(raw, i, D(i - 1))
    BY <1>1, <1>3
  <2>2. /\ raw[i] = "[" <=> (o1 < c1 /\ i = o1) \/ (o2 < c2 /\ i = o2)
        /\ raw[i] = "]" <=> (o1 < c1 /\ i = c1) \/ (o2 < c2 /\ i = c2)
        /\ 1 <= o1 /\ o1 <= c1 /\ c1 < o2 /\ o2 <= c2
    BY DEF BracketsAt
  <2>3. DepthOn(raw, i, D(i - 1)) = D(i)
    <3>1. CASE raw[i] = "["
      <4>1. D(i - 1) = 0 /\ D(i) = 1
        BY <2>2, <3>1
      <4> HIDE DEF D
      <4> QED
        BY <3>1, <4>1 DEF DepthOn
    <3>2. CASE raw[i] = "]"
      <4>1. D(i - 1) = 1 /\ D(i) = 0
        BY <2>2, <3>2
      <4> HIDE DEF D
      <4> QED
        BY <3>2, <4>1 DEF DepthOn
    <3>3. CASE raw[i] # "[" /\ raw[i] # "]"
      <4>1. D(i - 1) = D(i)
        BY <2>2, <3>3
      <4> HIDE DEF D
      <4> QED
        BY <3>3, <4>1 DEF DepthOn
    <3> QED
      BY <3>1, <3>2, <3>3
  <2> QED
    BY <2>1, <2>3
<1> HIDE DEF G
<1>4. \A i \in 0..Len(raw) : i \in G
  BY <1>2, <1>3, UpTo
<1> QED
  BY <1>4 DEF G, R

(* Numbers is what its definition says, for texts of digits. *)
LEMMA NumbersStep ==
    ASSUME NEW s, Len(s) \in Nat, \A i \in 1..Len(s) : FindChar(s[i], Digits) \in Int
    PROVE  /\ Numbers(s)[0] = 0
           /\ \A i \in 1..Len(s) :
                  Numbers(s)[i] = 10 * Numbers(s)[i - 1] + FindChar(s[i], Digits) - 1
<1> DEFINE M == Len(s)
           Next1(i, d) == 10 * d + FindChar(s[i], Digits) - 1
           Def(f) == [i \in 0..Len(s) |->
                         IF i = 0 THEN 0 ELSE 10 * f[i - 1] + FindChar(s[i], Digits) - 1]
           P(f) == f = Def(f)
           step == [i \in 1..M |-> [d \in Int |-> Next1(i, d)]]
<1>1. \A i \in 1..M : \A d \in Int : Next1(i, d) \in Int
  OBVIOUS
<1>2. step \in [1..M -> [Int -> Int]] /\ 0 \in Int /\ M \in Nat
  <2> HIDE DEF Next1
  <2> QED
    BY <1>1
<1>3. PICK f \in [0..M -> Int] : f[0] = 0 /\ \A i \in 1..M : f[i] = step[i][f[i - 1]]
  <2> HIDE DEF step, M, P, Def
  <2>1. \E f \in [0..M -> Int] : Iterates(f, M, 0, step)
    BY <1>2, Iteration, Zenon
  <2> QED
    BY <2>1 DEF Iterates
<1>4. \A i \in 1..M : i - 1 \in 0..M
  OBVIOUS
<1>5. \A i \in 1..M : f[i] = Next1(i, f[i - 1])
  <2> HIDE DEF M, Next1
  <2> QED
    BY <1>3, <1>4
<1>6. P(f)
  <2>1. \A i \in 0..M : i = 0 \/ i \in 1..M
    OBVIOUS
  <2>2. \A i \in 0..M : f[i] = IF i = 0 THEN 0 ELSE Next1(i, f[i - 1])
    <3> TAKE i \in 0..M
    <3> HIDE DEF Next1
    <3>1. CASE i = 0
      BY <1>3, <3>1
    <3>2. CASE i \in 1..M
      BY <1>5, <3>2
    <3> QED
      BY <2>1, <3>1, <3>2
  <2>3. f = [i \in 0..M |-> IF i = 0 THEN 0 ELSE Next1(i, f[i - 1])]
    <3> HIDE DEF M, Next1
    <3> QED
      BY <2>2
  <2> QED
    BY <2>3, Zenon
<1>7. Numbers(s) = CHOOSE g : P(g)
  BY DEF Numbers
<1>8. P(Numbers(s))
  <2> HIDE DEF P
  <2> QED
    BY <1>6, <1>7
<1> DEFINE R == Numbers(s)
<1>9. R = [i \in 0..M |-> IF i = 0 THEN 0 ELSE Next1(i, R[i - 1])]
  BY <1>8, Zenon
<1> HIDE DEF R
<1>10. 0 \in 0..M /\ \A i \in 1..M : i \in 0..M /\ i # 0
  OBVIOUS
<1>11. \A i \in 0..M : R[i] = IF i = 0 THEN 0 ELSE Next1(i, R[i - 1])
  <2> HIDE DEF Next1
  <2> QED
    BY <1>9
<1> QED
  BY <1>10, <1>11 DEF R

(* The characters of filters. *)
Chars == STRING \cup ToSet(Digits) \cup {"[", "]", Comma, "-", Space}
(* The characters that separate something. *)
Separators == {"[", "]", Comma, "-", Space}

(* The separators are different characters. *)
LEMMA DistinctSeparators ==
    /\ Space \notin {"[", "]", Comma, "-"} /\ Comma \notin {"[", "]", "-"}
    /\ Space \notin {"0", "1", "2", "3", "4", "5", "6", "7", "8", "9"}
    /\ Comma \notin {"0", "1", "2", "3", "4", "5", "6", "7", "8", "9"}
BY Zenon DEF Space, Comma

(* The digits are different characters, and none is a separator. *)
LEMMA DigitText ==
    /\ DOMAIN Digits = 1..10
    /\ \A a \in 1..10 : Digits[a] \in Chars /\ Digits[a] \in ToSet(Digits) /\ Digits[a] \notin Separators
    /\ \A a \in 0..9 : FindChar(Digits[a + 1], Digits) = a + 1
<1>1. DOMAIN Digits = 1..10
  BY DEF Digits
<1>2. \A a \in 1..10 : Digits[a] \in ToSet(Digits)
  BY <1>1 DEF ToSet
<1>3. \A a, b \in 1..10 : Digits[a] = Digits[b] => a = b
  BY DEF Digits
<1>4. \A a \in 1..10 : Digits[a] \in {"0", "1", "2", "3", "4", "5", "6", "7", "8", "9"}
  BY DEF Digits
<1>5. \A d \in {"0", "1", "2", "3", "4", "5", "6", "7", "8", "9"} : d \notin {"[", "]", "-"}
  OBVIOUS
<1>6. \A a \in 1..10 : Digits[a] \notin Separators
  BY <1>4, <1>5, DistinctSeparators, Zenon DEF Separators
<1>7. ASSUME NEW a \in 0..9 PROVE FindChar(Digits[a + 1], Digits) = a + 1
  <2> DEFINE i == a + 1
             ch == Digits[i]
  <2>1. i \in 1..10 /\ \A j \in 1..(i - 1) : j \in 1..10 /\ j # i
    OBVIOUS
  <2>2. i \in DOMAIN Digits /\ DOMAIN Digits \subseteq Nat \ {0} /\ Digits[i] = ch
        /\ \A j \in 1..(i - 1) : Digits[j] # ch
    BY <1>1, <1>3, <2>1
  <2> HIDE DEF i, ch
  <2>3. FindChar(ch, Digits) = i
    BY <2>2, FindCharFirst
  <2> QED
    BY <2>3 DEF i, ch
<1> QED
  BY <1>1, <1>2, <1>6, <1>7 DEF Chars

(* The number that one or two digits are. *)
LEMMA NumberOfDigits ==
    ASSUME NEW a \in 0..9, NEW b \in 0..9
    PROVE  /\ Number(<<Digits[a + 1]>>) = a /\ IsNumber(<<Digits[a + 1]>>)
           /\ Number(<<Digits[a + 1], Digits[b + 1]>>) = 10 * a + b
           /\ IsNumber(<<Digits[a + 1], Digits[b + 1]>>)
<1> DEFINE x == Digits[a + 1]
           y == Digits[b + 1]
<1>1. /\ FindChar(x, Digits) = a + 1 /\ FindChar(y, Digits) = b + 1
      /\ x \in ToSet(Digits) /\ y \in ToSet(Digits)
  BY DigitText
<1> HIDE DEF x, y
<1>2. Number(<<x>>) = a
  <2> DEFINE s == <<x>>
  <2>1. Len(s) = 1 /\ s[1] = x
    OBVIOUS
  <2> HIDE DEF s
  <2>2. Numbers(s)[0] = 0 /\ \A i \in 1..Len(s) :
            Numbers(s)[i] = 10 * Numbers(s)[i - 1] + FindChar(s[i], Digits) - 1
    <3>1. Len(s) \in Nat /\ \A i \in 1..Len(s) : FindChar(s[i], Digits) \in Int
      BY <1>1, <2>1
    <3> QED
      BY <3>1, NumbersStep
  <2>3. Numbers(s)[1] = 10 * Numbers(s)[0] + FindChar(s[1], Digits) - 1
    <3>1. 1 \in 1..Len(s) /\ 1 - 1 = 0
      BY <2>1
    <3> QED
      BY <2>2, <3>1
  <2>4. Numbers(s)[1] = a
    BY <1>1, <2>1, <2>2, <2>3
  <2> QED
    BY <2>1, <2>4 DEF Number, s
<1>3. Number(<<x, y>>) = 10 * a + b
  <2> DEFINE s == <<x, y>>
  <2>1. Len(s) = 2 /\ s[1] = x /\ s[2] = y
    OBVIOUS
  <2> HIDE DEF s
  <2>2. Numbers(s)[0] = 0 /\ \A i \in 1..Len(s) :
            Numbers(s)[i] = 10 * Numbers(s)[i - 1] + FindChar(s[i], Digits) - 1
    <3>1. Len(s) \in Nat
      BY <2>1
    <3>2. \A i \in 1..Len(s) : i = 1 \/ i = 2
      BY <2>1
    <3>3. \A i \in 1..Len(s) : FindChar(s[i], Digits) \in Int
      BY <1>1, <2>1, <3>2
    <3> QED
      BY <3>1, <3>3, NumbersStep
  <2>3. /\ Numbers(s)[1] = 10 * Numbers(s)[0] + FindChar(s[1], Digits) - 1
        /\ Numbers(s)[2] = 10 * Numbers(s)[1] + FindChar(s[2], Digits) - 1
    <3>1. 1 \in 1..Len(s) /\ 1 - 1 = 0 /\ 2 \in 1..Len(s) /\ 2 - 1 = 1
      BY <2>1
    <3> QED
      BY <2>2, <3>1
  <2>4. Numbers(s)[1] = a
    BY <1>1, <2>1, <2>2, <2>3
  <2>5. Numbers(s)[2] = 10 * a + b
    BY <1>1, <2>1, <2>3, <2>4
  <2> QED
    BY <2>1, <2>5 DEF Number, s
<1>4. IsNumber(<<x>>) /\ IsNumber(<<x, y>>)
  <2>1. ToSet(<<x>>) = {x} /\ ToSet(<<x, y>>) = {x, y}
    BY DEF ToSet
  <2> QED
    BY <1>1, <2>1 DEF IsNumber
<1> QED
  BY <1>2, <1>3, <1>4 DEF x, y

(* A number of up to two digits, written with at least one or two of them. *)
LEMMA PaddedText ==
    ASSUME NEW n \in 0..99, NEW w \in 1..2
    PROVE  /\ Padded(n, w) \in Seq(Chars) /\ Len(Padded(n, w)) = (IF n < 10 THEN w ELSE 2)
           /\ \A i \in 1..Len(Padded(n, w)) : Padded(n, w)[i] \notin Separators
           /\ IsNumber(Padded(n, w)) /\ Number(Padded(n, w)) = n
<1> DEFINE plain == IF n < 10 THEN <<Digits[n + 1]>> ELSE <<Digits[(n \div 10) + 1], Digits[(n % 10) + 1]>>
           zeros == [i \in 1..w |-> "0"]
           pad == SubSeq(zeros, 1, w - Len(plain))
<1>0. Padded(n, w) = pad \o plain
  BY DEF Padded
<1>1. "0" = Digits[0 + 1] /\ "0" \in Chars
  <2>1. "0" = Digits[0 + 1]
    BY DEF Digits
  <2> QED
    BY <2>1, DigitText
<1>2. CASE n < 10 /\ w = 1
  <2>1. plain = <<Digits[n + 1]>> /\ Len(plain) = 1
    BY <1>2
  <2>2. pad = <<>>
    BY <1>2, <2>1
  <2>3. Padded(n, w) = <<Digits[n + 1]>>
    <3> HIDE DEF pad, plain
    <3>1. \A d : <<>> \o <<d>> = <<d>>
      OBVIOUS
    <3> QED
      BY <1>0, <2>1, <2>2, <3>1
  <2>4. n \in 0..9 /\ n + 1 \in 1..10
    BY <1>2
  <2>5. Digits[n + 1] \in Chars /\ Digits[n + 1] \notin Separators
    BY <2>4, DigitText
  <2>6. Number(<<Digits[n + 1]>>) = n /\ IsNumber(<<Digits[n + 1]>>)
    BY <2>4, NumberOfDigits
  <2> DEFINE d == Digits[n + 1]
  <2> HIDE DEF d
  <2>7. d \in Chars /\ d \notin Separators => <<d>> \in Seq(Chars) /\ Len(<<d>>) = 1
                                            /\ \A i \in 1..1 : <<d>>[i] \notin Separators
    OBVIOUS
  <2>8. Padded(n, w) = <<d>> /\ d \in Chars /\ d \notin Separators /\ Number(<<d>>) = n /\ IsNumber(<<d>>)
    BY <2>3, <2>5, <2>6 DEF d
  <2> QED
    BY <1>2, <2>7, <2>8
<1>3. ASSUME NEW a \in 0..9, NEW b \in 0..9, n = 10 * a + b, n < 10 => w = 2,
             Padded(n, w) = <<Digits[a + 1], Digits[b + 1]>>
      PROVE  /\ Padded(n, w) \in Seq(Chars) /\ Len(Padded(n, w)) = (IF n < 10 THEN w ELSE 2)
             /\ \A i \in 1..Len(Padded(n, w)) : Padded(n, w)[i] \notin Separators
             /\ IsNumber(Padded(n, w)) /\ Number(Padded(n, w)) = n
  <2>1. a + 1 \in 1..10 /\ b + 1 \in 1..10
    OBVIOUS
  <2> DEFINE x == Digits[a + 1]
             y == Digits[b + 1]
  <2>2. x \in Chars /\ x \notin Separators /\ y \in Chars /\ y \notin Separators
    BY <2>1, DigitText
  <2>3. Number(<<x, y>>) = n /\ IsNumber(<<x, y>>)
    BY <1>3, NumberOfDigits
  <2>4. Padded(n, w) = <<x, y>>
    BY <1>3
  <2> HIDE DEF x, y
  <2>5. Len(<<x, y>>) = 2 /\ <<x, y>> \in Seq(Chars) /\ \A i \in 1..2 : <<x, y>>[i] \notin Separators
    BY <2>2
  <2> QED
    BY <1>3, <2>3, <2>4, <2>5
<1>4. CASE n < 10 /\ w = 2
  <2>1. plain = <<Digits[n + 1]>> /\ Len(plain) = 1
    BY <1>4
  <2>2. pad = <<"0">>
    <3>1. zeros \in Seq(Chars) /\ Len(zeros) = 2 /\ zeros[1] = "0"
      BY <1>1, <1>4
    <3> DEFINE one == <<"0">>
    <3>2. one \in Seq(Chars) /\ Len(one) = 1 /\ one[1] = "0"
      BY <1>1
    <3> HIDE DEF zeros, one
    <3>3. 0 \in Nat /\ 0 + Len(one) <= Len(zeros) /\ \A i \in 1..Len(one) : zeros[0 + i] = one[i]
      BY <3>1, <3>2
    <3>4. SubSeq(zeros, 0 + 1, 0 + Len(one)) = one
      BY <3>1, <3>2, <3>3, Stretch
    <3>5. w - Len(plain) = 0 + Len(one) /\ 0 + 1 = 1
      BY <1>4, <2>1, <3>2
    <3> QED
      BY <3>4, <3>5 DEF one
  <2>3. Padded(n, w) = <<Digits[0 + 1], Digits[n + 1]>>
    <3> HIDE DEF pad, plain
    <3>1. ASSUME NEW d, NEW e PROVE <<e>> \o <<d>> = <<e, d>>
      <4> DEFINE C == {d, e}
                 u == <<e>> \o <<d>>
                 v == <<e, d>>
      <4>1. u \in Seq(C) /\ Len(u) = 2 /\ u[1] = e /\ u[2] = d
        OBVIOUS
      <4>2. v \in Seq(C) /\ Len(v) = 2 /\ v[1] = e /\ v[2] = d
        OBVIOUS
      <4> HIDE DEF u, v, C
      <4>3. \A i \in 1..Len(u) : u[i] = v[i]
        BY <4>1, <4>2
      <4> QED
        BY <4>1, <4>2, <4>3, SameText DEF u, v
    <3> QED
      BY <1>0, <1>1, <2>1, <2>2, <3>1
  <2>4. 0 \in 0..9 /\ n \in 0..9 /\ n = 10 * 0 + n
    BY <1>4
  <2> QED
    BY <1>3, <1>4, <2>3, <2>4
<1>5. CASE ~(n < 10)
  <2>1. plain = <<Digits[(n \div 10) + 1], Digits[(n % 10) + 1]>> /\ Len(plain) = 2
    BY <1>5
  <2>2. pad = <<>>
    <3>1. w - 2 < 1 /\ w - 2 \in Int
      OBVIOUS
    <3> QED
      BY <2>1, <3>1, SubSeqEmpty
  <2>3. Padded(n, w) = plain
    <3> HIDE DEF pad, plain
    <3>1. \A d, e : <<>> \o <<e, d>> = <<e, d>>
      OBVIOUS
    <3> QED
      BY <1>0, <2>1, <2>2, <3>1
  <2>4. n \div 10 \in 0..9 /\ n % 10 \in 0..9 /\ n = 10 * (n \div 10) + (n % 10)
    OBVIOUS
  <2> QED
    BY <1>3, <1>5, <2>1, <2>3, <2>4
<1> QED
  BY <1>2, <1>4, <1>5

-----------------------------------------------------------------------------
(* The items of a filter. *)

(* s, in C, is pre, v in brackets, and suf. *)
IsBracketed(s, C, pre, v, suf) ==
    /\ s \in Seq(C) /\ Len(s) = Len(pre) + Len(v) + Len(suf) + 2
    /\ \A i \in 1..Len(pre) : s[i] = pre[i]
    /\ s[Len(pre) + 1] = "["
    /\ \A i \in 1..Len(v) : s[Len(pre) + 1 + i] = v[i]
    /\ s[Len(pre) + Len(v) + 2] = "]"
    /\ \A i \in 1..Len(suf) : s[Len(pre) + Len(v) + 2 + i] = suf[i]

(* The text of an item with v in its bracket. *)
Bracketed(pre, v, suf) == pre \o <<"[">> \o v \o <<"]">> \o suf

(* That text, character by character. *)
LEMMA BracketedText ==
    ASSUME NEW C, NEW pre, pre \in Seq(C), NEW v, v \in Seq(C), NEW suf, suf \in Seq(C),
           "[" \in C, "]" \in C
    PROVE  IsBracketed(Bracketed(pre, v, suf), C, pre, v, suf)
<1> DEFINE w == Joined(pre, "[", v)
           s == Joined(w, "]", suf)
<1>1. IsJoin(w, C, pre, "[", v)
  BY JoinedText, Zenon
<1> HIDE DEF w
<1>2. w \in Seq(C)
  BY <1>1 DEF IsJoin
<1>3. IsJoin(s, C, w, "]", suf)
  BY <1>2, JoinedText, Zenon
<1>4. s = Bracketed(pre, v, suf)
  BY Zenon DEF s, w, Joined, Bracketed
<1> HIDE DEF s
<1>5. /\ Len(pre) \in Nat /\ Len(v) \in Nat /\ Len(suf) \in Nat /\ Len(w) = Len(pre) + 1 + Len(v)
      /\ Len(s) = Len(w) + 1 + Len(suf) /\ s \in Seq(C)
  BY <1>1, <1>3 DEF IsJoin
<1>6. \A i \in 1..Len(w) : s[i] = w[i]
  BY <1>3 DEF IsJoin
<1>7. \A i \in 1..Len(pre) : s[i] = pre[i]
  <2>1. \A i \in 1..Len(pre) : i \in 1..Len(w) /\ w[i] = pre[i]
    BY <1>1, <1>5 DEF IsJoin
  <2> QED
    BY <1>6, <2>1
<1>8. s[Len(pre) + 1] = "["
  <2>1. Len(pre) + 1 \in 1..Len(w) /\ w[Len(pre) + 1] = "["
    BY <1>1, <1>5 DEF IsJoin
  <2> QED
    BY <1>6, <2>1
<1>9. \A i \in 1..Len(v) : s[Len(pre) + 1 + i] = v[i]
  <2>1. \A i \in 1..Len(v) : Len(pre) + 1 + i \in 1..Len(w) /\ w[Len(pre) + 1 + i] = v[i]
    BY <1>1, <1>5 DEF IsJoin
  <2> QED
    BY <1>6, <2>1
<1>10. Len(w) + 1 = Len(pre) + Len(v) + 2
  BY <1>5
<1>11. s[Len(w) + 1] = "]" /\ \A i \in 1..Len(suf) : s[Len(w) + 1 + i] = suf[i]
  BY <1>3 DEF IsJoin
<1>12. Len(s) = Len(pre) + Len(v) + Len(suf) + 2
  BY <1>5
<1> QED
  BY <1>4, <1>5, <1>7, <1>8, <1>9, <1>10, <1>11, <1>12 DEF IsBracketed

(* What expand_bracket_expression finds before, in and after the bracket. *)
LEMMA BracketRead ==
    ASSUME NEW C, NEW pre \in Seq(C), NEW v \in Seq(C), NEW suf \in Seq(C), "[" \in C, "]" \in C,
           Free(pre, "["), Free(v, "]")
    PROVE  /\ FindChar("[", Bracketed(pre, v, suf)) = Len(pre) + 1
           /\ FindChar("]", Drop(Len(pre) + 1, Bracketed(pre, v, suf))) = Len(v) + 1
           /\ SubSeq(Bracketed(pre, v, suf), Len(pre) + 2, Len(pre) + 1 + Len(v)) = v
           /\ SubSeq(Bracketed(pre, v, suf), 1, Len(pre)) = pre
           /\ Drop(Len(pre) + 1 + (Len(v) + 1), Bracketed(pre, v, suf)) = suf
<1> DEFINE s == Bracketed(pre, v, suf)
           p == Len(pre)
           o == p + 1
<1>0. IsBracketed(s, C, pre, v, suf)
  BY BracketedText, Zenon
<1> HIDE DEF s
<1>1. /\ s \in Seq(C) /\ Len(s) = p + Len(v) + Len(suf) + 2
      /\ \A i \in 1..p : s[i] = pre[i]
      /\ s[o] = "["
      /\ \A i \in 1..Len(v) : s[o + i] = v[i]
      /\ s[p + Len(v) + 2] = "]"
      /\ \A i \in 1..Len(suf) : s[p + Len(v) + 2 + i] = suf[i]
  BY <1>0 DEF IsBracketed
<1>2. p \in Nat /\ Len(v) \in Nat /\ Len(suf) \in Nat
  OBVIOUS
<1> HIDE DEF p
<1>3. FindChar("[", s) = o
  <2>1. o \in DOMAIN s /\ DOMAIN s \subseteq Nat \ {0} /\ o - 1 = p
    BY <1>1, <1>2
  <2>2. \A j \in 1..(o - 1) : s[j] # "["
    BY <1>1, <2>1 DEF Free, p
  <2> HIDE DEF o
  <2> QED
    BY <1>1, <2>1, <2>2, FindCharFirst
<1>4. SubSeq(s, o + 1, o + Len(v)) = v
  <2>1. o \in Nat /\ o + Len(v) <= Len(s)
    BY <1>1, <1>2
  <2> HIDE DEF o
  <2> QED
    BY <1>1, <2>1, Stretch
<1>5. SubSeq(s, 0 + 1, 0 + Len(pre)) = pre
  <2>1. 0 \in Nat /\ 0 + Len(pre) <= Len(s) /\ \A i \in 1..Len(pre) : s[0 + i] = pre[i]
    BY <1>1, <1>2 DEF p
  <2> QED
    BY <1>1, <2>1, Stretch
<1>6. SubSeq(s, p + Len(v) + 2 + 1, p + Len(v) + 2 + Len(suf)) = suf
  <2> DEFINE a == p + Len(v) + 2
  <2>1. a \in Nat /\ a + Len(suf) <= Len(s) /\ \A i \in 1..Len(suf) : s[a + i] = suf[i]
    BY <1>1, <1>2
  <2> HIDE DEF a
  <2>2. SubSeq(s, a + 1, a + Len(suf)) = suf
    BY <1>1, <2>1, Stretch
  <2> QED
    BY <2>2 DEF a
<1>7. FindChar("]", Drop(o, s)) = Len(v) + 1
  <2> DEFINE d == Drop(o, s)
             c == Len(v) + 1
  <2>1. o \in 0..Len(s)
    BY <1>1, <1>2
  <2>2. d \in Seq(C) /\ Len(d) = Len(s) - o /\ \A x \in 1..(Len(s) - o) : d[x] = s[o + x]
    <3> HIDE DEF o
    <3> QED
      BY <1>1, <2>1, PrefixAt DEF Drop
  <2> HIDE DEF d
  <2>3. c \in 1..(Len(s) - o) /\ o + c = p + Len(v) + 2 /\ c - 1 = Len(v)
    BY <1>1, <1>2
  <2>4. d[c] = "]"
    BY <1>1, <2>2, <2>3
  <2>5. \A j \in 1..Len(v) : d[j] = v[j] /\ j \in 1..(Len(s) - o)
    BY <1>1, <1>2, <2>2
  <2>6. \A j \in 1..(c - 1) : d[j] # "]"
    BY <2>3, <2>5 DEF Free
  <2>7. c \in DOMAIN d /\ DOMAIN d \subseteq Nat \ {0}
    BY <2>2, <2>3
  <2> HIDE DEF c
  <2>8. FindChar("]", d) = c
    BY <2>4, <2>6, <2>7, FindCharFirst
  <2> QED
    BY <2>8 DEF d, c
<1>8. /\ o + 1 = Len(pre) + 2 /\ 0 + 1 = 1 /\ 0 + Len(pre) = Len(pre)
      /\ Len(pre) + 1 + (Len(v) + 1) + 1 = p + Len(v) + 2 + 1
      /\ Len(s) = p + Len(v) + 2 + Len(suf)
  BY <1>1, <1>2 DEF p
<1>9. Drop(Len(pre) + 1 + (Len(v) + 1), s) = suf
  BY <1>6, <1>8 DEF Drop
<1> QED
  BY <1>3, <1>4, <1>5, <1>7, <1>8, <1>9 DEF s, o, p

(* What a list in a bracket holds. *)
Listing(v) == {Trim(x) : x \in ToSet(SplitOn(Comma, v))} \ {<<>>}

(* The texts, each between pre and suf. *)
Around(pre, texts, suf) == {pre \o x \o suf : x \in texts}

(* expand_bracket_expression in terms of the three parts. *)
LEMMA ExpandBracket ==
    ASSUME NEW C, NEW pre \in Seq(C), NEW v \in Seq(C), NEW suf \in Seq(C), "[" \in C, "]" \in C,
           Free(pre, "["), Free(v, "]")
    PROVE  LET s == Bracketed(pre, v, suf)
               dash == FindChar("-", v)
           IN  /\ dash # 0 => expand_bracket_expression(s) =
                      expand_numeric_range(s, pre, suf, SubSeq(v, 1, dash - 1), Drop(dash, v))
               /\ dash = 0 /\ Listing(v) # {} =>
                      expand_bracket_expression(s) = Around(pre, Listing(v), suf)
<1> DEFINE s == Bracketed(pre, v, suf)
           o == Len(pre) + 1
           c == Len(v) + 1
<1>1. /\ FindChar("[", s) = o
      /\ FindChar("]", Drop(o, s)) = c
      /\ SubSeq(s, Len(pre) + 2, Len(pre) + 1 + Len(v)) = v
      /\ SubSeq(s, 1, Len(pre)) = pre
      /\ Drop(o + c, s) = suf
  BY BracketRead
<1>2. o # 0 /\ c # 0 /\ o + 1 = Len(pre) + 2 /\ o + c - 1 = Len(pre) + 1 + Len(v) /\ o - 1 = Len(pre)
  OBVIOUS
<1> HIDE DEF s
<1>3. /\ SubSeq(s, o + 1, o + c - 1) = v /\ SubSeq(s, 1, o - 1) = pre
  BY <1>1, <1>2
<1> HIDE DEF o, c
<1> DEFINE dash == FindChar("-", v)
           items == Listing(v)
<1>4. expand_bracket_expression(s) =
          IF dash # 0
          THEN expand_numeric_range(s, pre, suf, SubSeq(v, 1, dash - 1), Drop(dash, v))
          ELSE IF items = {} THEN {s} ELSE {pre \o x \o suf : x \in items}
  BY <1>1, <1>2, <1>3, Zenon DEF expand_bracket_expression, Listing
<1> HIDE DEF dash, items
<1> QED
  BY <1>4 DEF dash, items, s, Around

(* A text without brackets, commas and blanks. *)
Clean(s) == s \in Seq(Chars) /\ \A i \in 1..Len(s) : s[i] \notin {"[", "]", Comma, Space}

(* What names are made of is clean. *)
LEMMA StemText ==
    /\ \A x \in Stems \cup {<<>>} : Clean(x)
    /\ \A x \in Stems : x # <<>>
<1>1. \A x \in Stems : /\ x \in Seq(STRING) /\ x # <<>>
                       /\ \A i \in DOMAIN x : x[i] \notin {"[", "]", Comma, Space}
  BY NodeFilterAssumption
<1>2. \A x \in Stems : Clean(x)
  <2> TAKE x \in Stems
  <2>1. x \in Seq(Chars)
    BY <1>1 DEF Chars
  <2> QED
    BY <1>1, <2>1 DEF Clean
<1>3. Clean(<<>>)
  BY DEF Clean
<1> QED
  BY <1>1, <1>2, <1>3

(* The three kinds of items. *)
IsName(it) == it.kind = "name" /\ it.pre \in Stems
IsList(it) == /\ it.kind = "list" /\ it.pre \in Stems \cup {<<>>} /\ it.suf \in Stems \cup {<<>>}
              /\ it.of \in Seq(Listable) /\ Len(it.of) \in {1, 2}
IsRange(it) == /\ it.kind = "range" /\ it.pre \in Stems \cup {<<>>} /\ it.suf \in Stems \cup {<<>>}
               /\ it.lo \in 0..99 /\ it.hi \in 0..99 /\ it.lo <= it.hi /\ it.width \in 1..2

(* There are three kinds of items. *)
LEMMA ItemKinds ==
    ASSUME NEW it \in Items
    PROVE  IsName(it) \/ IsList(it) \/ IsRange(it)
<1>1. CASE it \in [kind : {"name"}, pre : Stems]
  BY <1>1 DEF IsName
<1>2. CASE it \in [kind : {"list"}, pre : Stems \cup {<<>>}, suf : Stems \cup {<<>>},
                   of : BoundedSeq(Listable, 2) \ {<<>>}]
  <2>1. it.of \in BoundedSeq(Listable, 2) /\ it.of # <<>>
    BY <1>2
  <2>2. PICK m \in 0..2 : it.of \in [1..m -> Listable]
    BY <2>1 DEF BoundedSeq, SeqOf
  <2>3. it.of \in Seq(Listable) /\ Len(it.of) = m
    BY <2>2
  <2>4. m # 0
    BY <2>1, <2>3
  <2> QED
    BY <1>2, <2>3, <2>4 DEF IsList
<1>3. CASE it \in {r \in [kind : {"range"}, pre : Stems \cup {<<>>}, suf : Stems \cup {<<>>},
                          lo : RangeEnds, hi : RangeEnds, width : 1..2] : r.lo <= r.hi}
  <2>1. RangeEnds \subseteq 0..99
    BY NodeFilterAssumption
  <2> QED
    BY <1>3, <2>1 DEF IsRange
<1> QED
  BY <1>1, <1>2, <1>3 DEF Items

(* The separators are characters. *)
LEMMA SeparatorChars == "[" \in Chars /\ "]" \in Chars /\ Comma \in Chars /\ "-" \in Chars /\ Space \in Chars
BY DEF Chars

(* What is in the bracket of an item has no bracket and no blank. *)
LEMMA InsideText ==
    ASSUME NEW it, IsList(it) \/ IsRange(it)
    PROVE  /\ Inside(it) \in Seq(Chars)
           /\ \A i \in 1..Len(Inside(it)) : Inside(it)[i] \notin {"[", "]", Space}
<1> DEFINE v == Inside(it)
           Plain(x) == x \in Seq(Chars) /\ \A i \in 1..Len(x) : x[i] \notin {"[", "]", Space}
<1>1. ASSUME NEW x, Plain(x), NEW y, Plain(y), NEW ch \in {Comma, "-"} PROVE Plain(Joined(x, ch, y))
  <2> DEFINE s == Joined(x, ch, y)
  <2>1. ch \in Chars /\ ch \notin {"[", "]", Space}
    BY SeparatorChars, DistinctSeparators
  <2>2. IsJoin(s, Chars, x, ch, y)
    BY <1>1, <2>1, JoinedText, Zenon
  <2> HIDE DEF s
  <2>3. s \in Seq(Chars) /\ Len(x) \in Nat /\ Len(y) \in Nat /\ Len(s) = Len(x) + 1 + Len(y)
    BY <1>1, <2>2 DEF IsJoin
  <2>4. ASSUME NEW i \in 1..Len(s) PROVE s[i] \notin {"[", "]", Space}
    <3>1. CASE i \in 1..Len(x)
      BY <1>1, <2>2, <3>1 DEF IsJoin
    <3>2. CASE i = Len(x) + 1
      BY <2>1, <2>2, <3>2 DEF IsJoin
    <3>3. CASE i - (Len(x) + 1) \in 1..Len(y)
      <4> DEFINE j == i - (Len(x) + 1)
      <4>1. j \in 1..Len(y) /\ i = Len(x) + 1 + j
        BY <2>3, <3>3
      <4> HIDE DEF j
      <4> QED
        BY <1>1, <2>2, <4>1 DEF IsJoin
    <3> QED
      BY <2>3, <3>1, <3>2, <3>3
  <2> QED
    BY <2>3, <2>4 DEF s
<1>2. CASE IsList(it)
  <2>1. \A x \in Listable : Plain(x)
    BY StemText DEF Listable, Clean
  <2>2. it.of[1] \in Listable /\ (Len(it.of) = 2 => it.of[2] \in Listable)
    BY <1>2 DEF IsList
  <2>3. v = IF Len(it.of) = 1 THEN it.of[1] ELSE Joined(it.of[1], Comma, it.of[2])
    BY <1>2 DEF Inside, Joined, IsList
  <2>4. Len(it.of) = 1 \/ Len(it.of) = 2
    BY <1>2 DEF IsList
  <2> HIDE DEF Plain, v
  <2>5. Plain(v)
    BY <1>1, <2>1, <2>2, <2>3, <2>4
  <2> QED
    BY <2>5 DEF Plain, v
<1>3. CASE IsRange(it)
  <2>1. v = Joined(Padded(it.lo, it.width), "-", Padded(it.hi, it.width))
    BY <1>3 DEF Inside, Joined, IsRange
  <2>2. Plain(Padded(it.lo, it.width)) /\ Plain(Padded(it.hi, it.width))
    BY <1>3, PaddedText DEF IsRange, Separators
  <2> HIDE DEF Plain, v
  <2>3. Plain(v)
    BY <1>1, <2>1, <2>2
  <2> QED
    BY <2>3 DEF Plain, v
<1> QED
  BY <1>2, <1>3

(* s neither begins nor ends with a blank; it has one pair of brackets, at o and
   c, or none, and its commas are inside them. *)
Shaped(s, o, c) ==
    /\ s \in Seq(Chars) /\ s # <<>> /\ s[1] # Space /\ s[Len(s)] # Space
    /\ 1 <= o /\ o <= c /\ c <= Len(s)
    /\ \A i \in 1..Len(s) : /\ s[i] = "[" <=> o < c /\ i = o
                            /\ s[i] = "]" <=> o < c /\ i = c
                            /\ s[i] = Comma => o <= i /\ i < c

(* The text of every item is like that. *)
LEMMA ItemShape ==
    ASSUME NEW it \in Items
    PROVE  \E o, c \in Nat : Shaped(ItemText(it), o, c)
<1>1. CASE IsName(it)
  <2> DEFINE s == ItemText(it)
  <2>1. Clean(s) /\ s # <<>>
    BY <1>1, StemText DEF IsName, ItemText
  <2> HIDE DEF s
  <2>2. Len(s) \in Nat \ {0}
    BY <2>1 DEF Clean
  <2>3. Shaped(s, 1, 1)
    BY <2>1, <2>2 DEF Shaped, Clean
  <2> QED
    BY <2>3 DEF s
<1>2. CASE IsList(it) \/ IsRange(it)
  <2> DEFINE pre == it.pre
             suf == it.suf
             v == Inside(it)
             s == ItemText(it)
             o == Len(pre) + 1
             c == Len(pre) + Len(v) + 2
  <2>1. Clean(pre) /\ Clean(suf)
    BY <1>2, StemText DEF IsList, IsRange
  <2>2. v \in Seq(Chars) /\ \A i \in 1..Len(v) : v[i] \notin {"[", "]", Space}
    BY <1>2, InsideText
  <2>3. s = Bracketed(pre, v, suf)
    BY <1>2 DEF ItemText, Bracketed, IsList, IsRange
  <2> HIDE DEF pre, suf, v, s
  <2>4. IsBracketed(s, Chars, pre, v, suf)
    BY <2>1, <2>2, <2>3, BracketedText, SeparatorChars, Zenon DEF Clean
  <2>5. Len(pre) \in Nat /\ Len(v) \in Nat /\ Len(suf) \in Nat
    BY <2>1, <2>2 DEF Clean
  <2>6. s \in Seq(Chars) /\ Len(s) = Len(pre) + Len(v) + Len(suf) + 2
    BY <2>4 DEF IsBracketed
  <2>7. o \in Nat /\ c \in Nat /\ 1 <= o /\ o < c /\ c <= Len(s) /\ s # <<>>
    BY <2>5, <2>6
  <2>8. ASSUME NEW i \in 1..Len(s)
        PROVE  \/ /\ i < o /\ s[i] \notin {"[", "]", Comma, Space}
               \/ /\ i = o /\ s[i] = "["
               \/ /\ o < i /\ i < c /\ s[i] \notin {"[", "]", Space}
               \/ /\ i = c /\ s[i] = "]"
               \/ /\ c < i /\ s[i] \notin {"[", "]", Comma, Space}
    <3>1. CASE i < o
      <4>1. i \in 1..Len(pre)
        BY <2>5, <3>1
      <4> QED
        BY <2>1, <2>4, <3>1, <4>1 DEF Clean, IsBracketed
    <3>2. CASE i = o
      BY <2>4, <3>2 DEF IsBracketed
    <3>3. CASE o < i /\ i < c
      <4> DEFINE j == i - o
      <4>1. j \in 1..Len(v) /\ i = Len(pre) + 1 + j
        BY <2>5, <3>3
      <4> HIDE DEF j
      <4> QED
        BY <2>2, <2>4, <3>3, <4>1 DEF IsBracketed
    <3>4. CASE i = c
      BY <2>4, <3>4 DEF IsBracketed
    <3>5. CASE c < i
      <4> DEFINE j == i - c
      <4>1. j \in 1..Len(suf) /\ i = Len(pre) + Len(v) + 2 + j
        BY <2>5, <2>6, <3>5
      <4> HIDE DEF j
      <4> QED
        BY <2>1, <2>4, <3>5, <4>1 DEF Clean, IsBracketed
    <3> QED
      BY <2>7, <3>1, <3>2, <3>3, <3>4, <3>5
  <2>9. "[" # Space /\ "]" # Space /\ "[" # Comma /\ "]" # Comma /\ "[" # "]"
    BY DistinctSeparators
  <2> HIDE DEF o, c
  <2>10. \A i \in 1..Len(s) : /\ s[i] = "[" <=> o < c /\ i = o
                              /\ s[i] = "]" <=> o < c /\ i = c
                              /\ s[i] = Comma => o <= i /\ i < c
                              /\ s[i] # Space
    <3> TAKE i \in 1..Len(s)
    <3>1. i \in Nat /\ o \in Nat /\ c \in Nat /\ o < c
      BY <2>6, <2>7
    <3>2. i = o => i # c /\ i < c
      BY <3>1
    <3> QED
      BY <2>8, <2>9, <3>1, <3>2
  <2>11. 1 \in 1..Len(s) /\ Len(s) \in 1..Len(s)
    BY <2>6, <2>7
  <2>12. Shaped(s, o, c)
    BY <2>6, <2>7, <2>10, <2>11 DEF Shaped
  <2> QED
    BY <2>7, <2>12 DEF s
<1> QED
  BY <1>1, <1>2, ItemKinds

(* A name in a list has neither a dash nor a comma, and is nothing to trim. *)
LEMMA ListableText ==
    ASSUME NEW x \in Listable
    PROVE  x \in Seq(Chars) /\ x # <<>> /\ Free(x, "-") /\ Free(x, Comma) /\ Trim(x) = x
<1>1. x \in Stems /\ ~Contains(x, "-")
  BY DEF Listable
<1>2. Clean(x) /\ x # <<>>
  BY <1>1, StemText
<1>3. x \in Seq(Chars) /\ Len(x) \in Nat \ {0} /\ \A i \in 1..Len(x) : x[i] # Comma /\ x[i] # Space
  BY <1>2 DEF Clean
<1>4. x[1] # Space /\ x[Len(x)] # Space
  BY <1>3
<1>5. Trim(x) = x
  BY <1>2, <1>3, <1>4, SeparatorChars, TrimText
<1> QED
  BY <1>1, <1>2, <1>3, <1>5 DEF Free, Contains

(* A list of names stands for these names. *)
LEMMA ListNamed ==
    ASSUME NEW it, IsList(it)
    PROVE  expand_bracket_expression(ItemText(it)) = ItemNames(it)
<1> DEFINE pre == it.pre
           suf == it.suf
           v == Inside(it)
           x == it.of[1]
           y == it.of[2]
           items == Listing(v)
<1>1. /\ ItemText(it) = Bracketed(pre, v, suf)
      /\ ItemNames(it) = {pre \o w \o suf : w \in ToSet(it.of)}
  BY DEF IsList, ItemText, ItemNames, Bracketed
<1>2. Clean(pre) /\ Clean(suf)
  BY StemText DEF IsList
<1>3. v \in Seq(Chars) /\ \A i \in 1..Len(v) : v[i] \notin {"[", "]", Space}
  BY InsideText
<1>4. Free(pre, "[") /\ Free(v, "]")
  BY <1>2, <1>3 DEF Free, Clean
<1>5. FindChar("-", v) = 0 /\ items = ToSet(it.of) /\ items # {}
  <2>0. it.of \in Seq(Listable) /\ (Len(it.of) = 1 \/ Len(it.of) = 2)
    BY DEF IsList
  <2>1. CASE Len(it.of) = 1
    <3>1. x \in Listable /\ v = x /\ ToSet(it.of) = {x}
      BY <2>0, <2>1 DEF Inside, IsList, ToSet
    <3>2. x \in Seq(Chars) /\ x # <<>> /\ Free(x, "-") /\ Free(x, Comma) /\ Trim(x) = x
      BY <3>1, ListableText
    <3>3. FindChar("-", v) = 0
      BY <3>1, <3>2, FindCharNone DEF Free
    <3>4. ToSet(SplitOn(Comma, v)) = {x}
      BY <3>1, <3>2, SplitFree
    <3> HIDE DEF x, v
    <3> QED
      BY <3>1, <3>2, <3>3, <3>4 DEF Listing
  <2>2. CASE Len(it.of) = 2
    <3>1. x \in Listable /\ y \in Listable
      BY <2>0, <2>2
    <3>2. v = Joined(x, Comma, y)
      <4>1. v = IF Len(it.of) = 1 THEN x ELSE Joined(x, Comma, y)
        BY DEF Inside, IsList, Joined
      <4> HIDE DEF v, x, y
      <4> QED
        BY <2>2, <4>1
    <3>3. ToSet(it.of) = {x, y}
      <4>1. DOMAIN it.of = {1, 2}
        BY <2>0, <2>2
      <4> QED
        BY <4>1 DEF ToSet
    <3>4. x \in Seq(Chars) /\ x # <<>> /\ Free(x, "-") /\ Free(x, Comma) /\ Trim(x) = x
      BY <3>1, ListableText
    <3>5. y \in Seq(Chars) /\ y # <<>> /\ Free(y, "-") /\ Free(y, Comma) /\ Trim(y) = y
      BY <3>1, ListableText
    <3> HIDE DEF x, y, v
    <3>6. ToSet(SplitOn(Comma, v)) = {x, y}
      BY <3>2, <3>4, <3>5, SeparatorChars, SplitJoined
    <3>7. FindChar("-", v) = 0
      <4>1. IsJoin(v, Chars, x, Comma, y)
        BY <3>2, <3>4, <3>5, SeparatorChars, JoinedText, Zenon
      <4>2. Len(x) \in Nat /\ Len(y) \in Nat /\ v \in Seq(Chars) /\ Len(v) = Len(x) + 1 + Len(y)
        BY <3>4, <3>5, <4>1 DEF IsJoin
      <4>3. ASSUME NEW i \in 1..Len(v) PROVE v[i] # "-"
        <5>1. CASE i \in 1..Len(x)
          BY <3>4, <4>1, <5>1 DEF IsJoin, Free
        <5>2. CASE i = Len(x) + 1
          BY <4>1, <5>2, DistinctSeparators DEF IsJoin
        <5>3. CASE i - (Len(x) + 1) \in 1..Len(y)
          <6> DEFINE j == i - (Len(x) + 1)
          <6>1. j \in 1..Len(y) /\ i = Len(x) + 1 + j
            BY <4>2, <5>3
          <6> HIDE DEF j
          <6> QED
            BY <3>5, <4>1, <6>1 DEF IsJoin, Free
        <5> QED
          BY <4>2, <5>1, <5>2, <5>3
      <4>4. \A i \in DOMAIN v : v[i] # "-"
        BY <4>2, <4>3
      <4> QED
        BY <4>4, FindCharNone
    <3> QED
      BY <3>3, <3>4, <3>5, <3>6, <3>7 DEF Listing
  <2> QED
    BY <2>0, <2>1, <2>2
<1> HIDE DEF pre, suf, v
<1>6. expand_bracket_expression(Bracketed(pre, v, suf)) = {pre \o w \o suf : w \in items}
  <2>1. pre \in Seq(Chars) /\ suf \in Seq(Chars)
    BY <1>2 DEF Clean
  <2>2. FindChar("-", v) = 0 /\ Listing(v) # {} =>
            expand_bracket_expression(Bracketed(pre, v, suf)) = Around(pre, Listing(v), suf)
    BY <1>3, <1>4, <2>1, SeparatorChars, ExpandBracket
  <2> QED
    BY <1>5, <2>2 DEF Around
<1> HIDE DEF items
<1> QED
  BY <1>1, <1>5, <1>6

(* A range stands for the numbers from its first to its last, as wide as the
   wider of the two. *)
LEMMA RangeNamed ==
    ASSUME NEW it, IsRange(it)
    PROVE  expand_bracket_expression(ItemText(it)) = ItemNames(it)
<1> DEFINE pre == it.pre
           suf == it.suf
           v == Inside(it)
           s == ItemText(it)
           a == Padded(it.lo, it.width)
           b == Padded(it.hi, it.width)
           width == IF it.hi < 10 THEN it.width ELSE 2
<1>1. /\ s = Bracketed(pre, v, suf)
      /\ ItemNames(it) = {pre \o Padded(n, width) \o suf : n \in it.lo..it.hi}
  BY DEF IsRange, ItemText, ItemNames, Bracketed
<1>2. Clean(pre) /\ Clean(suf)
  BY StemText DEF IsRange
<1>3. v \in Seq(Chars) /\ \A i \in 1..Len(v) : v[i] \notin {"[", "]", Space}
  BY InsideText
<1>4. Free(pre, "[") /\ Free(v, "]")
  BY <1>2, <1>3 DEF Free, Clean
<1>5. v = Joined(a, "-", b)
  BY DEF IsRange, Inside, Joined
<1>0. it.lo \in 0..99 /\ it.hi \in 0..99 /\ it.lo <= it.hi /\ it.width \in 1..2
  BY DEF IsRange
<1>6. /\ a \in Seq(Chars) /\ Len(a) = (IF it.lo < 10 THEN it.width ELSE 2)
      /\ \A i \in 1..Len(a) : a[i] \notin Separators
      /\ IsNumber(a) /\ Number(a) = it.lo
  BY <1>0, PaddedText
<1>7. /\ b \in Seq(Chars) /\ Len(b) = (IF it.hi < 10 THEN it.width ELSE 2)
      /\ IsNumber(b) /\ Number(b) = it.hi
  BY <1>0, PaddedText
<1>8. Free(a, "-")
  BY <1>6 DEF Free, Separators
<1> HIDE DEF a, b, v, s, pre, suf
<1>9. /\ FindChar("-", v) = Len(a) + 1
      /\ SubSeq(v, 1, Len(a)) = a /\ Drop(Len(a) + 1, v) = b
  BY <1>5, <1>6, <1>7, <1>8, SeparatorChars, FindCharJoined, TakeApart
<1>10. Len(a) + 1 # 0 /\ (Len(a) + 1) - 1 = Len(a) /\ Len(a) \in Nat
  BY <1>6
<1>11. expand_bracket_expression(s) = expand_numeric_range(s, pre, suf, a, b)
  <2>1. pre \in Seq(Chars) /\ suf \in Seq(Chars)
    BY <1>2 DEF Clean
  <2> DEFINE dash == FindChar("-", v)
  <2>2. dash # 0 /\ SubSeq(v, 1, dash - 1) = a /\ Drop(dash, v) = b
    BY <1>9, <1>10
  <2>3. dash # 0 => expand_bracket_expression(Bracketed(pre, v, suf)) =
            expand_numeric_range(Bracketed(pre, v, suf), pre, suf, SubSeq(v, 1, dash - 1), Drop(dash, v))
    BY <1>3, <1>4, <2>1, SeparatorChars, ExpandBracket
  <2> HIDE DEF dash
  <2> QED
    BY <1>1, <2>2, <2>3
<1>12. (IF Len(a) > Len(b) THEN Len(a) ELSE Len(b)) = width /\ ~(Number(a) > Number(b))
  <2> DEFINE lo == it.lo
             hi == it.hi
             w == it.width
  <2>1. /\ lo \in 0..99 /\ hi \in 0..99 /\ lo <= hi /\ w \in 1..2
        /\ Len(a) = (IF lo < 10 THEN w ELSE 2) /\ Len(b) = (IF hi < 10 THEN w ELSE 2)
        /\ Number(a) = lo /\ Number(b) = hi /\ width = IF hi < 10 THEN w ELSE 2
    BY <1>0, <1>6, <1>7
  <2> HIDE DEF lo, hi, w, width
  <2>2. ~(Number(a) > Number(b))
    BY <2>1
  <2>3. CASE hi < 10
    BY <2>1, <2>3
  <2>4. CASE ~(hi < 10)
    BY <2>1, <2>4
  <2> QED
    BY <2>2, <2>3, <2>4
<1> HIDE DEF width
<1>13. expand_numeric_range(s, pre, suf, a, b) = {pre \o Padded(n, width) \o suf : n \in it.lo..it.hi}
  BY <1>6, <1>7, <1>12, Zenon DEF expand_numeric_range
<1> QED
  BY <1>1, <1>11, <1>13 DEF s

(* expand_bracket_expression gives the names an item stands for. *)
LEMMA ItemExpanded ==
    ASSUME NEW it \in Items
    PROVE  expand_bracket_expression(ItemText(it)) = ItemNames(it)
<1>1. CASE IsName(it)
  <2>1. ItemText(it) = it.pre /\ ItemNames(it) = {it.pre}
    BY <1>1 DEF IsName, ItemText, ItemNames
  <2>2. Clean(it.pre)
    BY <1>1, StemText DEF IsName
  <2> DEFINE s == it.pre
  <2> HIDE DEF s
  <2>3. \A i \in DOMAIN s : s[i] # "["
    BY <2>2 DEF Clean, s
  <2>4. FindChar("[", s) = 0
    BY <2>3, FindCharNone
  <2>5. expand_bracket_expression(s) = {s}
    BY <2>4, Zenon DEF expand_bracket_expression
  <2> QED
    BY <2>1, <2>5 DEF s
<1> QED
  BY <1>1, ItemKinds, ListNamed, RangeNamed

(* split_filter_items separates two items, each after a blank, at the comma
   between them and nowhere else. *)
LEMMA TwoItems ==
    ASSUME NEW a, NEW o1 \in Nat, NEW c1 \in Nat, Shaped(a, o1, c1),
           NEW b, NEW o2 \in Nat, NEW c2 \in Nat, Shaped(b, o2, c2)
    PROVE  ToSet(split_filter_items(Joined(<<Space>> \o a, Comma, <<Space>> \o b)))
               = {<<Space>> \o a, <<Space>> \o b}
<1> DEFINE u == <<Space>> \o a
           v == <<Space>> \o b
           raw == Joined(u, Comma, v)
           n == Len(a)
<1>1. a \in Seq(Chars) /\ b \in Seq(Chars) /\ n \in Nat /\ Len(b) \in Nat
  BY DEF Shaped
<1>2. /\ u \in Seq(Chars) /\ Len(u) = n + 1 /\ u[1] = Space
      /\ \A i \in 1..n : u[1 + i] = a[i]
  BY <1>1, SeparatorChars
<1>3. /\ v \in Seq(Chars) /\ Len(v) = Len(b) + 1 /\ v[1] = Space
      /\ \A i \in 1..Len(b) : v[1 + i] = b[i]
  BY <1>1, SeparatorChars
<1> HIDE DEF u, v
<1>4. IsJoin(raw, Chars, u, Comma, v)
  BY <1>2, <1>3, SeparatorChars, JoinedText, Zenon
<1> HIDE DEF raw
<1>5. raw \in Seq(Chars) /\ Len(raw) = n + Len(b) + 3 /\ Len(raw) \in Nat
  BY <1>1, <1>2, <1>3, <1>4 DEF IsJoin
<1> HIDE DEF n
<1>6. raw[1] = Space /\ raw[n + 2] = Comma /\ raw[n + 3] = Space
  <2>1. /\ \A i \in 1..Len(u) : raw[i] = u[i]
        /\ raw[Len(u) + 1] = Comma
        /\ \A i \in 1..Len(v) : raw[Len(u) + 1 + i] = v[i]
    BY <1>4 DEF IsJoin
  <2>2. 1 \in 1..Len(u) /\ 1 \in 1..Len(v) /\ Len(u) + 1 = n + 2 /\ Len(u) + 1 + 1 = n + 3
    BY <1>1, <1>2, <1>3
  <2> QED
    BY <1>2, <1>3, <2>1, <2>2
<1>7. \A j \in 1..n : raw[1 + j] = a[j]
  <2> TAKE j \in 1..n
  <2>1. 1 + j \in 1..Len(u)
    BY <1>1, <1>2
  <2> QED
    BY <1>2, <1>4, <2>1 DEF IsJoin
<1>8. \A j \in 1..Len(b) : raw[n + 3 + j] = b[j]
  <2> TAKE j \in 1..Len(b)
  <2>1. 1 + j \in 1..Len(v) /\ Len(u) + 1 + (1 + j) = n + 3 + j
    BY <1>1, <1>2, <1>3
  <2>2. raw[Len(u) + 1 + (1 + j)] = v[1 + j]
    BY <1>4, <2>1 DEF IsJoin
  <2> QED
    BY <1>3, <2>1, <2>2
<1> DEFINE p1 == o1 + 1
           q1 == c1 + 1
           p2 == n + 3 + o2
           q2 == n + 3 + c2
           Inner1(i) == p1 <= i /\ i < q1
           Inner2(i) == p2 <= i /\ i < q2
<1>9. /\ 1 <= o1 /\ o1 <= c1 /\ c1 <= n /\ 1 <= o2 /\ o2 <= c2 /\ c2 <= Len(b)
  BY DEF Shaped, n
<1>10. p1 \in Nat /\ q1 \in Nat /\ p2 \in Nat /\ q2 \in Nat
       /\ 1 <= p1 /\ p1 <= q1 /\ q1 < p2 /\ p2 <= q2 /\ 1 < p1 /\ q1 < n + 2 /\ n + 3 < p2
  BY <1>1, <1>9
<1>11. ASSUME NEW i \in 1..Len(raw)
       PROVE  /\ raw[i] = "[" <=> (p1 < q1 /\ i = p1) \/ (p2 < q2 /\ i = p2)
              /\ raw[i] = "]" <=> (p1 < q1 /\ i = q1) \/ (p2 < q2 /\ i = q2)
              /\ raw[i] = Comma => i = n + 2 \/ Inner1(i) \/ Inner2(i)
  <2>0. i \in Nat /\ Space # Comma /\ Space # "[" /\ Space # "]" /\ Comma # "[" /\ Comma # "]"
    BY <1>5, DistinctSeparators
  <2>1. CASE i = 1
    BY <1>6, <1>10, <2>0, <2>1
  <2>2. CASE i - 1 \in 1..n
    <3> DEFINE j == i - 1
    <3>1. j \in 1..n /\ i = 1 + j
      BY <1>1, <2>0, <2>2
    <3> HIDE DEF j
    <3>2. raw[i] = a[j]
      BY <1>7, <3>1
    <3>3. /\ a[j] = "[" <=> o1 < c1 /\ j = o1
          /\ a[j] = "]" <=> o1 < c1 /\ j = c1
          /\ a[j] = Comma => o1 <= j /\ j < c1
      BY <3>1 DEF Shaped, n
    <3>4. /\ (p1 < q1 <=> o1 < c1) /\ (i = p1 <=> j = o1) /\ (i = q1 <=> j = c1)
          /\ (Inner1(i) <=> o1 <= j /\ j < c1)
      BY <1>1, <3>1
    <3>5. i # p2 /\ i # q2
      BY <1>1, <1>9, <3>1
    <3> QED
      BY <3>2, <3>3, <3>4, <3>5
  <2>3. CASE i = n + 2
    BY <1>1, <1>6, <1>10, <2>0, <2>3
  <2>4. CASE i = n + 3
    BY <1>1, <1>6, <1>10, <2>0, <2>4
  <2>5. CASE i - (n + 3) \in 1..Len(b)
    <3> DEFINE j == i - (n + 3)
    <3>1. j \in 1..Len(b) /\ i = n + 3 + j
      BY <1>1, <2>0, <2>5
    <3> HIDE DEF j
    <3>2. raw[i] = b[j]
      BY <1>8, <3>1
    <3>3. /\ b[j] = "[" <=> o2 < c2 /\ j = o2
          /\ b[j] = "]" <=> o2 < c2 /\ j = c2
          /\ b[j] = Comma => o2 <= j /\ j < c2
      BY <3>1 DEF Shaped
    <3>4. /\ (p2 < q2 <=> o2 < c2) /\ (i = p2 <=> j = o2) /\ (i = q2 <=> j = c2)
          /\ (Inner2(i) <=> o2 <= j /\ j < c2)
      BY <1>1, <3>1
    <3>5. i # p1 /\ i # q1
      BY <1>1, <1>9, <3>1
    <3> QED
      BY <3>2, <3>3, <3>4, <3>5
  <2> QED
    BY <1>1, <1>5, <2>0, <2>1, <2>2, <2>3, <2>4, <2>5
<1>12. \A i \in 0..Len(raw) : Depths(raw)[i] = IF Inner1(i) \/ Inner2(i) THEN 1 ELSE 0
  <2>1. BracketsAt(raw, p1, q1, p2, q2)
    BY <1>10, <1>11 DEF BracketsAt
  <2> HIDE DEF p1, q1, p2, q2
  <2> QED
    BY <1>5, <1>10, <2>1, DepthOfBrackets
<1>13. {i \in DOMAIN raw : raw[i] = Comma /\ Depths(raw)[i] = 0} = {Len(u) + 1}
  <2>1. DOMAIN raw = 1..Len(raw) /\ Len(u) + 1 = n + 2 /\ n + 2 \in 1..Len(raw) /\ n + 2 \in 0..Len(raw)
    BY <1>1, <1>2, <1>5
  <2>2. ~Inner1(n + 2) /\ ~Inner2(n + 2)
    BY <1>1, <1>10
  <2>3. \A i \in 1..Len(raw) : i \in 0..Len(raw)
    BY <1>5
  <2> HIDE DEF Inner1, Inner2
  <2>4. \A i \in 1..Len(raw) : raw[i] = Comma /\ Depths(raw)[i] = 0 => i = n + 2
    BY <1>11, <1>12, <2>3
  <2>5. Depths(raw)[n + 2] = 0
    BY <1>12, <2>1, <2>2
  <2> QED
    BY <1>6, <2>1, <2>4, <2>5
<1>14. ToSet(Cut(raw, {Len(u) + 1})) = {u, v}
  <2>1. u \in Seq(Chars) /\ v \in Seq(Chars) /\ Comma \in Chars
    BY <1>2, <1>3, SeparatorChars
  <2>2. ToSet(Cut(Joined(u, Comma, v), {Len(u) + 1})) = {u, v}
    BY <2>1, CutOne
  <2> QED
    BY <2>2 DEF raw
<1>15. ToSet(split_filter_items(raw)) = {u, v}
  BY <1>13, <1>14 DEF split_filter_items
<1> QED
  BY <1>15 DEF raw, u, v

(* parse reads a filter of two items as the names that they stand for, for any
   names and any ranges of numbers below 100. *)
THEOREM FilterRead ==
    ASSUME NEW x \in Items, NEW y \in Items
    PROVE  parse((<<Space>> \o ItemText(x)) \o <<Comma>> \o (<<Space>> \o ItemText(y)))
               = ItemNames(x) \cup ItemNames(y)
<1> DEFINE a == ItemText(x)
           b == ItemText(y)
           raw == Joined(<<Space>> \o a, Comma, <<Space>> \o b)
<1>1. PICK o1, c1 \in Nat : Shaped(a, o1, c1)
  BY ItemShape
<1>2. PICK o2, c2 \in Nat : Shaped(b, o2, c2)
  BY ItemShape
<1>3. expand_bracket_expression(a) = ItemNames(x) /\ expand_bracket_expression(b) = ItemNames(y)
  BY ItemExpanded
<1>4. raw = (<<Space>> \o a) \o <<Comma>> \o (<<Space>> \o b)
  BY Zenon DEF Joined
<1> HIDE DEF a, b
<1>5. Trim(<<Space>> \o a) = a /\ a # <<>> /\ Trim(<<Space>> \o b) = b /\ b # <<>>
  BY <1>1, <1>2, SeparatorChars, TrimText DEF Shaped
<1>6. ToSet(split_filter_items(raw)) = {<<Space>> \o a, <<Space>> \o b}
  BY <1>1, <1>2, TwoItems
<1> DEFINE sa == <<Space>> \o a
           sb == <<Space>> \o b
<1> HIDE DEF raw
<1>7. {Trim(w) : w \in ToSet(split_filter_items(raw))} \ {<<>>} = {a, b}
  <2>1. ToSet(split_filter_items(raw)) = {sa, sb} /\ Trim(sa) = a /\ Trim(sb) = b
    BY <1>5, <1>6
  <2> HIDE DEF sa, sb
  <2> QED
    BY <1>5, <2>1
<1>8. parse(raw) = UNION {expand_bracket_expression(item) : item \in {a, b}}
  BY <1>7, Zenon DEF parse
<1>9. parse(raw) = ItemNames(x) \cup ItemNames(y)
  BY <1>3, <1>8
<1> QED
  BY <1>4, <1>9 DEF a, b

(* NodeFilter::parse against its reference. *)
THEOREM FiltersReadBack == Spec => []FilterReadsBack
<1>1. ReadsBack
  BY FilterRead DEF ReadsBack
<1>2. FilterReadsBack
  BY <1>1 DEF FilterReadsBack
<1> QED
  BY <1>2, PTL

=============================================================================
