-------------------------------- MODULE Cli ---------------------------------
(***************************************************************************)
(* CLIs asking the backend over its Unix socket: the CLI's main loop       *)
(* (crates/client-cli/src/main.rs, args.rs, backend.rs) and the backend's  *)
(* listener and handler threads (crates/client-backend/src/local_api.rs),  *)
(* with the cache of user names (adapter.rs) that the handlers share.      *)
(*                                                                         *)
(* The backend may crash at any point, leaving its socket file behind, and *)
(* be started again.  How rows are refreshed is the subject of Backend:    *)
(* here a refresh replaces at most one row by any other.  A filter is kept *)
(* as the set of nodes it selects (NodeFilter) from the moment it is typed. *)
(*                                                                         *)
(* Operators whose comment begins with "Deviation" are used by no          *)
(* specification: slips that the properties have to catch.                 *)
(***************************************************************************)
EXTENDS QueryView

CONSTANTS Clis,         \* CLI processes; each makes one connection
          ArgLists,     \* bound: the command lines they are started with
          FilterArg,    \* argument -> the filter text it is
          UserArg,      \* argument -> the user it names
          IntervalArgs, \* arguments that parse as a positive number
          Snapshots,    \* bound: the snapshots a row may hold
          None,
          MaxRounds,    \* bound: refreshes of a watching CLI
          MaxRefreshes, \* bound: rows replaced
          MaxCrashes    \* bound: crashes of the backend

Uids == DOMAIN Account

(* Names are not blank, and no account is called "?".  A process is owned by
   somebody getent can be asked about, or by nobody known. *)
ASSUME CliAssumption ==
    /\ None \notin Clis /\ Snapshots \cap {Absent, NoSnapshot} = {}
    /\ Uids \subseteq Nat /\ UnknownUid \notin Uids \cup {0}
    /\ \A u \in Uids : {Account[u], ToString(u)} \cap {"", "?"} = {}
    /\ \A r \in Snapshots : \A g \in DOMAIN r : \A p \in r[g] : p.uid \in Uids \cup {UnknownUid}
    /\ MaxRounds \in Nat /\ MaxRefreshes \in Nat /\ MaxCrashes \in Nat

VARIABLES cpc,          \* where each CLI is in run
          opts,         \* its options
          asked,        \* how many queries it has sent
          answer,       \* the answer it read last
          open,         \* whether its end of the connection is open
          up, down,     \* lines on their way to the backend and to the CLI
          bpc,          \* where the backend is in serve_on_uds
          path,         \* the socket file: absent, stale (nobody listens) or live
          private,      \* ... not yet readable for other users
          hpc,          \* where the connection's handler is in handle_client
          hreq,         \* the request it works on
          hsel,         \* the rows it selects
          hnames,       \* the names it has looked up for it
          huid,         \* the uid it runs getent for
          hout,         \* the line it is about to write
          lock,         \* the holder of the mutex of the rows
          rows,
          names,        \* CACHE in username_for_uid
          refreshes, crashes

cliVars == <<cpc, opts, asked, answer, open>>
backVars == <<bpc, path, private>>
handVars == <<hpc, hreq, hsel, hnames, huid, hout, lock, rows, names, refreshes>>
vars == <<cliVars, up, down, backVars, handVars, crashes>>

NoOpts == [filter |-> Nodes, user |-> NoUser, watch |-> FALSE, json |-> FALSE,
           color |-> FALSE, plain |-> FALSE]
Gone == {"ok", "failed", "killed"}

-----------------------------------------------------------------------------
Dashed == {"-h", "-n", "-user", "-i", "--json", "--color", "--no-color", "--other"}

(* The options that only change how the table looks are left out.  An option
   that needs a value takes the next argument whatever it is; the interval of
   -i is optional and never begins with a dash. *)
parse_args(args) ==
    LET Flag(st, a) ==
            CASE a = "-h" -> [st EXCEPT !.res = "help"]
              [] a = "-n" -> [st EXCEPT !.want = "node"]
              [] a = "-user" -> [st EXCEPT !.want = "user"]
              [] a = "-i" -> [st EXCEPT !.opts.watch = TRUE, !.want = "interval"]
              [] a = "--json" -> [st EXCEPT !.opts.json = TRUE]
              [] a = "--color" -> [st EXCEPT !.opts.color = TRUE]
              [] a = "--no-color" -> [st EXCEPT !.opts.plain = TRUE]
              [] OTHER -> [st EXCEPT !.res = "error"]
        Step(st, a) ==
            CASE st.res # "ok" -> st
              [] st.want = "node" -> [st EXCEPT !.opts.filter = SelectedBy(FilterArg[a]), !.want = ""]
              [] st.want = "user" -> [st EXCEPT !.opts.user = UserArg[a], !.want = ""]
              [] st.want = "interval" /\ a \notin Dashed ->
                     [st EXCEPT !.res = IF a \in IntervalArgs THEN "ok" ELSE "error", !.want = ""]
              [] OTHER -> Flag([st EXCEPT !.want = ""], a)
        end == FoldLeft(Step, [opts |-> NoOpts, want |-> "", res |-> "ok"], args)
    IN IF /\ end.res = "ok"
          /\ \/ end.want \in {"node", "user"}
             \/ end.opts.color /\ end.opts.plain
             \/ end.opts.watch /\ end.opts.json
       THEN [end EXCEPT !.res = "error"] ELSE end

-----------------------------------------------------------------------------
Init ==
    /\ cpc = [c \in Clis |-> "start"] /\ opts = [c \in Clis |-> NoOpts]
    /\ asked = [c \in Clis |-> 0] /\ answer = [c \in Clis |-> None]
    /\ open = [c \in Clis |-> FALSE]
    /\ up = [c \in Clis |-> <<>>] /\ down = [c \in Clis |-> <<>>]
    /\ bpc = "down" /\ path = "absent" /\ private = TRUE
    /\ hpc = [c \in Clis |-> "none"] /\ hreq = [c \in Clis |-> None]
    /\ hsel = [c \in Clis |-> {}]
    /\ hnames = [c \in Clis |-> <<>>] /\ huid = [c \in Clis |-> None]
    /\ hout = [c \in Clis |-> None]
    /\ lock = None /\ rows = [n \in Nodes |-> Absent]
    /\ names = [u \in Uids |-> None]
    /\ refreshes = 0 /\ crashes = 0

-----------------------------------------------------------------------------
(* The CLI. *)

(* A CLI that ends closes its connection; lines it has not read are lost. *)
End(c, how) ==
    /\ cpc' = [cpc EXCEPT ![c] = how]
    /\ opts' = [opts EXCEPT ![c] = NoOpts]
    /\ asked' = [asked EXCEPT ![c] = 0] /\ answer' = [answer EXCEPT ![c] = None]
    /\ open' = [open EXCEPT ![c] = FALSE]
    /\ down' = [down EXCEPT ![c] = <<>>]

(* run: help is printed and counts as success. *)
Start(c) ==
    /\ cpc[c] = "start"
    /\ \E args \in ArgLists :
           LET parsed == parse_args(args)
           IN CASE parsed.res = "ok" ->
                       /\ opts' = [opts EXCEPT ![c] = parsed.opts]
                       /\ cpc' = [cpc EXCEPT ![c] = "connect"]
                       /\ UNCHANGED <<asked, answer, open, down>>
                [] parsed.res = "help" -> End(c, "ok")
                [] OTHER -> End(c, "failed")
    /\ UNCHANGED <<up, backVars, handVars, crashes>>

(* connect_backend: a listening socket takes the connection before anybody
   accepts it. *)
ConnectBackend(c) ==
    /\ cpc[c] = "connect" /\ path = "live"
    /\ cpc' = [cpc EXCEPT ![c] = "send"]
    /\ open' = [open EXCEPT ![c] = TRUE]
    /\ hpc' = [hpc EXCEPT ![c] = "backlog"]
    /\ UNCHANGED <<opts, asked, answer, up, down, backVars, hreq, hsel, hnames, huid, hout,
                   lock, rows, names, refreshes, crashes>>

ConnectFails(c) ==
    /\ cpc[c] = "connect" /\ (path # "live" \/ private)
    /\ End(c, "failed")
    /\ UNCHANGED <<up, backVars, handVars, crashes>>

(* query_stream, first half. *)
SendQuery(c) ==
    /\ cpc[c] = "send"
    /\ IF hpc[c] # "none"
       THEN /\ cpc' = [cpc EXCEPT ![c] = "read"]
            /\ asked' = [asked EXCEPT ![c] = @ + 1]
            /\ up' = [up EXCEPT ![c] = Append(@, [seq |-> asked[c] + 1,
                                                   filter |-> opts[c].filter,
                                                   user |-> opts[c].user])]
            /\ UNCHANGED <<opts, answer, open, down>>
       ELSE End(c, "failed") /\ UNCHANGED up
    /\ UNCHANGED <<backVars, handVars, crashes>>

(* query_stream, second half: one line is the answer.  A connection made for
   one query is closed before the answer is printed. *)
ReadAnswer(c) ==
    /\ cpc[c] = "read" /\ down[c] # <<>>
    /\ answer' = [answer EXCEPT ![c] = Head(down[c])]
    /\ cpc' = [cpc EXCEPT ![c] = "render"]
    /\ IF opts[c].watch
       THEN down' = [down EXCEPT ![c] = Tail(@)] /\ UNCHANGED open
       ELSE down' = [down EXCEPT ![c] = <<>>] /\ open' = [open EXCEPT ![c] = FALSE]
    /\ UNCHANGED <<opts, asked, up, backVars, handVars, crashes>>

(* No line, only the end of the stream: decode_response fails on the empty
   text. *)
ReadEnd(c) ==
    /\ cpc[c] = "read" /\ down[c] = <<>> /\ hpc[c] = "none"
    /\ End(c, "failed")
    /\ UNCHANGED <<up, backVars, handVars, crashes>>

(* write_stdout: a closed pipe ends the loop as a success. *)
Render(c) ==
    /\ cpc[c] = "render"
    /\ \/ IF opts[c].watch
          THEN cpc' = [cpc EXCEPT ![c] = "sleep"] /\ UNCHANGED <<opts, asked, answer, open, down>>
          ELSE End(c, "ok")
       \/ End(c, "ok")
       \/ End(c, "failed")
    /\ UNCHANGED <<up, backVars, handVars, crashes>>

Wake(c) ==
    /\ cpc[c] = "sleep" /\ asked[c] < MaxRounds
    /\ cpc' = [cpc EXCEPT ![c] = "send"]
    /\ UNCHANGED <<opts, asked, answer, open, up, down, backVars, handVars, crashes>>

(* The user stops the CLI. *)
Interrupt(c) ==
    /\ cpc[c] \notin Gone \cup {"start"}
    /\ End(c, "killed")
    /\ UNCHANGED <<up, backVars, handVars, crashes>>

-----------------------------------------------------------------------------
(* serve_on_uds. *)
Boot ==
    /\ bpc = "down"
    /\ bpc' = "clear"
    /\ UNCHANGED <<cliVars, up, down, path, private, handVars, crashes>>

(* Deviation: the file of the last run is left in place. *)
ClearPathNever ==
    /\ bpc = "clear" /\ bpc' = "bind"
    /\ UNCHANGED <<cliVars, up, down, path, private, handVars, crashes>>

(* serve_on_uds also ends when it cannot remove the file, make its directory or
   change its permissions; that these calls succeed is assumed here. *)
ClearPath ==
    /\ bpc = "clear"
    /\ bpc' = "bind" /\ path' = "absent"
    /\ UNCHANGED <<cliVars, up, down, private, handVars, crashes>>

(* Binding fails where there is a file; the backend then exits. *)
Bind ==
    /\ bpc = "bind"
    /\ IF path = "absent"
       THEN bpc' = "chmod" /\ path' = "live" /\ private' = TRUE
       ELSE bpc' = "exited" /\ UNCHANGED <<path, private>>
    /\ UNCHANGED <<cliVars, up, down, handVars, crashes>>

(* Assumed to succeed, like ClearPath. *)
SetPermissions ==
    /\ bpc = "chmod"
    /\ bpc' = "accept" /\ private' = FALSE
    /\ UNCHANGED <<cliVars, up, down, path, handVars, crashes>>

(* Every thread dies with the process; lines already written stay readable. *)
Crash ==
    /\ bpc \notin {"down", "exited"} /\ crashes < MaxCrashes
    /\ crashes' = crashes + 1
    /\ bpc' = "down" /\ path' = (IF path = "live" THEN "stale" ELSE path)
    /\ hpc' = [c \in Clis |-> "none"] /\ hreq' = [c \in Clis |-> None]
    /\ hsel' = [c \in Clis |-> {}]
    /\ hnames' = [c \in Clis |-> <<>>] /\ huid' = [c \in Clis |-> None]
    /\ hout' = [c \in Clis |-> None]
    /\ up' = [c \in Clis |-> <<>>]
    /\ lock' = None /\ rows' = [n \in Nodes |-> Absent] /\ names' = [u \in Uids |-> None]
    /\ UNCHANGED <<cliVars, down, private, refreshes>>

-----------------------------------------------------------------------------
(* handle_client, one thread per connection. *)
Goto(c, where) == hpc' = [hpc EXCEPT ![c] = where]

Accept(c) ==
    /\ bpc = "accept" /\ hpc[c] = "backlog"
    /\ Goto(c, "read")
    /\ UNCHANGED <<cliVars, up, down, backVars, hreq, hsel, hnames, huid, hout, lock, rows, names,
                   refreshes, crashes>>

ReadLine(c) ==
    /\ hpc[c] = "read" /\ up[c] # <<>>
    /\ hreq' = [hreq EXCEPT ![c] = Head(up[c])]
    /\ up' = [up EXCEPT ![c] = Tail(@)]
    /\ Goto(c, "refresh")
    /\ UNCHANGED <<cliVars, down, backVars, hsel, hnames, huid, hout, lock, rows, names, refreshes,
                   crashes>>

ReadEof(c) ==
    /\ hpc[c] = "read" /\ up[c] = <<>> /\ ~open[c]
    /\ Goto(c, "none")
    /\ UNCHANGED <<cliVars, up, down, backVars, hreq, hsel, hnames, huid, hout, lock, rows, names,
                   refreshes, crashes>>

(* reconcile_discovery_for_query and refresh_stale_cache_for_query. *)
Refresh(c) ==
    /\ hpc[c] = "refresh" /\ lock = None
    /\ Goto(c, "lock")
    /\ \/ UNCHANGED <<rows, refreshes>>
       \/ /\ refreshes < MaxRefreshes /\ refreshes' = refreshes + 1
          /\ \E n \in Nodes, r \in Snapshots \cup {NoSnapshot} : rows' = [rows EXCEPT ![n] = r]
    /\ UNCHANGED <<cliVars, up, down, backVars, hreq, hsel, hnames, huid, hout, lock, names, crashes>>

(* Deviation: the rows are copied and the mutex is released at once. *)
LockRowsBriefly(c) ==
    /\ hpc[c] = "lock" /\ lock = None
    /\ Goto(c, "build")
    /\ hsel' = [hsel EXCEPT ![c] = {n \in Nodes : n \in hreq[c].filter /\ rows[n] # Absent}]
    /\ UNCHANGED <<cliVars, up, down, backVars, hreq, hnames, huid, hout, lock, rows, names,
                   refreshes, crashes>>

(* The mutex of the rows is held until the answer is built; the filter is
   matched first. *)
LockRows(c) ==
    /\ hpc[c] = "lock" /\ lock = None
    /\ lock' = c /\ Goto(c, "build")
    /\ hsel' = [hsel EXCEPT ![c] = {n \in Nodes : n \in hreq[c].filter /\ rows[n] # Absent}]
    /\ UNCHANGED <<cliVars, up, down, backVars, hreq, hnames, huid, hout, rows, names,
                   refreshes, crashes>>

(* The uid to name next. *)
Unnamed(c) == UidsOf(rows, hsel[c]) \ DOMAIN hnames[c]
NextUid(c) == CHOOSE u \in Unnamed(c) : \A v \in Unnamed(c) : u <= v

(* The names a handler knows, with one more. *)
Learn(known, uid, name) == [u \in DOMAIN known \cup {uid} |-> IF u = uid THEN name ELSE known[u]]

(* username_for_uid, first half: a name in the cache is used. *)
CacheHit(c) ==
    /\ hpc[c] = "build" /\ Unnamed(c) # {} /\ names[NextUid(c)] # None
    /\ hnames' = [hnames EXCEPT ![c] = Learn(@, NextUid(c), names[NextUid(c)])]
    /\ UNCHANGED <<cliVars, up, down, backVars, hpc, hreq, hsel, huid, hout, lock, rows, names,
                   refreshes, crashes>>

CacheMiss(c) ==
    /\ hpc[c] = "build" /\ Unnamed(c) # {} /\ names[NextUid(c)] = None
    /\ huid' = [huid EXCEPT ![c] = NextUid(c)] /\ Goto(c, "getent")
    /\ UNCHANGED <<cliVars, up, down, backVars, hreq, hsel, hnames, hout, lock, rows, names,
                   refreshes, crashes>>

(* ... second half: whatever getent came to is kept, a failure as well. *)
Getent(c) ==
    /\ hpc[c] = "getent"
    /\ \E found \in BOOLEAN :
           LET name == resolve_username(huid[c], found)
           IN /\ names' = [names EXCEPT ![huid[c]] = name]
              /\ hnames' = [hnames EXCEPT ![c] = Learn(@, huid[c], name)]
    /\ huid' = [huid EXCEPT ![c] = None] /\ Goto(c, "build")
    /\ UNCHANGED <<cliVars, up, down, backVars, hreq, hsel, hout, lock, rows, refreshes, crashes>>

(* Deviation: no answer is written when no node is left to show. *)
BuildAnswerUnlessEmpty(c) ==
    /\ hpc[c] = "build" /\ Unnamed(c) = {}
    /\ hout' = [hout EXCEPT ![c] =
           [req |-> hreq[c],
            nodes |-> build_query_response(rows, hsel[c], hreq[c].user, hnames[c])]]
    /\ hreq' = [hreq EXCEPT ![c] = None] /\ hsel' = [hsel EXCEPT ![c] = {}]
    /\ hnames' = [hnames EXCEPT ![c] = <<>>] /\ lock' = None
    /\ Goto(c, IF hsel[c] = {} THEN "read" ELSE "write")
    /\ UNCHANGED <<cliVars, up, down, backVars, huid, rows, names, refreshes, crashes>>

BuildAnswer(c) ==
    /\ hpc[c] = "build" /\ Unnamed(c) = {}
    /\ hout' = [hout EXCEPT ![c] =
           [req |-> hreq[c],
            nodes |-> build_query_response(rows, hsel[c], hreq[c].user, hnames[c])]]
    /\ hreq' = [hreq EXCEPT ![c] = None] /\ hsel' = [hsel EXCEPT ![c] = {}]
    /\ hnames' = [hnames EXCEPT ![c] = <<>>] /\ lock' = None /\ Goto(c, "write")
    /\ UNCHANGED <<cliVars, up, down, backVars, huid, rows, names, refreshes, crashes>>

(* Deviation: the line is written again when flushing reports an error. *)
WriteAnswerTwice(c) ==
    /\ hpc[c] = "write"
    /\ IF open[c]
       THEN down' = [down EXCEPT ![c] = @ \o <<hout[c], hout[c]>>] /\ Goto(c, "read")
       ELSE UNCHANGED down /\ Goto(c, "none")
    /\ hout' = [hout EXCEPT ![c] = None]
    /\ UNCHANGED <<cliVars, up, backVars, hreq, hsel, hnames, huid, lock, rows, names, refreshes,
                   crashes>>

(* Writing to a CLI that is gone ends the thread. *)
WriteAnswer(c) ==
    /\ hpc[c] = "write"
    /\ IF open[c]
       THEN down' = [down EXCEPT ![c] = Append(@, hout[c])] /\ Goto(c, "read")
       ELSE UNCHANGED down /\ Goto(c, "none")
    /\ hout' = [hout EXCEPT ![c] = None]
    /\ UNCHANGED <<cliVars, up, backVars, hreq, hsel, hnames, huid, lock, rows, names, refreshes,
                   crashes>>

-----------------------------------------------------------------------------
CliStep(c) ==
    ConnectBackend(c) \/ ConnectFails(c) \/ SendQuery(c) \/ ReadAnswer(c) \/ ReadEnd(c)
    \/ Render(c) \/ Wake(c)
HandlerStep(c) ==
    Accept(c) \/ ReadLine(c) \/ ReadEof(c) \/ Refresh(c) \/ LockRows(c) \/ CacheHit(c)
    \/ CacheMiss(c) \/ Getent(c) \/ BuildAnswer(c) \/ WriteAnswer(c)
BootStep == ClearPath \/ Bind \/ SetPermissions

Next ==
    \/ \E c \in Clis : Start(c) \/ Interrupt(c) \/ CliStep(c) \/ HandlerStep(c)
    \/ Boot \/ BootStep \/ Crash

(* Processes and threads that can run do: the waits of a handler are bounded
   by the transport's timeouts and by getent.  Nobody has to start a CLI or the
   backend, stop a CLI or crash. *)
Fairness ==
    /\ \A c \in Clis : WF_vars(CliStep(c)) /\ WF_vars(HandlerStep(c))
    /\ WF_vars(BootStep)

Spec == Init /\ [][Next]_vars /\ Fairness

-----------------------------------------------------------------------------
(* What a CLI prints answers the query it sent last, whatever was interrupted
   or crashed before: query_stream reads one line per query and drops its
   buffer, so a line too many would put every later round one answer behind. *)
AnswerInStep ==
    \A c \in Clis : cpc[c] \in {"render", "sleep"} =>
        answer[c].req = [seq |-> asked[c], filter |-> opts[c].filter, user |-> opts[c].user]

(* As long as a backend runs, a uid keeps the name it was first shown by:
   username_for_uid looks up and stores under two separate locks of the cache,
   and only the mutex of the rows keeps two queries from doing so at once. *)
NameStable ==
    [][\A u \in Uids : names[u] # None => names'[u] = names[u] \/ bpc' = "down"]_vars

(* For a user typed without blanks, -user shows exactly what the table without
   it shows under that name: the backend's filter (apply_user_filter) and the
   CLI's (should_render_gres, visible_processes) agree, stale nodes stay, and a
   device is shown only if something on it is left. *)
ShownNames == {Account[u] : u \in Uids} \cup {ToString(u) : u \in Uids} \cup {"?"}
UserFilterAgrees ==
    \A c \in Clis : hpc[c] = "build" /\ Unnamed(c) = {} =>
        \A name \in ShownNames :
            LET user == [name |-> name, pad |-> FALSE]
                whole == render_table(build_query_response(rows, hsel[c], NoUser, hnames[c]), NoUser)
                own == render_table(build_query_response(rows, hsel[c], user, hnames[c]), user)
            IN /\ Listed(own) = {x \in Listed(whole) : x.user = name}
               /\ {t \in own : t.stale} = {t \in whole : t.stale}
               /\ \A t \in own : \A g \in DOMAIN t.rows : t.rows[g] # {}

(* A CLI and the thread that serves it never wait for each other in vain: a
   CLI that waits for an answer gets one or fails, even if the backend crashes
   before it accepts the connection; the thread of a CLI that has gone ends,
   whether it was reading, building an answer or writing it. *)
NobodyHangs ==
    \A c \in Clis : /\ (cpc[c] = "read") ~> (cpc[c] # "read")
                    /\ (hpc[c] # "none" /\ cpc[c] \in Gone) ~> (hpc[c] = "none")

(* A backend started again after a crash listens again, over the socket file
   the crash left behind, provided it may remove that file and set the
   permissions of its own. *)
RestartListens == (bpc = "clear") ~> (bpc = "accept" \/ bpc = "down")

(* wildcard_match against its reference; the value does not depend on the
   state and is looked at before anything has happened. *)
WildcardIsGlob == Init => GlobAgrees

(* parse against its reference, likewise. *)
FilterReadsBack == Init => ReadsBack
=============================================================================
