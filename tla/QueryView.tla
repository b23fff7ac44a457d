----------------------------- MODULE QueryView ------------------------------
(***************************************************************************)
(* What a query shows: the backend turns rows into node views              *)
(* (crates/client-backend/src/adapter.rs), the CLI turns the views into a  *)
(* table (crates/client-cli/src/render.rs).  Both filter by user.          *)
(*                                                                         *)
(* A row is Absent, NoSnapshot, or a function from device index to the set *)
(* of processes on the device.  A user name is a string; the text a user   *)
(* types is a name and whether there are blanks around it.  Order, colours *)
(* and widths of the table are left out.                                   *)
(***************************************************************************)
EXTENDS NodeFilter, TLC

CONSTANTS Nodes,        \* the nodes, as records [id, host, ip, addr] of texts
          Absent, NoSnapshot,
          UnknownUid,   \* u32::MAX, a process whose owner is not known
          Account       \* uid -> name, what getent answers when it works

NoUser == [name |-> "", pad |-> FALSE]
Blank(user) == user.name = ""

(* The CLI trims the user it was given; the backend does not. *)
normalized_user_filter(user) == [user EXCEPT !.pad = FALSE]

(* resolve_username_for_uid and its fallback, the number itself. *)
resolve_username(uid, found) == IF found THEN Account[uid] ELSE ToString(uid)

-----------------------------------------------------------------------------
(* The nodes a filter text selects. *)
SelectedBy(filter) == {n \in Nodes : matches_target(parse(filter), n)}

(* The uids build_query_response has to name: those of the selected rows, but
   for the unknown one. *)
UidsOf(rows, sel) ==
    (UNION {{p.uid : p \in UNION {rows[n][g] : g \in DOMAIN rows[n]}} :
               n \in {m \in sel : rows[m] # NoSnapshot}}) \ {UnknownUid}

username_for_uid(uid, names) == IF uid = UnknownUid THEN "?" ELSE names[uid]

(* A row without a snapshot is stale and has no devices. *)
node_view_from_entry(n, row, names) ==
    IF row = NoSnapshot THEN [id |-> n.id, stale |-> TRUE, gres |-> <<>>]
    ELSE [id |-> n.id, stale |-> FALSE,
          gres |-> [g \in DOMAIN row |->
                       {[pid |-> p.pid, uid |-> p.uid,
                         username |-> username_for_uid(p.uid, names)] : p \in row[g]}]]

(* Deviation: the backend removes the devices, too. *)
apply_user_filter_devices(view, user) ==
    IF user = NoUser THEN view
    ELSE [view EXCEPT !.gres = <<>>]

(* Compares with the text as it was typed: nothing is left for a padded one. *)
apply_user_filter(view, user) ==
    IF user = NoUser THEN view
    ELSE [view EXCEPT !.gres = [g \in DOMAIN view.gres |->
             {p \in view.gres[g] : [name |-> p.username, pad |-> FALSE] = user}]]

build_query_response(rows, sel, user, names) ==
    {apply_user_filter(node_view_from_entry(n, rows[n], names), user) : n \in sel}

-----------------------------------------------------------------------------
(* The CLI trusts the backend's name unless it is missing. *)
display_username(p) ==
    IF p.username \notin {"", "?"} THEN p.username
    ELSE IF p.uid = 0 THEN "root"
    ELSE IF p.uid = UnknownUid THEN "?"
    ELSE Account[p.uid]

visible_processes(ps, user) ==
    {p \in ps : Blank(user) \/ display_username(p) = normalized_user_filter(user).name}

should_render_gres(ps, user) == Blank(user) \/ visible_processes(ps, user) # {}

(* The rows of the table: a device per row, and a header for a stale node. *)
render_table(nodes, user) ==
    LET visible(v) == {g \in DOMAIN v.gres : should_render_gres(v.gres[g], user)}
    IN {[id |-> v.id, stale |-> v.stale,
         rows |-> [g \in visible(v) |-> visible_processes(v.gres[g], user)]] :
           v \in {w \in nodes : visible(w) # {} \/ w.stale}}

(* The processes of a table, each with its place and the name it is shown by. *)
Listed(table) ==
    UNION {UNION {{[id |-> t.id, gres |-> g, pid |-> p.pid, user |-> display_username(p)] :
                      p \in t.rows[g]} : g \in DOMAIN t.rows} : t \in table}
=============================================================================
