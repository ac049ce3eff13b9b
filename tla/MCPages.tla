------------------------------ MODULE MCPages -------------------------------
(***************************************************************************)
(* Small pages for TLC.  The user list has pages of one row and two        *)
(* accounts, of which one is deactivated, and its dialog two policies that *)
(* share an action; there is one policy at first, a second that may be     *)
(* made, and two resource types; two passkeys or sessions, of which one is *)
(* this browser's, and a third to add; two mailed links; two pages of the  *)
(* caller's own log entries, and one entry more that may be written today; *)
(* one counter at its limit and one lockout, each on a page of its own.    *)
(***************************************************************************)
EXTENDS Pages

MCOrder == <<"me", "ann">>

MCContents ==
    [p \in {"p1", "p2"} |-> IF p = "p1" THEN {<<"read", "users">>, <<"edit", "users">>} ELSE {<<"read", "users">>}]
MCAccessCatalog == {<<"read", "users">>, <<"edit", "users">>}
MCHoldings      == {{"p1"}}

MCCatalog == [t \in {"users", "logs"} |-> IF t = "users" THEN {"read", "edit"} ELSE {"audit"}]
MCStart   == [n \in {"p1"} |-> [active |-> TRUE, actions |-> {"read"}, type |-> "users", text |-> ""]]

Entry(kind, day) ==
    [user |-> "me", kind |-> kind, group |-> "users", ip |-> "", ok |-> "true", day |-> day]
MCEntries  == <<Entry("read", 1), Entry("edit", 1), Entry("edit", 1), Entry("edit", 2)>>
MCLogLinks == {[category |-> "", scope |-> ""], [category |-> "security", scope |-> "all"]}
MCKept     ==
    {[set |-> [search |-> "", kind |-> "read", group |-> "", ip |-> "", result |-> "false"],
      sortDir |-> "asc", time |-> [range |-> "14", from |-> 0, to |-> 0]]}

MCCounters == <<[endpoint |-> "login", identifier |-> "x", scope |-> "ip", full |-> TRUE],
                [endpoint |-> "login_lock", identifier |-> "y", scope |-> "account", full |-> FALSE]>>
=============================================================================
