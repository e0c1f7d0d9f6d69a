---------------------------- MODULE MCMigrations ----------------------------
(* An instance of Migrations for TLC: the files under be/db that move the      *)
(* owned cards to a table of copies, the tables they refer to, and fixtures.   *)
EXTENDS Migrations

File(name, needs, makes, drops, fills) ==
    [name |-> name, needs |-> needs, makes |-> makes, unless |-> FALSE,
     drops |-> drops, fills |-> fills]

MCThings == {"users", "records", "owned", "paid", "copies", "testuser",
             "testrecord", "copyrows"}
MCRefers == {<<"records", "users">>, <<"owned", "users">>, <<"copies", "users">>}

MCUp == <<
    File("up1", {}, {"users"}, {}, {}),
    File("up2", {"users"}, {"records"}, {}, {}),
    File("up9", {"users"}, {"owned"}, {}, {}),
    File("up10", {"owned"}, {"paid"}, {}, {}),
    File("up16", {"users"}, {"copies"}, {}, {}),
    File("up17", {"owned", "paid", "copies"}, {}, {}, {"copyrows"}),
    File("up18", {"owned"}, {}, {"owned", "paid"}, {})>>

MCDown == <<
    File("down1", {}, {}, {"users", "testuser"}, {}),
    File("down2", {}, {}, {"records", "testrecord"}, {}),
    File("down9", {}, {}, {"owned", "paid"}, {}),
    File("down10", {"paid"}, {}, {"paid"}, {}),
    File("down16", {}, {}, {"copies", "copyrows"}, {}),
    File("down17", {"copies"}, {}, {"copyrows"}, {}),
    [File("down18", {"users"}, {"owned", "paid"}, {}, {}) EXCEPT !.unless = TRUE]>>

MCSeeds == <<
    File("seed1", {"users"}, {"testuser"}, {}, {}),
    File("seed2", {"records", "testuser"}, {}, {}, {"testrecord"})>>
=============================================================================
