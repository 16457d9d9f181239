---------------------------- MODULE MCAccounts -----------------------------
(* Instances of Accounts for TLC. *)
EXTENDS Accounts

Size(requests, asking, granted, browsers, limits) ==
  [requests |-> requests, asking |-> asking, granted |-> granted, browsers |-> browsers,
   now |-> limits[1], boots |-> limits[2],
   links |-> limits[3], workspaces |-> limits[4], sessions |-> limits[5], forms |-> limits[6],
   grants |-> limits[7], hosts |-> limits[8]]

MCSizes == {
  \* two browsers race over the links of one address
  Size({"r1"}, {"ann"}, {}, {"b1", "b2"}, <<1, 1, 2, 2, 2, 2, 0, 0>>),
  \* two people use one browser, one after the other, and leave pages open
  Size({}, {}, {"ann", "bob"}, {"b1"}, <<0, 0, 2, 2, 2, 3, 2, 1>>),
  \* addresses ask for links while the limiter forgets
  Size({"r1"}, {"ann", "bob", "cy"}, {}, {}, <<3, 0, 3, 0, 0, 0, 0, 0>>),
  \* two requests for one address overlap, and are held up between their calls
  Size({"r1", "r2"}, {"ann"}, {}, {}, <<3, 1, 3, 0, 0, 0, 0, 0>>)}
=============================================================================
