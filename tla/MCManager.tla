------------------------------ MODULE MCManager ------------------------------
(***************************************************************************)
(* One command line runs two packages on two images in two zones: one      *)
(* package locks its project, the other is skipped on the first image.     *)
(* The others only print or validate.                                      *)
(***************************************************************************)
EXTENDS Manager

FourTests == <<"lock-i1", "lock-i2", "free-i1", "free-i2">>
Lockers == {"lock-i1", "lock-i2"}
Skippers == {"free-i1"}
BetaTests == {"lock-i2"}

Packages == <<"lock", "free", "odd">>
SuiteName == [lock |-> [i1 |-> "lock-i1", i2 |-> "lock-i2"],
              free |-> [i1 |-> "free-i1", i2 |-> "free-i2"]]
ArchOf == [i1 |-> "x86", i2 |-> "arm64", i3 |-> "x86"]

Img(n, path, keys) == [name |-> n, path |-> path, keys |-> keys]
Fam(f, dep) == [family |-> f, deprecated |-> dep]

Command ==
  [project |-> "p", zone |-> "z1", zones |-> <<"z1", "z2">>,
   images |-> <<Img("i1", TRUE, {}), Img("i2", FALSE, {3, 4})>>, families |-> <<>>, arch |-> None,
   filter |-> {"lock", "free"}, exclude |-> {}, mode |-> "run", setExitStatus |-> TRUE]

Listing == [Command EXCEPT !.mode = "print"]

CommandLines ==
  {Command,
   [Listing EXCEPT !.filter = {"lock", "free", "odd"}, !.exclude = {"free"}],
   [Listing EXCEPT !.zones = <<"z1", "z2", "z3">>, !.filter = {"lock", "free", "odd"}],
   [Listing EXCEPT !.zones = <<>>, !.mode = "validate"],
   [Listing EXCEPT !.images = <<>>, !.mode = "validate",
                 !.families = <<Fam("i1", TRUE), Fam("i2", FALSE), Fam("i1", FALSE), Fam("i2", FALSE)>>],
   [Listing EXCEPT !.images = @ \o <<Img(None, FALSE, {}), Img("i3", TRUE, {})>>, !.arch = "x86"],
   [Listing EXCEPT !.images = @ \o <<Img("i3", FALSE, {})>>],
   [Listing EXCEPT !.filter = {"none of them"}],
   [Listing EXCEPT !.project = None]}
=============================================================================
