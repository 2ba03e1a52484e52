------------------------------ MODULE MCLifted ------------------------------
(***************************************************************************)
(* Six small lifted tasks for LiftedAnalyses, and one with a constant in  *)
(* a schema.                                                               *)
(***************************************************************************)
EXTENDS LiftedAnalyses

CONSTANTS Truck, Van, Parcel, L1, L2, L3, Red, Blue, Home

At(a) == IsAtom(a)
All(fs) == [kind |-> "and", parts |-> fs]
Some(fs) == [kind |-> "or", parts |-> fs]
Differ(x, y) == [kind |-> "neq", terms |-> <<x, y>>]
Forall(vs, f) == [kind |-> "forall", params |-> vs, body |-> f]
Exists(vs, f) == [kind |-> "exists", params |-> vs, body |-> f]
Add(a) == [params |-> <<>>, cond |-> Truth, neg |-> FALSE, atom |-> a]
Del(a) == [Add(a) EXCEPT !.neg = TRUE]
Under(e, cond) == [e EXCEPT !.cond = cond]
Each(e, vs) == [e EXCEPT !.params = vs]
Action(name, types, params, pre, effects, cost) ==
  [name |-> name, params |-> params, types |-> types, pre |-> pre, effects |-> effects, cost |-> cost]

\* A truck on a road of three places carries a parcel to the end.
Delivery ==
  [preds |-> [at |-> 2, lies |-> 2, in |-> 2, road |-> 2],
   objects |-> [truck |-> <<Truck>>, parcel |-> <<Parcel>>, place |-> <<L1, L2, L3>>],
   schemas |-> <<
     Action("drive", [t |-> "truck", x |-> "place", y |-> "place"], <<"t", "x", "y">>,
            All(<<At(<<"at", "t", "x">>), At(<<"road", "x", "y">>)>>),
            <<Del(<<"at", "t", "x">>), Add(<<"at", "t", "y">>)>>, 2),
     Action("load", [p |-> "parcel", t |-> "truck", x |-> "place"], <<"p", "t", "x">>,
            All(<<At(<<"at", "t", "x">>), At(<<"lies", "p", "x">>)>>),
            <<Del(<<"lies", "p", "x">>), Add(<<"in", "p", "t">>)>>, 1),
     Action("unload", [p |-> "parcel", t |-> "truck", x |-> "place"], <<"p", "t", "x">>,
            All(<<At(<<"at", "t", "x">>), At(<<"in", "p", "t">>)>>),
            <<Del(<<"in", "p", "t">>), Add(<<"lies", "p", "x">>)>>, 1)>>,
   init |-> {<<"at", Truck, L1>>, <<"lies", Parcel, L1>>,
             <<"road", L1, L2>>, <<"road", L2, L3>>, <<"road", L2, L1>>},
   goal |-> At(<<"lies", Parcel, L3>>)]

\* Lamps with a conditional, a quantified and a negated condition, and a
\* disjunction in the goal.
Lamps ==
  [preds |-> [power |-> 0, lit |-> 1, wired |-> 2, warm |-> 1],
   objects |-> [lamp |-> <<Red, Blue>>],
   schemas |-> <<
     Action("press", [x |-> "lamp", r |-> "lamp"], <<"x">>, IsNot(<<"lit", "x">>),
            <<Under(Add(<<"lit", "x">>), At(<<"power">>)),
              Each(Under(Add(<<"warm", "r">>), At(<<"wired", "x", "r">>)), <<"r">>)>>, 1),
     Action("cut", [x |-> "lamp"], <<>>, Exists(<<"x">>, At(<<"lit", "x">>)), <<Del(<<"power">>)>>, 1),
     Action("cool", [x |-> "lamp", y |-> "lamp"], <<"x", "y">>,
            All(<<Differ("x", "y"), At(<<"warm", "x">>),
                  Some(<<IsNot(<<"power">>), At(<<"warm", "y">>)>>)>>),
            <<Del(<<"warm", "x">>), Del(<<"lit", "x">>)>>, 3)>>,
   init |-> {<<"power">>, <<"wired", Red, Blue>>, <<"wired", Red, Red>>},
   goal |-> All(<<IsNot(<<"power">>), At(<<"lit", Red>>)>>)]

\* Parameters no clause mentions together, a delete of what need not be true,
\* and a goal with a dearer and a cheaper achiever.
Pairing ==
  [preds |-> [free |-> 1, lamp |-> 1, held |-> 1, bound |-> 2],
   objects |-> [place |-> <<L1, L2>>, lamp |-> <<Red, Blue>>],
   schemas |-> <<
     Action("grab", [x |-> "place", y |-> "lamp", z |-> "lamp"], <<"x", "y", "z">>,
            All(<<At(<<"free", "x">>), At(<<"lamp", "y">>)>>),
            <<Del(<<"free", "x">>), Add(<<"held", "x">>),
              Del(<<"bound", "x", "z">>), Add(<<"bound", "x", "y">>)>>, 1),
     Action("drop", [x |-> "place"], <<"x">>, At(<<"held", "x">>),
            <<Del(<<"held", "x">>), Add(<<"free", "x">>)>>, 1),
     Action("swap", [x |-> "place", y |-> "place"], <<"x", "y">>,
            All(<<At(<<"held", "x">>), At(<<"free", "y">>)>>),
            <<Del(<<"held", "x">>), Del(<<"free", "y">>), Add(<<"held", "y">>), Add(<<"free", "x">>)>>, 2)>>,
   init |-> {<<"free", L1>>, <<"held", L2>>, <<"lamp", Red>>, <<"lamp", Blue>>},
   goal |-> All(<<At(<<"bound", L1, Red>>), At(<<"bound", L2, Blue>>)>>)]

\* A door opens once the key is fetched; every lamp lit, or none, rings the
\* bell, which is wanted, and the bell is muffled while a lamp is warm.
Bell ==
  [preds |-> [has |-> 1, open |-> 1, lit |-> 1, rung |-> 0, key |-> 2, muffled |-> 0, seen |-> 2],
   objects |-> [place |-> <<L1, L2>>, lamp |-> <<Red, Blue>>],
   schemas |-> <<
     Action("fetch", [x |-> "place", y |-> "place"], <<"x", "y">>,
            All(<<At(<<"open", "x">>), At(<<"key", "x", "y">>)>>), <<Add(<<"has", "y">>)>>, 0),
     Action("unlock", [x |-> "place"], <<"x">>, At(<<"has", "x">>),
            <<Add(<<"open", "x">>), Del(<<"has", "x">>)>>, 1),
     Action("light", [x |-> "place", l |-> "lamp", r |-> "lamp"], <<"x", "l">>,
            Exists(<<"r">>, All(<<At(<<"open", "x">>), At(<<"seen", "l", "r">>)>>)),
            <<Add(<<"lit", "l">>), Each(Under(Del(<<"lit", "r">>), IsNot(<<"seen", "r", "r">>)), <<"r">>),
              Under(Add(<<"muffled">>), At(<<"has", "x">>))>>, 1),
     Action("ring", [r |-> "lamp"], <<>>,
            All(<<Forall(<<"r">>, Some(<<At(<<"lit", "r">>), IsNot(<<"seen", "r", "r">>)>>)),
                  IsNot(<<"muffled">>)>>),
            <<Add(<<"rung">>)>>, 2)>>,
   init |-> {<<"open", L1>>, <<"key", L1, L2>>, <<"seen", Red, Red>>, <<"seen", Blue, Red>>},
   goal |-> All(<<At(<<"rung">>), At(<<"open", L2>>)>>)]

\* Two vans meet in the middle: no single van makes the journey.
Relay ==
  [Delivery EXCEPT
     !.preds = [at |-> 2, lies |-> 2, in |-> 2, road |-> 3],
     !.objects.truck = <<Truck, Van>>,
     !.schemas[1] =
        Action("drive", [t |-> "truck", x |-> "place", y |-> "place"], <<"t", "x", "y">>,
               All(<<At(<<"at", "t", "x">>), At(<<"road", "t", "x", "y">>)>>),
               <<Del(<<"at", "t", "x">>), Add(<<"at", "t", "y">>)>>, 2),
     !.init = {<<"at", Truck, L1>>, <<"at", Van, L2>>, <<"lies", Parcel, L1>>,
               <<"road", Truck, L1, L2>>, <<"road", Van, L2, L3>>, <<"road", Van, L3, L2>>}]

\* Roads that cost nothing: one predicate holds at no cost on every layer.  A
\* van has to be started, and may then go back and forth for nothing.
FreeRoads ==
  [Delivery EXCEPT
     !.preds = [at |-> 2, lies |-> 2, in |-> 2, road |-> 2, parked |-> 1],
     !.objects.truck = <<Truck, Van>>,
     !.schemas[1].cost = 0,
     !.schemas[3] = Action("start", [t |-> "truck"], <<"t">>, At(<<"parked", "t">>),
                           <<Del(<<"parked", "t">>), Add(<<"at", "t", L1>>)>>, 1),
     !.init = @ \cup {<<"parked", Van>>},
     !.goal = All(<<At(<<"in", Parcel, Van>>), At(<<"at", Van, L2>>)>>)]

\* home is a constant: leaving it is balanced for home alone.
Homecoming ==
  [preds |-> [at |-> 2, in |-> 2],
   objects |-> [truck |-> <<Truck>>, place |-> <<Home, L1>>, bay |-> <<Red>>],
   schemas |-> <<
     Action("park", [t |-> "truck", b |-> "bay"], <<"t", "b">>, At(<<"at", "t", Home>>),
            <<Del(<<"at", "t", Home>>), Add(<<"in", "t", "b">>)>>, 1),
     Action("leave", [t |-> "truck", b |-> "bay"], <<"t", "b">>, At(<<"in", "t", "b">>),
            <<Del(<<"in", "t", "b">>), Add(<<"at", "t", Home>>)>>, 1),
     Action("visit", [t |-> "truck", x |-> "place"], <<"t", "x">>, At(<<"in", "t", Red>>),
            <<Add(<<"at", "t", "x">>)>>, 1)>>,
   init |-> {<<"in", Truck, Red>>},
   goal |-> At(<<"at", Truck, L1>>)]

CheckedTasks == {Delivery, Lamps, Pairing, Bell, Relay, FreeRoads}
TasksWithConstants == {Homecoming}
=============================================================================
