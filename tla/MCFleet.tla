------------------------------- MODULE MCFleet -------------------------------
(* Instances of Fleet: app needs lib, alt conflicts with app. *)
EXTENDS Fleet, TLC

CONSTANTS p1, p2, lib, app, alt, core, extra

MCProcs == {p1, p2}
MCFormulae == {lib, app, alt}
MCTaps == {core, extra}
MCOrder == <<lib, app, alt>>

\* app came to need lib with its second version.
MCNeeds == [f \in MCFormulae |->
              [v \in 1 .. 2 |-> IF f = app /\ v = 2 THEN {lib} ELSE {}]]

MCConflicts == (lib :> {}) @@ (app :> {alt}) @@ (alt :> {app})
MCTapOf == (lib :> core) @@ (app :> extra) @@ (alt :> extra)

Keg1(req) == [kegs |-> (1 :> req), linked |-> 1, pinned |-> 0]
Keg2(req) == [kegs |-> (2 :> req), linked |-> 2, pinned |-> 0]
Unlinked(req) == [Keg2(req) EXCEPT !.linked = 0]
Two(linked) == [kegs |-> (1 :> TRUE) @@ (2 :> FALSE), linked |-> linked, pinned |-> 0]
Pinned == [Keg1(FALSE) EXCEPT !.pinned = 1]

MCRacks == (lib :> {Absent, Keg1(FALSE), Keg2(FALSE), Two(2), Pinned})
           @@ (app :> {Absent, Keg1(TRUE), Keg2(FALSE), Two(1)})
           @@ (alt :> {Absent, Unlinked(TRUE), Keg2(TRUE)})

Base == [op |-> "install", names |-> <<>>, taps |-> {}, force |-> FALSE,
         ignore |-> FALSE, autoremove |-> FALSE, noUpgrade |-> FALSE]
Run(op, names) == [Base EXCEPT !.op = op, !.names = names]

Installs == {Run("install", <<f>>) : f \in MCFormulae}
              \cup {Run("install", <<app, lib>>),
                   [Run("install", <<app>>) EXCEPT !.force = TRUE],
                   [Run("install", <<app>>) EXCEPT !.noUpgrade = TRUE]}

MCCommands ==
  Installs \cup
  {Run("reinstall", <<lib>>), Run("upgrade", <<>>), Run("upgrade", <<app>>),
   Run("uninstall", <<lib>>), [Run("uninstall", <<app>>) EXCEPT !.autoremove = TRUE],
   [Run("uninstall", <<lib>>) EXCEPT !.ignore = TRUE, !.force = TRUE],
   Run("autoremove", <<>>), Run("link", <<alt>>), Run("unlink", <<alt>>),
   [Run("untap", <<>>) EXCEPT !.taps = {extra}],
   [Run("untap", <<>>) EXCEPT !.taps = {extra}, !.force = TRUE]}

\* A request for two formulae that conflict.
BothCommands == {Run("install", <<app, alt>>), Run("unlink", <<alt>>)}

=============================================================================
