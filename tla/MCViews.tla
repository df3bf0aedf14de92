------------------------------ MODULE MCViews ------------------------------
(***************************************************************************)
(* Model values for Views.  What a tour leaves alone has one initial state *)
(* here, or few; one profile is stored at first and the first tab is the   *)
(* active one.                                                             *)
(***************************************************************************)
EXTENDS Views

CONSTANTS d1, r1, u1, all, g1, g2, p1, p2, p3, t1, t2

MCDevice == {d1}
MCRole == {r1}
MCUser == {u1}
MCGroup == {all, g1, g2}
MCProfile == {p1, p2, p3}
MCTab == {t1, t2}

\* Two stages that differ and one larger than a display may be.
MCStage == {<<7, 5>>, <<8, 5>>, <<24, 10>>}

MCInit ==
  /\ ViewsInit
  /\ tour # "administration" => srv.exists = {d1} /\ srv.of[d1] = {}
  /\ tour # "display" => stage = <<7, 5>>
  /\ tour # "clipboard" => width = 9
  /\ castTab = t1 /\ {p \in MCProfile : stored[p] # None} = {p1}
  /\ tour # "mapping" => ~cast.behind /\ \A t \in MCTab : ~tabs[t].enabled

MCSpec == MCInit /\ [][ViewsNext]_views
=============================================================================
