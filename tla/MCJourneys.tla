----------------------------- MODULE MCJourneys -----------------------------
(***************************************************************************)
(* Three trains for TLC.  T1 runs P-Q-R-S with a long halt at Q and a      *)
(* short one at R; T2 follows it from Q and runs the next day too; T3      *)
(* started the day before, the data have it in P twice, and its times      *)
(* beyond Q contradict themselves.                                         *)
(***************************************************************************)
EXTENDS Journeys

Stop(code, arr, dep, day) == [code |-> code, arr |-> arr, dep |-> dep, day |-> day]

MCTrains == {"T1", "T2", "T3"}

MCHalts ==
  [t \in MCTrains |-> Converted(
     CASE t = "T1" -> <<Stop("P", Missing, 600, 1), Stop("Q", 660, 670, 1), Stop("pass", 700, 700, 1),
                        Stop("R", 720, 724, 1), Stop("S", 800, Missing, 1)>>
       [] t = "T2" -> <<Stop("Q", Missing, 685, 1), Stop("R", 730, 735, 1), Stop("S", 790, 795, 1),
                        Stop("Z", 860, Missing, 1)>>
       [] OTHER    -> <<Stop("Z", Missing, 1300, 1), Stop("P", 500, 505, 2), Stop("P", 500, 505, 2),
                        Stop("Q", 560, 570, 2), Stop("S", 400, Missing, 2)>>)]

\* The same network with T1 in Q over midnight.
NightHalts ==
  [t \in MCTrains |-> Converted(
     CASE t = "T1" -> <<Stop("P", Missing, 1375, 1), Stop("Q", 1435, 5, 1), Stop("R", 55, 59, 2),
                        Stop("S", 135, Missing, 2)>>
       [] t = "T2" -> <<Stop("Q", Missing, 685, 1), Stop("R", 740, 745, 1), Stop("S", 790, 795, 1),
                        Stop("Z", 860, Missing, 1)>>
       [] OTHER    -> <<Stop("Z", Missing, 1300, 1), Stop("P", 500, 505, 2), Stop("Q", 560, 570, 2),
                        Stop("S", 620, Missing, 2)>>)]

MCRunsOn == [t \in MCTrains |-> CASE t = "T1" -> {0} [] t = "T2" -> {0, 1} [] OTHER -> {6}]
MCRuns   == {<<"T1", 0>>, <<"T2", 0>>, <<"T2", 1>>, <<"T3", -1>>}

MCRakes == [t \in MCTrains |-> CASE t = "T1" -> <<"A1", "PC", "A2", "S1">>
                                 [] t = "T2" -> <<"SLR", "C1">> [] OTHER -> <<"S2">>]
MCClassOf == [c \in {"A1", "A2", "C1", "S1", "S2", "PC", "SLR"} |->
                CASE c \in {"A1", "A2", "C1"} -> "3A" [] c \in {"S1", "S2"} -> "SL" [] OTHER -> None]
MCAlphabet == <<"A1", "A2", "C1", "S1", "S2">>
Places == {"P", "Q", "R", "S", "Z"}
MCQueue    == [k \in {"A1", "A2", "C1", "S1", "S2"} \X Places \X Places |->
                 CASE k[1] = "A2" -> "RAC" [] k[1] \in {"A1", "C1"} -> "WAITLIST" [] OTHER -> "UNAVAILABLE"]

MCCoaches == {<<"T1", 0, "A1">>, <<"T1", 0, "A2">>, <<"T1", 0, "S1">>,
              <<"T2", 0, "C1">>, <<"T2", 1, "C1">>, <<"T3", -1, "S2">>}
MCCatalogue == <<<<"T1", 0, "A1">>, <<"T1", 0, "A2">>, <<"T1", 0, "S1">>,
                 <<"T2", 0, "C1">>, <<"T2", 1, "C1">>, <<"T3", -1, "S2">>>>
MCRunOf   == [c \in MCCoaches |-> <<c[1], c[2]>>]

\* T1's 3A seats are free in stretches, all others throughout.
MCDraws ==
  [c \in MCCoaches |->
     [tier |-> IF c[1] = "T1" /\ c[3] # "S1" THEN 5 ELSE 1, spacing |-> 1,
      order |-> IF c[3] \in {"A2", "C1"} THEN <<2, 1>> ELSE <<1, 2>>,
      quota |-> IF c[3] = "S1" THEN 2 ELSE 1]]
MCSeed == [c \in MCCoaches |-> BusyMasks(MCHalts[c[1]], MCDraws[c], MinSeatChange)]

Ask1(class, max, count, tolerance, region) ==
  [origin |-> "P", destination |-> "S", date |-> 0, class |-> class, hard |-> class # None,
   maxTransfers |-> max, count |-> count, tolerance |-> tolerance, region |-> region]

MCQueries == {Ask1(None, 1, 1, "any", FALSE), Ask1("3A", 2, 1, "short_walk", TRUE),
              Ask1(None, 0, 1, "none", FALSE), Ask1("SL", 1, 2, "any", FALSE)}
NightQueries == {Ask1(None, 1, 1, "any", FALSE)}

Sale(coach, from, to) ==
  [coach |-> coach, from |-> from, to |-> to, auto |-> TRUE, seats |-> <<>>]
MCOthersLegs == {Sale(<<"T1", 0, "A1">>, 1, 3), Sale(<<"T2", 0, "C1">>, 0, 2)}
NoLegs == {}
=============================================================================
