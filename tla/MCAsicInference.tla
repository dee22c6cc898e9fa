--------------------------- MODULE MCAsicInference --------------------------
EXTENDS AsicInference, TLC

Compare1(x, a, p, r) == [experiment |-> x, allocation |-> a, pass |-> p, reread |-> r]
MCComparisons == <<Compare1("host_transfer", 0, 0, 0), Compare1("vram_pattern", 0, 7, 1),
                   Compare1("vram_pattern", 1, 142, 0)>>
MCOffsets == {0, 4, 68, 136}
MCBits == {0, 1}
MCFlips == {[up |-> {0}, down |-> {}], [up |-> {0}, down |-> {1}]}
MCMaxRecords == 3
MCMaxTracked == 3
MCGap == 64
MCMaxErrors == 4

MCCard == [asic |-> "navi21", revision |-> "c0"]
MCNames == {"CH-A", "CH-B", "LO", "HI"}

Good == [id |-> "a", well_formed |-> TRUE, semantics |-> TRUE, asic |-> "navi21",
         revisions |-> {"c0", "c1"}, width |-> 2, experiments |-> {"vram_pattern"},
         groups |-> <<{2, 6}, {3}>>, confidence |-> "MEDIUM",
         channels |-> (0 :> "CH-A" @@ 1 :> "CH-B" @@ 2 :> "CH-B" @@ 3 :> "CH-A"),
         lanes |-> (0 :> "LO" @@ 1 :> "HI"),
         cases |-> {[experiment |-> "vram_pattern", offset |-> 4, bits |-> {0, 1},
                     channel |-> "CH-B", lanes |-> {"LO", "HI"}]}]
OneLane == [Good EXCEPT !.id = "b", !.lanes = (0 :> "LO" @@ 1 :> "LO"),
                        !.cases = {[experiment |-> "host_transfer", offset |-> 0, bits |-> {1},
                                    channel |-> "CH-A", lanes |-> {"LO"}]},
                        !.experiments = {"vram_pattern", "host_transfer"}]
Narrow == [Good EXCEPT !.width = 1, !.lanes = (0 :> "LO"),
                       !.cases = {[experiment |-> "vram_pattern", offset |-> 136, bits |-> {0},
                                   channel |-> "CH-B", lanes |-> {"LO"}]}]
HalfMapped == [Good EXCEPT !.channels = (0 :> "CH-A" @@ 1 :> "CH-B"), !.id = "c"]
WrongFixture == [OneLane EXCEPT !.lanes = Good.lanes]
OtherCard == [OneLane EXCEPT !.revisions = {"c1"}]
OtherUnits == [Good EXCEPT !.semantics = FALSE]

MCCatalogs == {{}, {Good}, {OneLane}, {Good, OneLane}, {Good, OtherCard}, {Good, WrongFixture},
               {OtherUnits}, {Narrow}, {HalfMapped}}
=============================================================================
