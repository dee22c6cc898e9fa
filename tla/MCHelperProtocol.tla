-------------------------- MODULE MCHelperProtocol --------------------------
(* Two passes, so that a limit or a loss of the device falls between them;  *)
(* three mismatches, more than the record limits and than the statistics     *)
(* can afford; and an output limit that two error lines exceed: seven lines *)
(* are written without an error.                                            *)
EXTENDS HelperProtocol

MCPasses == 2
MCOptions == {[max_errors |-> 1, max_temp_mc |-> 80000],
              [max_errors |-> 2, max_temp_mc |-> NotGiven]}
MCReadings == {Unreadable, 60000, 95000}
MCAffordable == 2
MCMaxMismatches == 3
MCMaxLines == 8

\* The card alone, with a twin, hidden, twice, without its address, and not at
\* all.
Enumerated(card, proof) == [card |-> card, proof |-> proof]
MCEnumerations ==
    {{Enumerated("target", "pci")},
     {Enumerated("target", "drm"), Enumerated("twin", "pci")},
     {Enumerated("target", "pci"), Enumerated("target", "drm")},
     {Enumerated("target", "none"), Enumerated("twin", "pci")},
     {Enumerated("twin", "drm")},
     {}}
=============================================================================
