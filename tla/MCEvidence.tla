----------------------------- MODULE MCEvidence -----------------------------
EXTENDS Evidence
MCNodes == {"endpoint", "upstream"}
MCEndpoint == "endpoint"
MCCounters == {[file |-> "correctable", says_fatal |-> FALSE, name |-> "BadTLP"],
               [file |-> "correctable", says_fatal |-> TRUE, name |-> "NonFatalErr"],
               [file |-> "nonfatal", says_fatal |-> FALSE, name |-> "CmpltTO"]}
MCLogLines == {[kind |-> "failure", text |-> "amdgpu: GPU reset"],
               [kind |-> "other", text |-> "amdgpu: link"],
               [kind |-> "irrelevant", text |-> "usb"]}
MCRingSize == 2
MCMaxRelevant == 1
MCMaxEvents == 4
=============================================================================
