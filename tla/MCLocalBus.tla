----------------------------- MODULE MCLocalBus -----------------------------
(***************************************************************************)
(* Small instances of LocalBus: events of two types whose timestamps do    *)
(* not follow the order in which they happen to be published, and a        *)
(* subscriber of everything beside a subscriber of one type.               *)
(***************************************************************************)
EXTENDS LocalBus

MCEvents      == {1, 2}
MCType        == [e \in MCEvents |-> IF e = 1 THEN "command" ELSE "task"]
MCStamp       == [e \in MCEvents |-> -e]
MCSubscribers == {"all", "some"}
MCFilter      == [s \in Subscribers |-> IF s = "all" THEN {} ELSE {"command"}]

\* The subscriber of one type comes first and stays.
OneStays == sub["some"] # "off" /\ (sub["all"] # "none" => sub["some"] = "on")
=============================================================================
