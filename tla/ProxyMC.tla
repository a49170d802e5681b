------------------------------ MODULE ProxyMC ------------------------------
(***************************************************************************)
(* A small fleet for Proxy: a local seat, a fallback chain of one          *)
(* zero-retention provider and one retaining provider, a second local      *)
(* seat, and two overflow seats that exist only while their provider lists *)
(* them, one of them without the capability the role requires.             *)
(***************************************************************************)
EXTENDS ProxyService

MCModels == {"loc", "orz", "zen", "back", "thin", "disc"}
MCFallbacks == [c \in {"chain"} |-> <<"orz", "zen">>]
MCCandidates == <<"loc", "chain", "back">>
MCOverflow == <<"thin", "disc">>
=============================================================================
