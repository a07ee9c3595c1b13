----------------------------- MODULE MCRedirect -----------------------------
(* RedirectDriver on rulesets of up to two rules. *)
EXTENDS MCRedirectData, RedirectSafety, RedirectPromises

CallWanted   == {ToNew, Custom, BadCode}
CallConfigs  == CallWanted
CallListings == {<<Keep, Old>>, <<Dynamic, Old>>}
CallRules    == CallListings
CallEdits    == {Keep}
CallOutside  == CallEdits

\* One situation for each statement of RedirectPromises.
OneWanted     == {ToNew}
OneConfig     == OneWanted
DynamicList   == {<<Dynamic, Old>>}
DynamicRules  == DynamicList
MovedWanted   == {ToNew, ForWww}
MovedConfigs  == MovedWanted
NoneList      == {<<>>}
NoneRules     == NoneList

=============================================================================
