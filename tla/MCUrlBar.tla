------------------------------ MODULE MCUrlBar ------------------------------
(* UrlBar with a two-byte letter, a separator and a bare letter to type, and *)
(* page addresses of both kinds.                                             *)
EXTENDS UrlBar
TypedVal == {<<"w">>, <<"s">>, <<"L", "T">>}
ValidClip == {<<>>, <<"L", "T">>, <<"w", "s">>}
Latin1Clip == {<<"L">>}
UrlsVal == {<<"w", "s">>, <<"L", "T">>}
=============================================================================
