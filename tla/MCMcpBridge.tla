---------------------------- MODULE MCMcpBridge ----------------------------
(* Instances of McpBridge for TLC.                                          *)
EXTENDS McpBridge

a == <<"a">>
b == <<"b">>
t == <<"t">>

\* A plain name, two that make exported names like its own, and one name twice.
AlikePrefixes == <<a, a \o Sep \o t, a \o <<Underscore>>, b, b>>
AlikeTools == {t, t \o Sep \o t, <<Underscore>> \o t}

=============================================================================
