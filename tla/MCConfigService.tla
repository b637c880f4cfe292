--------------------------- MODULE MCConfigService ---------------------------
(* One module that is written as a whole and one that is not; one           *)
(* configuration that the first does not accept and one that is too big.    *)
EXTENDS ConfigService

CONSTANTS location, other, c1, c2, big

MCModules == {location, other}
MCShadowed == {location}
MCConfigs == {c1, c2, big}
MCProper == {c1, big}
MCTooBig == {big}
=============================================================================
