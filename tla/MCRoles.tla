------------------------------ MODULE MCRoles ------------------------------
(* Instances of Roles for TLC.                                             *)
EXTENDS Roles, TLC

CONSTANTS writer, moderator, chair

AllRoles  == {writer, moderator, chair}
PlainPair == {{writer, moderator}}
SomeFiles == {{writer}, {moderator, chair}}
SomeSets  == {{}, {writer, moderator}}
=============================================================================
