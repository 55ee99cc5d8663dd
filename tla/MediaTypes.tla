----------------------------- MODULE MediaTypes -----------------------------
(***************************************************************************)
(* The kinds of media the web service tells apart (wwwsvc/config.php) and  *)
(* how it reads them from the parameters of a request (wwwsvc/local.php),  *)
(* for the registration of a file (Converter) and for its delivery         *)
(* (GetVisuals).                                                           *)
(***************************************************************************)
EXTENDS Integers

MEDIATYPE_UNRECOGNIZED == -1
MEDIATYPE_VIDEO        == 0
MEDIATYPE_STILL_IMAGE  == 1

MEDIASUBTYPE_UNRECOGNIZED == -1
MEDIASUBTYPE_JPG == 0
MEDIASUBTYPE_AVI == 1
MEDIASUBTYPE_FLV == 2

\* A parameter that the request does not have; it differs from an empty one.
Unset == "unset"

\* MEDIATYPE_IMAGE, which local.php uses, is defined nowhere.  The word ends up
\* in the statement, where it names no column: MySQL refuses the statement.
Undefined == -2

-----------------------------------------------------------------------------
getQSMediaType(type, default) ==
  CASE type = "video"       -> MEDIATYPE_VIDEO
    [] type = "image"       -> MEDIATYPE_STILL_IMAGE
    [] type \in {Unset, ""} -> default
    [] OTHER                -> MEDIATYPE_UNRECOGNIZED

\* Without a subtype the type decides.  If that is missing too, getQSMediaType
\* returns "", which PHP's switch takes for MEDIATYPE_VIDEO, since "" == 0: the
\* case "" that would return the default is never reached.
SubTypeOfType(type) ==
  CASE type \in {"video", "", Unset} -> MEDIASUBTYPE_AVI
    [] type = "image"                -> Undefined
    [] OTHER                         -> MEDIASUBTYPE_UNRECOGNIZED

\* An unknown subtype gets the default.  (Mutant: jpg is unknown.)
getQSMediaSubTypeVideos(type, subtype, default) ==
  CASE subtype = "avi" -> MEDIASUBTYPE_AVI
    [] subtype = "flv" -> MEDIASUBTYPE_FLV
    [] subtype = Unset -> SubTypeOfType(type)
    [] OTHER           -> default
getQSMediaSubType(type, subtype, default) ==
  CASE subtype = "jpg" -> MEDIASUBTYPE_JPG
    [] subtype = "avi" -> MEDIASUBTYPE_AVI
    [] subtype = "flv" -> MEDIASUBTYPE_FLV
    [] subtype = Unset -> SubTypeOfType(type)
    [] OTHER           -> default
=============================================================================
