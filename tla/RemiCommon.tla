----------------------------- MODULE RemiCommon -----------------------------
(***************************************************************************)
(* The result codes of remi-common.h that the modelled code returns.  The  *)
(* code compares them for equality only, so each stands for itself.        *)
(***************************************************************************)

REMI_SUCCESS           == "REMI_SUCCESS"
REMI_ERR_INVALID_ARG   == "REMI_ERR_INVALID_ARG"
REMI_ERR_UNKNOWN_CLASS == "REMI_ERR_UNKNOWN_CLASS"
REMI_ERR_UNKNOWN_FILE  == "REMI_ERR_UNKNOWN_FILE"
REMI_ERR_UNKNOWN_PR    == "REMI_ERR_UNKNOWN_PR"
REMI_ERR_UNKNOWN_META  == "REMI_ERR_UNKNOWN_META"
REMI_ERR_MIGRATION     == "REMI_ERR_MIGRATION"
REMI_ERR_CLASS_EXISTS  == "REMI_ERR_CLASS_EXISTS"
REMI_ERR_FILE_EXISTS   == "REMI_ERR_FILE_EXISTS"
REMI_ERR_IO            == "REMI_ERR_IO"
REMI_ERR_USER          == "REMI_ERR_USER"
REMI_ERR_INVALID_OPID  == "REMI_ERR_INVALID_OPID"

\* Every code a handler of the provider may answer with.
ReplyCodes ==
  { REMI_SUCCESS, REMI_ERR_UNKNOWN_CLASS, REMI_ERR_MIGRATION,
    REMI_ERR_FILE_EXISTS, REMI_ERR_IO, REMI_ERR_USER, REMI_ERR_INVALID_OPID }

\* What each RPC may be answered, by the part of the session it belongs to.
Answers ==
  [ start |-> {REMI_SUCCESS, REMI_ERR_UNKNOWN_CLASS, REMI_ERR_FILE_EXISTS, REMI_ERR_USER,
               REMI_ERR_IO},
    mmap  |-> {REMI_SUCCESS, REMI_ERR_INVALID_OPID, REMI_ERR_IO, REMI_ERR_MIGRATION},
    write |-> {REMI_SUCCESS, REMI_ERR_INVALID_OPID, REMI_ERR_IO},
    end   |-> {REMI_SUCCESS, REMI_ERR_INVALID_OPID, REMI_ERR_IO, REMI_ERR_USER} ]
=============================================================================
