---------------------------- MODULE ChannelNames ----------------------------
(***************************************************************************)
(* What the members of channels (module Channel) and the pushes to them    *)
(* (module ChannelPush) are named by: a user and the frontend server he is *)
(* connected to, the uid and the sid of lib/common/service/channelService. *)
(***************************************************************************)
CONSTANTS Users, Servers
=============================================================================
