-------------------------- MODULE MCNetworkDownload --------------------------
(* A small instance of NetworkDownload for TLC: a file with two blocks, and a *)
(* second data stream.                                                        *)
EXTENDS NetworkDownload

TwoStreams == <<2, 1>>
==============================================================================
