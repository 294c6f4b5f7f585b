-------------------------- MODULE MCChannelClient --------------------------
EXTENDS ChannelClient

\* Two backoff steps stand for 1 s .. 60 s: the schedule advances and saturates.
TwoDelays == <<0, 2>>
=============================================================================
