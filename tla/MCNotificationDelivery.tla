----------------------- MODULE MCNotificationDelivery -----------------------
(* One room, its host and a player, and the player's device.                *)
EXTENDS NotificationDelivery, TLC

CONSTANTS host, player, d1

MCUsers == {host, player}
MCDeviceOf == d1 :> player
MCAnnounced == {"PLAYER_INITIAL_RANK_PUBLISHED"}
MCSwitched == {"ROOM_CANCELLED"}
MCStartTimes == {1, 2}

=============================================================================
