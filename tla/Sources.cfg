CONSTANTS
  TgMessages = {1, 2, 3}
  Albums = {"album"}
  AlbumOf <- MCAlbumOf
  NoAlbum = "none"
  MaxListeners = 2
  Reconnect = TRUE
  RecentLimit = 1
  QQMessages = {1, 2}
  MaxEvents = 4
  MaxInbound = 2
  MaxRefresh = 1
  MaxRestarts = 2
  Enabled = {"telegram", "qq", "weixin"}
SPECIFICATION FairSpec
INVARIANTS TypeOK TelegramOnce EventsOnce SavedIsHandled LogoutLasts
PROPERTIES AlbumWhole AlbumsEnd
CHECK_DEADLOCK FALSE
