SPECIFICATION FairSpec
CONSTANTS
  u1 = u1
  u2 = u2
  s1 = s1
  v1 = v1
  w1 = w1
  m1 = m1
  m2 = m2
  path = path
  url = url
  port = port
  root = root
  box = box
  album = album
  song = song
  film = film
  note = note
  NoMount = NoMount
  Mounts = {m1, m2, path, url, port}
  Devices = {u1, u2, s1, v1, w1}
  Home <- MCHome
  Places <- MCPlaces
  Worlds <- Endless
  Pool = {"p1"}
  Objects = {root, box, album, song, film, note}
  Root = root
  Followed = {root, box}
  Playable = {song, film, note}
  ChunkSize = 2
  UpnpAlive = 1
PROPERTIES WalksEnd
CHECK_DEADLOCK FALSE
